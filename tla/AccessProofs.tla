---------------------------- MODULE AccessProofs ----------------------------
(***************************************************************************)
(* Proofs about sign-in and the OAuth server, for any number of requests,  *)
(* Privy users and accounts, and about the session in the browser (Pages), *)
(* for any number of its users.                                            *)
(***************************************************************************)
EXTENDS Access, Pages, TLAPS

-------------------------------------------------------------------------------
(* The inductive invariant.                                                *)

WebOps == {"web", "authorize"}
WebSteps == {"read", "create", "reread", "upsert", "commit", "context", "code"}

\* What a call knows of itself.
CallIsConsistent(c) ==
    /\ call[c].pc \in WebSteps => call[c].op \in WebOps
    /\ call[c].pc \in {"consume", "sign", "used"} => call[c].op = "exchange"
    /\ call[c].pc \in {"lookup", "member", "unlinked"} => call[c].op = "mcp"
    /\ call[c].op \in WebOps => call[c].did \in Privy
    /\ call[c].pc \in {"upsert", "commit", "context", "code"} => call[c].user # NoUser
    /\ call[c].pc = "commit" => call[c].held = IdentitiesOf(c)

\* owners remembers every link that Privy made, and every session names some.
LinksAreOwned == \A a \in Linked : linked[a] # NoPrivy => linked[a] \in owners[a]

SessionIsOwned(c) ==
    call[c].op \in WebOps => \A a \in call[c].session : call[c].did \in owners[a]

\* Whoever brought an account to a user has signed in.
AccountsHaveOwners ==
    \A a \in Linked :
        accounts[a] # NoUser => \E p \in owners[a] : accounts[p] # NoUser

\* The user of a call is that of its Privy user.
UserIsOfSession(c) ==
    (call[c].op \in WebOps /\ call[c].user # NoUser /\ Settled(c)) =>
        accounts[call[c].did] = call[c].user

UserIsOfSubject(c) ==
    (call[c].op = "mcp" /\ call[c].user # NoUser) =>
        /\ call[c].token.subject \in Privy
        /\ accounts[call[c].token.subject] = call[c].user

\* The code that call c has consumed, and has a token for or is about to.
Yielded(c) == IF At(c, "sign") THEN call[c].token.code ELSE tokens[c].code

CodeFollowsCall(c) ==
    /\ codes[c].status # "none" => At(c, "done")
    /\ tokens[c].code # NoUser => At(c, "done")
    /\ call[c].op = "exchange" =>
          call[c].token.code \in Calls /\ codes[call[c].token.code].status # "none"
    /\ At(c, "used") => codes[call[c].token.code].status = "consumed"
    /\ Yielded(c) # NoUser => codes[Yielded(c)].status = "consumed"

CodeYieldsOnce ==
    \A c, d \in Calls : (Yielded(c) # NoUser /\ Yielded(c) = Yielded(d)) => c = d

\* The exchange that consumed a code.
Consumed(d, k) ==
    /\ call[d].op = "exchange" /\ call[d].pc \in {"sign", "done", "failed"}
    /\ call[d].token.code = k

ConsumedBySomeone ==
    \A k \in Calls : codes[k].status = "consumed" => \E d \in Calls : Consumed(d, k)

SessionInv ==
    /\ \A c \in Calls : CallIsConsistent(c) /\ SessionIsOwned(c)
    /\ LinksAreOwned
    /\ AccountsHaveOwners
    /\ \A c \in Calls : UserIsOfSession(c) /\ UserIsOfSubject(c)

CodeInv ==
    /\ \A c \in Calls : CodeFollowsCall(c)
    /\ CodeYieldsOnce
    /\ ConsumedBySomeone

IInv == TypeOK /\ SessionInv /\ CodeInv /\ NoOrphanUsers

-------------------------------------------------------------------------------
(* How the memory of a call changes in its own steps.                      *)

StepOf(c) ==
    \/ \E op \in WebOps, p \in Privy : Start(c, op, p)
    \/ Read(c) \/ Create(c) \/ CreateFails(c) \/ Reread(c)
    \/ \E i \in Identities : Upsert(c, i)
    \/ SelectStale(c) \/ Commit(c) \/ Context(c) \/ CreateCode(c)
    \/ \E k \in Calls : Exchange(c, k)
    \/ Consume(c) \/ Sign(c)
    \/ \E k \in Calls : StartMcp(c, tokens[k])
    \/ \E p \in Privy, u \in Users :
         StartMcp(c, [code |-> NoUser, subject |-> p, user |-> u])
    \/ Lookup(c) \/ Member(c) \/ Error(c)

Environment ==
    \/ \E a \in Linked : Unlink(a) \/ \E p \in Privy : Link(a, p)
    \/ \E k \in Calls : Expire(k)

\* A step is one of a request or one of the environment.
LEMMA StepCases == Next <=> (\E c \in Calls : StepOf(c)) \/ Environment
  BY DEF Next, StepOf, Environment, WebOps

Becomes(c, x) ==
    /\ call' \in [Calls -> CallState]
    /\ call'[c] = x
    /\ \A d \in Calls \ {c} : call'[d] = call[d]

\* Replacing the record of a request touches no other.
LEMMA UpdateBecomes ==
    ASSUME TypeOK, NEW c \in Calls, NEW x \in CallState, call' = [call EXCEPT ![c] = x]
    PROVE  Becomes(c, x)
  BY DEF TypeOK, Becomes

\* The call goes on with the same request, for some user.
Follows(x, y) ==
    x.op = y.op /\ x.did = y.did /\ x.session = y.session /\ x.token = y.token

Moves(c, step, user) ==
    /\ call' \in [Calls -> CallState]
    /\ call'[c].pc = step /\ call'[c].user = user
    /\ Follows(call'[c], call[c])
    /\ \A d \in Calls \ {c} : call'[d] = call[d]

PCs == {"start", "read", "create", "reread", "upsert", "commit", "context", "code",
        "consume", "sign", "lookup", "member", "done", "used", "unlinked", "failed"}

\* The fields of a request have their types.
LEMMA CallType ==
    ASSUME TypeOK, NEW c \in Calls
    PROVE  /\ call[c] \in CallState
           /\ call[c].pc \in PCs /\ call[c].op \in WebOps \cup {"none", "exchange", "mcp"}
           /\ call[c].did \in Privy \cup {NoPrivy} /\ call[c].session \in SUBSET Linked
           /\ call[c].user \in Users \cup {NoUser} /\ call[c].held \in SUBSET Identities
           /\ call[c].stale \in SUBSET Linked /\ call[c].token \in Token
  <1>1. call[c] \in CallState
    BY DEF TypeOK
  <1> QED
    BY <1>1 DEF CallState, PCs, WebOps

\* A request whose new record follows the old one moves to its step and user.
LEMMA UpdateMoves ==
    ASSUME TypeOK, NEW c \in Calls, NEW x \in CallState, Follows(x, call[c]),
           call' = [call EXCEPT ![c] = x]
    PROVE  Moves(c, x.pc, x.user) /\ call'[c].held = x.held
  BY UpdateBecomes DEF Becomes, Moves

\* Going on to a step keeps the user and the locks.
LEMMA GoMoves ==
    ASSUME TypeOK, NEW c \in Calls, NEW step \in PCs, Go(c, step)
    PROVE  Moves(c, step, call[c].user) /\ call'[c].held = call[c].held
  <1> DEFINE x == [call[c] EXCEPT !.pc = step]
  <1>1. call[c] \in CallState
    BY CallType
  <1>2. x \in CallState /\ Follows(x, call[c])
    BY <1>1 DEF CallState, PCs, Follows
  <1>3. x.pc = step /\ x.user = call[c].user /\ x.held = call[c].held
    BY <1>1 DEF CallState
  <1>4. call' = [call EXCEPT ![c] = x]
    BY DEF Go
  <1> HIDE DEF x
  <1> QED
    BY <1>2, <1>3, <1>4, UpdateMoves

\* A request that goes on with a user.
LEMMA UserMoves ==
    ASSUME TypeOK, NEW c \in Calls, NEW step \in PCs, NEW user \in Users \cup {NoUser},
           call' = [call EXCEPT ![c].pc = step, ![c].user = user]
    PROVE  Moves(c, step, user)
  <1> DEFINE x == [call[c] EXCEPT !.pc = step, !.user = user]
  <1>1. call[c] \in CallState
    BY CallType
  <1>2. x \in CallState /\ Follows(x, call[c])
    BY <1>1 DEF CallState, PCs, Follows
  <1>3. x.pc = step /\ x.user = user
    BY <1>1 DEF CallState
  <1>4. call' = [call EXCEPT ![c] = x]
    BY DEF TypeOK
  <1> HIDE DEF x
  <1> QED
    BY <1>2, <1>3, <1>4, UpdateMoves

\* A request that found its user when it read again.
LEMMA RereadMoves ==
    ASSUME TypeOK, NEW c \in Calls, NEW user \in Users \cup {NoUser},
           call' = [call EXCEPT ![c].pc = "upsert", ![c].error = "none", ![c].user = user]
    PROVE  Moves(c, "upsert", user)
  <1> DEFINE x == [call[c] EXCEPT !.pc = "upsert", !.error = "none", !.user = user]
  <1>1. call[c] \in CallState
    BY CallType
  <1>2. x \in CallState /\ Follows(x, call[c])
    BY <1>1 DEF CallState, Follows
  <1>3. x.pc = "upsert" /\ x.user = user
    BY <1>1 DEF CallState
  <1>4. call' = [call EXCEPT ![c] = x]
    BY DEF TypeOK
  <1> HIDE DEF x
  <1> QED
    BY <1>2, <1>3, <1>4, UpdateMoves

\* A request whose creation of a user failed.
LEMMA FailedCreateMoves ==
    ASSUME TypeOK, NEW c \in Calls, NEW error \in {"duplicate", "other"},
           call' = [call EXCEPT ![c].pc = "reread", ![c].error = error]
    PROVE  Moves(c, "reread", call[c].user)
  <1> DEFINE x == [call[c] EXCEPT !.pc = "reread", !.error = error]
  <1>1. call[c] \in CallState
    BY CallType
  <1>2. x \in CallState /\ Follows(x, call[c])
    BY <1>1 DEF CallState, Follows
  <1>3. x.pc = "reread" /\ x.user = call[c].user
    BY <1>1 DEF CallState
  <1>4. call' = [call EXCEPT ![c] = x]
    BY DEF TypeOK
  <1> HIDE DEF x
  <1> QED
    BY <1>2, <1>3, <1>4, UpdateMoves

\* An upsert adds a lock and stays where it is.
LEMMA UpsertMoves ==
    ASSUME TypeOK, NEW c \in Calls, NEW i \in Identities, Upsert(c, i)
    PROVE  Moves(c, "upsert", call[c].user)
  <1> DEFINE x == [call[c] EXCEPT !.held = call[c].held \cup {i}]
  <1>1. call[c] \in CallState /\ call[c].held \cup {i} \in SUBSET Identities
    BY CallType
  <1>2. x \in CallState /\ Follows(x, call[c])
    BY <1>1 DEF CallState, Follows
  <1>3. x.pc = "upsert" /\ x.user = call[c].user
    BY <1>1 DEF CallState, Upsert, At
  <1>4. call' = [call EXCEPT ![c] = x]
    BY DEF TypeOK, Upsert
  <1> HIDE DEF x
  <1> QED
    BY <1>2, <1>3, <1>4, UpdateMoves

\* The SELECT of stale identities leads to the COMMIT.
LEMMA SelectStaleMoves ==
    ASSUME TypeOK, NEW c \in Calls, SelectStale(c)
    PROVE  Moves(c, "commit", call[c].user) /\ call'[c].held = call[c].held
  <1> DEFINE x == [call[c] EXCEPT !.pc = "commit", !.stale = StaleAccounts(c)]
  <1>1. call[c] \in CallState /\ StaleAccounts(c) \in SUBSET Linked
    BY CallType DEF StaleAccounts
  <1>2. x \in CallState /\ Follows(x, call[c])
    BY <1>1 DEF CallState, Follows
  <1>3. x.pc = "commit" /\ x.user = call[c].user /\ x.held = call[c].held
    BY <1>1 DEF CallState
  <1>4. call' = [call EXCEPT ![c] = x]
    BY DEF TypeOK, SelectStale
  <1> HIDE DEF x
  <1> QED
    BY <1>2, <1>3, <1>4, UpdateMoves

\* A request that ends its transaction lets go of its locks.
LEMMA ThrownMoves ==
    ASSUME TypeOK, NEW c \in Calls, NEW end \in PCs, call' = Thrown(c, end)
    PROVE  Moves(c, end, call[c].user)
  <1> DEFINE x == [call[c] EXCEPT !.pc = end, !.held = {}, !.stale = {}]
  <1>1. call[c] \in CallState
    BY CallType
  <1>2. x \in CallState /\ Follows(x, call[c])
    BY <1>1 DEF CallState, PCs, Follows
  <1>3. x.pc = end /\ x.user = call[c].user
    BY <1>1 DEF CallState
  <1>4. call' = [call EXCEPT ![c] = x]
    BY DEF TypeOK, Thrown
  <1> HIDE DEF x
  <1> QED
    BY <1>2, <1>3, <1>4, UpdateMoves

\* A statement that fails ends the request.
LEMMA ErrorMoves ==
    ASSUME TypeOK, NEW c \in Calls, Error(c)
    PROVE  Moves(c, "failed", call[c].user)
  <1> DEFINE x == [call[c] EXCEPT !.pc = "failed", !.held = {}, !.stale = {}, !.error = "other"]
  <1>1. call[c] \in CallState
    BY CallType
  <1>2. x \in CallState /\ Follows(x, call[c])
    BY <1>1 DEF CallState, Follows
  <1>3. x.pc = "failed" /\ x.user = call[c].user
    BY <1>1 DEF CallState
  <1>4. call' = [call EXCEPT ![c] = x]
    BY DEF TypeOK, Error, Thrown
  <1> HIDE DEF x
  <1> QED
    BY <1>2, <1>3, <1>4, UpdateMoves

\* A web request starts with what Privy links at that instant.
LEMMA StartBecomes ==
    ASSUME TypeOK, NEW c \in Calls, NEW op \in WebOps, NEW p \in Privy, Start(c, op, p)
    PROVE  \E x \in CallState :
             /\ Becomes(c, x)
             /\ x.pc = "read" /\ x.op = op /\ x.did = p /\ x.user = NoUser
             /\ x.session = {a \in Linked : linked[a] = p}
  <1> DEFINE x == [Unstarted EXCEPT !.pc = "read", !.op = op, !.did = p,
                                    !.session = {a \in Linked : linked[a] = p}]
  <1>1. /\ x \in CallState
        /\ x.pc = "read" /\ x.op = op /\ x.did = p /\ x.user = NoUser
        /\ x.session = {a \in Linked : linked[a] = p}
    BY DEF Unstarted, NoToken, CallState, Token, WebOps
  <1>2. call' = [call EXCEPT ![c] = x]
    BY DEF Start
  <1> HIDE DEF x
  <1> QED
    BY <1>1, <1>2, UpdateBecomes

\* An exchange starts with a code, or ends at once.
LEMMA ExchangeBecomes ==
    ASSUME TypeOK, NEW c \in Calls, NEW k \in Calls, Exchange(c, k)
    PROVE  \E x \in CallState :
             /\ Becomes(c, x)
             /\ x.op = "exchange" /\ x.user = NoUser /\ x.token.code = k
             /\ \/ x.pc = "used" /\ codes[k].status = "consumed"
                \/ x.pc \in {"failed", "consume"}
  <1> DEFINE token == [code |-> k, subject |-> codes[k].subject, user |-> codes[k].user]
             step == IF ~Consumable(codes[k]) THEN "used"
                     ELSE IF codes[k].expired THEN "failed" ELSE "consume"
             begun == [Unstarted EXCEPT !.op = "exchange", !.token = token]
             x == [begun EXCEPT !.pc = step]
  <1>1. codes[k] \in Code /\ codes[k].status # "none"
    BY DEF TypeOK, Exchange
  <1>2. token \in Token /\ token.code = k
    BY <1>1 DEF Code, Token
  <1>3. \/ step = "used" /\ codes[k].status = "consumed"
        \/ step \in {"failed", "consume"}
    BY <1>1 DEF Consumable, Code
  <1> HIDE DEF token, step
  <1>4. /\ begun \in CallState /\ begun.op = "exchange" /\ begun.user = NoUser
        /\ begun.token = token
    BY <1>2 DEF Unstarted, CallState
  <1> HIDE DEF begun
  <1>5. /\ x \in CallState
        /\ x.pc = step /\ x.op = "exchange" /\ x.user = NoUser /\ x.token = token
    BY <1>3, <1>4 DEF CallState
  <1>6. call' = [call EXCEPT ![c] = x]
    BY DEF Exchange, begun, step, token
  <1> HIDE DEF x
  <1> QED
    BY <1>2, <1>3, <1>5, <1>6, UpdateBecomes

\* An MCP request starts with its token.
LEMMA StartMcpBecomes ==
    ASSUME TypeOK, NEW c \in Calls, NEW token \in Token, StartMcp(c, token)
    PROVE  \E x \in CallState :
             Becomes(c, x) /\ x.pc = "lookup" /\ x.op = "mcp" /\ x.user = NoUser
  <1> DEFINE x == [Unstarted EXCEPT !.pc = "lookup", !.op = "mcp", !.token = token]
  <1>1. x \in CallState /\ x.pc = "lookup" /\ x.op = "mcp" /\ x.user = NoUser
    BY DEF Unstarted, CallState
  <1>2. call' = [call EXCEPT ![c] = x]
    BY DEF StartMcp
  <1> HIDE DEF x
  <1> QED
    BY <1>1, <1>2, UpdateBecomes

\* What each step does to the memory of its call.
Begins(c) ==
    \/ \E op \in WebOps, p \in Privy : Start(c, op, p)
    \/ \E k \in Calls : Exchange(c, k)
    \/ \E token \in Token : StartMcp(c, token)

\* Tokens of another issuer are tokens.
LEMMA ExternalTokenType ==
    \A p \in Privy, u \in Users : [code |-> NoUser, subject |-> p, user |-> u] \in Token
  BY DEF Token, Subjects, Users

\* An MCP request starts with some token, whoever issued it.
LEMMA McpBegins ==
    ASSUME TypeOK, NEW c \in Calls,
           \/ \E k \in Calls : StartMcp(c, tokens[k])
           \/ \E p \in Privy, u \in Users :
                StartMcp(c, [code |-> NoUser, subject |-> p, user |-> u])
    PROVE  \E token \in Token : StartMcp(c, token)
  <1>1. \A k \in Calls : tokens[k] \in Token
    BY DEF TypeOK
  <1> QED
    BY <1>1, ExternalTokenType

\* A request begins without a user, and nothing is written.
LEMMA BeginsBecomes ==
    ASSUME TypeOK, NEW c \in Calls, Begins(c)
    PROVE  \E x \in CallState :
             Becomes(c, x) /\ x.user = NoUser /\ At(c, "start")
             /\ x.pc \in {"read", "used", "failed", "consume", "lookup"}
             /\ UNCHANGED <<accounts, emails, users, linked, owners, codes, tokens>>
  <1>1. CASE \E op \in WebOps, p \in Privy : Start(c, op, p)
    <2>1. PICK op \in WebOps, p \in Privy : Start(c, op, p)
      BY <1>1
    <2>2. At(c, "start") /\ UNCHANGED <<accounts, emails, users, linked, owners, codes, tokens>>
      BY <2>1 DEF Start
    <2> QED
      BY <2>1, <2>2, StartBecomes
  <1>2. CASE \E k \in Calls : Exchange(c, k)
    BY <1>2, ExchangeBecomes DEF Exchange
  <1>3. CASE \E token \in Token : StartMcp(c, token)
    BY <1>3, StartMcpBecomes DEF StartMcp
  <1> QED
    BY <1>1, <1>2, <1>3 DEF Begins

\* Reading finds one user, none, or too many.
LEMMA ReadMoves ==
    ASSUME TypeOK, NEW c \in Calls, Read(c)
    PROVE  \/ \E step \in {"create", "failed"} : Moves(c, step, call[c].user)
           \/ \E u \in Users : MatchedUsers(c) = {u} /\ Moves(c, "upsert", u)
  <1>1. CASE Go(c, "create")
    BY <1>1, GoMoves DEF PCs
  <1>2. CASE Throw(c)
    BY <1>2, ThrownMoves DEF PCs, Throw
  <1>3. ASSUME NEW u \in Users, MatchedUsers(c) = {u},
               call' = [call EXCEPT ![c].pc = "upsert", ![c].user = u]
        PROVE  Moves(c, "upsert", u)
    BY <1>3, UserMoves DEF PCs
  <1> QED
    BY <1>1, <1>2, <1>3 DEF Read

\* A creation yields the user of the request itself, or fails.
LEMMA CreateMoves ==
    ASSUME TypeOK, NEW c \in Calls, Create(c)
    PROVE  Moves(c, "upsert", c) \/ Moves(c, "reread", call[c].user)
  <1>1. CASE call' = [call EXCEPT ![c].pc = "upsert", ![c].user = c]
    BY <1>1, UserMoves DEF PCs, Users
  <1>2. CASE call' = [call EXCEPT ![c].pc = "reread", ![c].error = "other"]
    BY <1>2, FailedCreateMoves
  <1> QED
    BY <1>1, <1>2 DEF Create

\* A creation that collides with another leads to the catch block.
LEMMA CreateFailsMoves ==
    ASSUME TypeOK, NEW c \in Calls, CreateFails(c)
    PROVE  Moves(c, "reread", call[c].user)
  BY FailedCreateMoves DEF CreateFails

\* The catch block finds who was created meanwhile, or gives up.
LEMMA RereadEndsOrMoves ==
    ASSUME TypeOK, NEW c \in Calls, call[c].did \in Privy, Reread(c)
    PROVE  \/ Moves(c, "failed", call[c].user)
           \/ accounts[call[c].did] # NoUser /\ Moves(c, "upsert", accounts[call[c].did])
  <1>1. CASE accounts[call[c].did] = NoUser
    BY <1>1, ThrownMoves DEF Reread, Throw, PCs
  <1>2. CASE accounts[call[c].did] # NoUser
    <2>1. accounts[call[c].did] \in Users \cup {NoUser}
      BY DEF TypeOK, Identities
    <2> QED
      BY <1>2, <2>1, RereadMoves DEF Reread
  <1> QED
    BY <1>1, <1>2

\* The second transaction ends in the context or in a failure.
LEMMA CommitMoves ==
    ASSUME TypeOK, NEW c \in Calls, Commit(c)
    PROVE  \E end \in {"context", "failed"} : Moves(c, end, call[c].user)
  BY ThrownMoves DEF Commit, PCs

\* The context of a user ends a web request or leads to its code.
LEMMA ContextMoves ==
    ASSUME TypeOK, NEW c \in Calls, Context(c)
    PROVE  \E end \in {"code", "done", "failed"} : Moves(c, end, call[c].user)
  <1>1. CASE Go(c, IF call[c].op = "authorize" THEN "code" ELSE "done")
    BY <1>1, GoMoves DEF PCs
  <1>2. CASE Throw(c)
    BY <1>2, ThrownMoves DEF PCs, Throw
  <1> QED
    BY <1>1, <1>2 DEF Context

\* Consuming a code leads to the signature, or says that it was used.
LEMMA ConsumeMoves ==
    ASSUME TypeOK, NEW c \in Calls, Consume(c)
    PROVE  \E end \in {"sign", "failed", "used"} : Moves(c, end, call[c].user)
  BY GoMoves DEF Consume, PCs

\* A token's subject is the account that is looked up.
LEMMA LookupMoves ==
    ASSUME TypeOK, NEW c \in Calls, Lookup(c)
    PROVE  \/ Moves(c, "unlinked", call[c].user)
           \/ LET subject == call[c].token.subject IN
              /\ subject \in Privy /\ accounts[subject] # NoUser
              /\ Moves(c, "member", accounts[subject])
  <1> DEFINE subject == call[c].token.subject
  <1>1. CASE subject \in Privy /\ accounts[subject] # NoUser
    <2>1. accounts[subject] \in Users \cup {NoUser}
      BY <1>1 DEF TypeOK, Identities
    <2> QED
      BY <1>1, <2>1, UserMoves DEF Lookup, PCs
  <1>2. CASE ~(subject \in Privy /\ accounts[subject] # NoUser)
    BY <1>2, GoMoves DEF Lookup, PCs
  <1> QED
    BY <1>1, <1>2

\* The check of the membership ends an MCP request.
LEMMA MemberMoves ==
    ASSUME TypeOK, NEW c \in Calls, Member(c)
    PROVE  \E end \in {"done", "failed"} : Moves(c, end, call[c].user)
  <1>1. CASE Go(c, "done")
    BY <1>1, GoMoves DEF PCs
  <1>2. CASE Throw(c)
    BY <1>2, ThrownMoves DEF PCs, Throw
  <1> QED
    BY <1>1, <1>2 DEF Member

\* The steps of a call, gathered by what they do to its memory.
Proceeds(c) ==
    \/ Read(c) \/ Create(c) \/ CreateFails(c) \/ Reread(c)
    \/ \E i \in Identities : Upsert(c, i)
    \/ SelectStale(c) \/ Commit(c) \/ Context(c) \/ CreateCode(c)
    \/ Consume(c) \/ Sign(c) \/ Lookup(c) \/ Member(c) \/ Error(c)

\* A request begins or proceeds.
LEMMA StepBeginsOrProceeds ==
    ASSUME TypeOK, NEW c \in Calls, StepOf(c)
    PROVE  Begins(c) \/ Proceeds(c)
  BY McpBegins DEF StepOf, Begins, Proceeds

\* A request that proceeds keeps what it asked for.
LEMMA ProceedsMoves ==
    ASSUME TypeOK, NEW c \in Calls, call[c].did \in Privy \/ ~At(c, "reread"), Proceeds(c)
    PROVE  \E step \in PCs, user \in Users \cup {NoUser} : Moves(c, step, user)
  <1>1. call[c].user \in Users \cup {NoUser}
    BY CallType
  <1>2. CASE Read(c)
    BY <1>1, <1>2, ReadMoves DEF PCs
  <1>3. CASE Create(c)
    BY <1>1, <1>3, CreateMoves DEF PCs, Users
  <1>4. CASE CreateFails(c)
    BY <1>1, <1>4, CreateFailsMoves DEF PCs
  <1>5. CASE Reread(c)
    <2>1. call[c].did \in Privy
      BY <1>5 DEF Reread
    <2>2. accounts[call[c].did] \in Users \cup {NoUser}
      BY <2>1 DEF TypeOK, Identities
    <2> QED
      BY <1>1, <1>5, <2>1, <2>2, RereadEndsOrMoves DEF PCs
  <1>6. CASE \E i \in Identities : Upsert(c, i)
    BY <1>1, <1>6, UpsertMoves DEF PCs
  <1>7. CASE SelectStale(c)
    BY <1>1, <1>7, SelectStaleMoves DEF PCs
  <1>8. CASE Commit(c)
    BY <1>1, <1>8, CommitMoves DEF PCs
  <1>9. CASE Context(c)
    BY <1>1, <1>9, ContextMoves DEF PCs
  <1>10. CASE CreateCode(c)
    BY <1>1, <1>10, GoMoves DEF PCs, CreateCode
  <1>11. CASE Consume(c)
    BY <1>1, <1>11, ConsumeMoves DEF PCs
  <1>12. CASE Sign(c)
    BY <1>1, <1>12, GoMoves DEF PCs, Sign
  <1>13. CASE Lookup(c)
    <2>1. \A p \in Privy : accounts[p] \in Users \cup {NoUser}
      BY DEF TypeOK, Identities
    <2> QED
      BY <1>1, <1>13, <2>1, LookupMoves DEF PCs
  <1>14. CASE Member(c)
    BY <1>1, <1>14, MemberMoves DEF PCs
  <1>15. CASE Error(c)
    BY <1>1, <1>15, ErrorMoves DEF PCs
  <1> QED
    BY <1>2, <1>3, <1>4, <1>5, <1>6, <1>7, <1>8, <1>9, <1>10, <1>11, <1>12, <1>13,
       <1>14, <1>15 DEF Proceeds

\* A step of a call leaves the memory of the others alone.
Frame(c) ==
    /\ call' \in [Calls -> CallState]
    /\ \A d \in Calls \ {c} : call'[d] = call[d]

\* What a step of a request leaves alone.
LEMMA StepFrame ==
    ASSUME TypeOK, NEW c \in Calls, CallIsConsistent(c), StepOf(c)
    PROVE  Frame(c)
  <1>1. call[c].did \in Privy \/ ~At(c, "reread")
    BY DEF CallIsConsistent, At, WebSteps
  <1>2. CASE Begins(c)
    BY <1>2, BeginsBecomes DEF Becomes, Frame
  <1>3. CASE Proceeds(c)
    BY <1>1, <1>3, ProceedsMoves DEF Moves, Frame
  <1> QED
    BY <1>2, <1>3, StepBeginsOrProceeds

-------------------------------------------------------------------------------
(* Types.                                                                  *)

\* The steps that write the accounts.
LEMMA AccountsType ==
    ASSUME TypeOK, NEW c \in Calls, CallIsConsistent(c), Create(c) \/ Commit(c)
    PROVE  accounts' \in [Identities -> Users \cup {NoUser}]
  <1>1. CASE Create(c)
    BY <1>1 DEF TypeOK, Create, FirstIdentity, Users
  <1>2. CASE Commit(c)
    <2>1. call[c].user \in Users \cup {NoUser}
      BY CallType
    <2>2. \A i \in Identities : Inserted(c)[i] \in Users \cup {NoUser}
      BY <2>1 DEF Inserted, TypeOK
    <2> QED
      BY <1>2, <2>2 DEF Commit
  <1> QED
    BY <1>1, <1>2

\* The writers of codes keep their type.
LEMMA CodesType ==
    ASSUME TypeOK, NEW c \in Calls, CreateCode(c) \/ Consume(c) \/ Expire(c)
    PROVE  codes' \in [Calls -> Code]
  <1>1. \A k \in Calls : codes[k] \in Code /\ call[k].user \in Users \cup {NoUser}
    BY CallType DEF TypeOK
  <1>2. CASE CreateCode(c)
    <2>1. PICK subject \in IF call[c].session = {} THEN {call[c].user} ELSE call[c].session :
            codes' = [codes EXCEPT ![c] = [status |-> "open", expired |-> FALSE,
                                           subject |-> subject, user |-> call[c].user]]
      BY <1>2 DEF CreateCode
    <2>2. subject \in Subjects \cup {NoUser}
      BY <1>1, CallType DEF Subjects
    <2>3. [status |-> "open", expired |-> FALSE, subject |-> subject, user |-> call[c].user]
            \in Code
      BY <1>1, <2>2 DEF Code
    <2> QED
      BY <2>1, <2>3 DEF TypeOK
  <1>3. CASE Consume(c)
    <2> DEFINE k == call[c].token.code
    <2>1. CASE codes' = [codes EXCEPT ![k].status = "consumed"]
      <3>1. \A x \in Code : [x EXCEPT !.status = "consumed"] \in Code
        BY DEF Code
      <3> QED
        BY <1>1, <2>1, <3>1 DEF TypeOK
    <2>2. CASE UNCHANGED codes
      BY <2>2 DEF TypeOK
    <2> QED
      BY <1>3, <2>1, <2>2 DEF Consume
  <1>4. CASE Expire(c)
    <2>1. \A x \in Code : [x EXCEPT !.expired = TRUE] \in Code
      BY DEF Code
    <2> QED
      BY <1>1, <1>4, <2>1 DEF TypeOK, Expire
  <1> QED
    BY <1>2, <1>3, <1>4

\* The types hold before any request.
LEMMA TypeInit == Init => TypeOK
  <1>1. NoCode \in Code /\ NoToken \in Token /\ Unstarted \in CallState
    BY DEF NoCode, NoToken, Unstarted, Code, Token, CallState
  <1> QED
    BY <1>1 DEF Init, TypeOK

\* A step keeps the types.
LEMMA TypeStep ==
    ASSUME TypeOK, \A c \in Calls : CallIsConsistent(c), [Next]_vars
    PROVE  TypeOK'
  <1>1. CASE UNCHANGED vars
    BY <1>1 DEF vars, TypeOK
  <1>2. ASSUME NEW c \in Calls, StepOf(c)
        PROVE  TypeOK'
    <2>1. call' \in [Calls -> CallState]
      BY <1>2, StepFrame DEF Frame
    <2>2. CASE Begins(c)
      BY <2>1, <2>2, BeginsBecomes DEF TypeOK
    <2>3. CASE Create(c)
      <3>1. PICK email \in IF call[c].session \cap Google = {} THEN {NoUser}
                           ELSE call[c].session \cap Google :
              emails' = [emails EXCEPT ![c] = email]
        BY <2>3 DEF Create
      <3>2. emails' \in [Users -> Google \cup {NoUser}]
        BY <3>1 DEF TypeOK, Users
      <3>3. users' \in SUBSET Users
        BY <2>3 DEF Create, TypeOK, Users
      <3> QED
        BY <2>1, <2>3, <3>2, <3>3, AccountsType DEF Create, TypeOK
    <2>4. CASE Commit(c)
      BY <2>1, <2>4, AccountsType DEF Commit, TypeOK
    <2>5. CASE CreateCode(c)
      BY <2>1, <2>5, CodesType DEF CreateCode, TypeOK
    <2>6. CASE Consume(c)
      BY <2>1, <2>6, CodesType DEF Consume, TypeOK
    <2>7. CASE Sign(c)
      <3>1. tokens' \in [Calls -> Token]
        BY <2>7, CallType DEF Sign, TypeOK
      <3> QED
        BY <2>1, <2>7, <3>1 DEF Sign, TypeOK
    <2>8. CASE \/ Read(c) \/ CreateFails(c) \/ Reread(c) \/ \E i \in Identities : Upsert(c, i)
              \/ SelectStale(c) \/ Context(c) \/ Lookup(c) \/ Member(c) \/ Error(c)
      <3>1. UNCHANGED <<accounts, emails, users, linked, owners, codes, tokens>>
        BY <2>8 DEF Read, CreateFails, Reread, Upsert, SelectStale, Context, Lookup, Member,
                    Error
      <3> QED
        BY <2>1, <3>1 DEF TypeOK
    <2> QED
      BY <1>2, <2>2, <2>3, <2>4, <2>5, <2>6, <2>7, <2>8, StepBeginsOrProceeds DEF Proceeds
  <1>3. ASSUME NEW a \in Linked, Unlink(a) \/ \E p \in Privy : Link(a, p)
        PROVE  TypeOK'
    BY <1>3 DEF Unlink, Link, TypeOK
  <1>4. ASSUME NEW k \in Calls, Expire(k)
        PROVE  TypeOK'
    BY <1>4, CodesType DEF Expire, TypeOK
  <1> QED
    BY <1>1, <1>2, <1>3, <1>4, StepCases DEF Environment

-------------------------------------------------------------------------------
(* Who a call acts for.                                                    *)

WritesAccounts(c) == Create(c) \/ Commit(c)

\* Steps that write no identities leave users alone, too.
LEMMA AccountsKept ==
    ASSUME TypeOK, NEW c \in Calls, StepOf(c), ~WritesAccounts(c)
    PROVE  UNCHANGED <<accounts, users>>
  <1>1. CASE Begins(c)
    BY <1>1, BeginsBecomes
  <1>2. CASE Proceeds(c)
    BY <1>2 DEF Proceeds, WritesAccounts, Read, CreateFails, Reread, Upsert, SelectStale, Context,
                CreateCode, Consume, Sign, Lookup, Member, Error
  <1> QED
    BY <1>1, <1>2, StepBeginsOrProceeds

PrivyKeeps == \A p \in Privy : accounts[p] # NoUser => accounts'[p] = accounts[p]

\* No step takes the user of a Privy user away: a creation is of one that had none,
\* the upserts leave the user of a row alone, and only linked accounts are stale.
LEMMA PrivyStep ==
    ASSUME TypeOK, [Next]_vars
    PROVE  PrivyKeeps
  <1>1. CASE UNCHANGED vars
    BY <1>1 DEF vars, PrivyKeeps
  <1>2. ASSUME NEW c \in Calls, StepOf(c)
        PROVE  PrivyKeeps
    <2>1. CASE Create(c)
      BY <2>1 DEF Create, FirstIdentity, TypeOK, Identities, PrivyKeeps
    <2>2. CASE Commit(c)
      <3>1. \A p \in Privy : p \in Identities /\ p \notin call[c].stale
        BY NullAssumption, CallType DEF Identities
      <3>2. \A p \in Privy : accounts'[p] = Inserted(c)[p]
        BY <2>2, <3>1 DEF Commit
      <3>3. \A p \in Privy : accounts[p] # NoUser => Inserted(c)[p] = accounts[p]
        BY <3>1 DEF Inserted
      <3> QED
        BY <3>2, <3>3 DEF PrivyKeeps
    <2>3. CASE ~WritesAccounts(c)
      BY <1>2, <2>3, AccountsKept DEF PrivyKeeps
    <2> QED
      BY <2>1, <2>2, <2>3 DEF WritesAccounts
  <1>3. CASE Environment
    BY <1>3 DEF Environment, Unlink, Link, Expire, PrivyKeeps
  <1> QED
    BY <1>1, <1>2, <1>3, StepCases

OwnersGrow == \A a \in Linked : owners[a] \subseteq owners'[a]

\* No request changes what Privy links.
LEMMA OwnersKept ==
    ASSUME TypeOK, NEW c \in Calls, StepOf(c)
    PROVE  UNCHANGED <<owners, linked>>
  <1>1. CASE Begins(c)
    BY <1>1, BeginsBecomes
  <1>2. CASE Proceeds(c)
    BY <1>2 DEF Proceeds, Read, Create, CreateFails, Reread, Upsert, SelectStale, Commit, Context,
                CreateCode, Consume, Sign, Lookup, Member, Error
  <1> QED
    BY <1>1, <1>2, StepBeginsOrProceeds

\* Who was ever linked to an account stays remembered.
LEMMA OwnersStep ==
    ASSUME TypeOK, [Next]_vars, LinksAreOwned
    PROVE  OwnersGrow /\ LinksAreOwned'
  <1>1. CASE UNCHANGED vars
    BY <1>1 DEF vars, OwnersGrow, LinksAreOwned
  <1>2. ASSUME NEW c \in Calls, StepOf(c)
        PROVE  OwnersGrow /\ LinksAreOwned'
    BY <1>2, OwnersKept DEF OwnersGrow, LinksAreOwned
  <1>3. ASSUME NEW a \in Linked, Unlink(a)
        PROVE  OwnersGrow /\ LinksAreOwned'
    BY <1>3 DEF Unlink, TypeOK, OwnersGrow, LinksAreOwned
  <1>4. ASSUME NEW a \in Linked, NEW p \in Privy, Link(a, p)
        PROVE  OwnersGrow /\ LinksAreOwned'
    BY <1>4 DEF Link, TypeOK, OwnersGrow, LinksAreOwned
  <1>5. ASSUME NEW k \in Calls, Expire(k)
        PROVE  OwnersGrow /\ LinksAreOwned'
    BY <1>5 DEF Expire, OwnersGrow, LinksAreOwned
  <1> QED
    BY <1>1, <1>2, <1>3, <1>4, <1>5, StepCases DEF Environment

\* The invariant about one call, and that it outlives the steps of others and
\* those of its own that keep its user.
KnowsUser(c) == SessionIsOwned(c) /\ UserIsOfSession(c) /\ UserIsOfSubject(c)

\* A session without moved accounts was one before.
LEMMA SettledBefore ==
    ASSUME NEW c \in Calls, OwnersGrow, call[c].session \in SUBSET Linked,
           call'[c].session = call[c].session
    PROVE  Settled(c)' => Settled(c)
  BY DEF OwnersGrow, Settled, NeverMoved

\* A request that keeps its user still knows it.
LEMMA SameRequestKnowsUser ==
    ASSUME TypeOK, NEW c \in Calls, PrivyKeeps, OwnersGrow, CallIsConsistent(c), KnowsUser(c),
           Follows(call'[c], call[c]), call'[c].user = call[c].user
    PROVE  KnowsUser(c)'
  <1>1. call[c].session \in SUBSET Linked
    BY CallType
  <1>2. SessionIsOwned(c)'
    BY <1>1 DEF KnowsUser, SessionIsOwned, Follows, OwnersGrow
  <1>3. UserIsOfSession(c)'
    BY <1>1, SettledBefore DEF KnowsUser, UserIsOfSession, Follows, PrivyKeeps, CallIsConsistent
  <1>4. UserIsOfSubject(c)'
    BY DEF KnowsUser, UserIsOfSubject, Follows, PrivyKeeps
  <1> QED
    BY <1>2, <1>3, <1>4 DEF KnowsUser

\* A request knows a user that is the one of its Privy user.
LEMMA NewUserIsKnown ==
    ASSUME TypeOK, NEW c \in Calls, OwnersGrow, KnowsUser(c), CallIsConsistent(c),
           NEW step, NEW user, Moves(c, step, user), call[c].op \in WebOps,
           Settled(c) => accounts'[call[c].did] = user
    PROVE  KnowsUser(c)'
  <1>1. call[c].session \in SUBSET Linked
    BY CallType
  <1>2. SessionIsOwned(c)'
    BY <1>1 DEF Moves, KnowsUser, SessionIsOwned, Follows, OwnersGrow
  <1>3. UserIsOfSession(c)'
    BY <1>1, SettledBefore DEF Moves, UserIsOfSession, Follows
  <1>4. UserIsOfSubject(c)'
    BY DEF Moves, UserIsOfSubject, Follows, WebOps
  <1> QED
    BY <1>2, <1>3, <1>4 DEF KnowsUser

\* What the SELECT found: an account that was only ever this Privy user's was
\* brought by it, so that its own identity was found as well.
LEMMA ReadFindsOwnUser ==
    ASSUME TypeOK, NEW c \in Calls, call[c].did \in Privy, call[c].op \in WebOps,
           SessionIsOwned(c), AccountsHaveOwners, Settled(c),
           NEW u \in Users, MatchedUsers(c) = {u}
    PROVE  accounts[call[c].did] = u
  <1>1. \A i \in IdentitiesOf(c) : accounts[i] \in {u, NoUser}
    BY DEF MatchedUsers
  <1>2. PICK i \in IdentitiesOf(c) : accounts[i] = u /\ u # NoUser
    BY DEF MatchedUsers
  <1>3. CASE i = call[c].did
    BY <1>2, <1>3
  <1>4. CASE i \in call[c].session
    <2>1. i \in Linked /\ call[c].did \in owners[i]
      BY <1>4, CallType DEF SessionIsOwned
    <2>2. PICK p \in owners[i] : accounts[p] # NoUser
      BY <1>2, <2>1 DEF AccountsHaveOwners
    <2>3. p = call[c].did
      BY <1>4, <2>1, <2>2 DEF Settled, NeverMoved
    <2> QED
      BY <1>1, <2>2, <2>3 DEF IdentitiesOf
  <1> QED
    BY <1>3, <1>4 DEF IdentitiesOf

\* A request that begins has no user to know.
LEMMA BeginKnows ==
    ASSUME TypeOK, NEW c \in Calls, OwnersGrow, LinksAreOwned, Begins(c)
    PROVE  CallIsConsistent(c)' /\ KnowsUser(c)'
  <1>1. CASE \E op \in WebOps, p \in Privy : Start(c, op, p)
    <2>1. PICK op \in WebOps, p \in Privy : Start(c, op, p)
      BY <1>1
    <2>2. /\ call'[c].pc = "read" /\ call'[c].op = op /\ call'[c].did = p
          /\ call'[c].user = NoUser
          /\ call'[c].session = {a \in Linked : linked[a] = p}
      BY <2>1, StartBecomes DEF Becomes
    <2>3. \A a \in call'[c].session : p \in owners'[a]
      BY <2>2, NullAssumption DEF LinksAreOwned, OwnersGrow
    <2>4. CallIsConsistent(c)'
      BY <2>2 DEF CallIsConsistent
    <2> QED
      BY <2>2, <2>3, <2>4 DEF KnowsUser, SessionIsOwned, UserIsOfSession, UserIsOfSubject
  <1>2. CASE \E k \in Calls : Exchange(c, k)
    <2>1. /\ call'[c].pc \in {"used", "failed", "consume"} /\ call'[c].op = "exchange"
          /\ call'[c].user = NoUser
      BY <1>2, ExchangeBecomes DEF Becomes
    <2>2. CallIsConsistent(c)'
      BY <2>1 DEF CallIsConsistent, WebSteps, WebOps
    <2> QED
      BY <2>1, <2>2 DEF KnowsUser, SessionIsOwned, UserIsOfSession, UserIsOfSubject, WebOps
  <1>3. CASE \E token \in Token : StartMcp(c, token)
    <2>1. call'[c].pc = "lookup" /\ call'[c].op = "mcp" /\ call'[c].user = NoUser
      BY <1>3, StartMcpBecomes DEF Becomes
    <2>2. CallIsConsistent(c)'
      BY <2>1 DEF CallIsConsistent, WebSteps, WebOps
    <2> QED
      BY <2>1, <2>2 DEF KnowsUser, SessionIsOwned, UserIsOfSession, UserIsOfSubject, WebOps
  <1> QED
    BY <1>1, <1>2, <1>3 DEF Begins

\* The steps of a session.
LEMMA WebStepKnows ==
    ASSUME TypeOK, NEW c \in Calls, CallIsConsistent(c), KnowsUser(c), AccountsHaveOwners,
           PrivyKeeps, OwnersGrow,
           \/ Read(c) \/ Create(c) \/ CreateFails(c) \/ Reread(c)
           \/ \E i \in Identities : Upsert(c, i)
           \/ SelectStale(c) \/ Commit(c) \/ Context(c) \/ CreateCode(c)
    PROVE  CallIsConsistent(c)' /\ KnowsUser(c)'
  <1> USE DEF WebSteps, WebOps
  <1>1. /\ call[c].op \in WebOps /\ call[c].did \in Privy /\ call[c].user \in Users \cup {NoUser}
    BY CallType DEF CallIsConsistent, Read, Create, CreateFails, Reread, Upsert, SelectStale,
                    Commit, Context, CreateCode, At
  <1>2. NoUser \notin Users /\ call[c].did \in Identities
    BY <1>1, NullAssumption DEF Users, Identities
  <1>3. ASSUME NEW step \in {"create", "reread", "failed", "done"}, Moves(c, step, call[c].user)
        PROVE  CallIsConsistent(c)' /\ KnowsUser(c)'
    BY <1>1, <1>3, SameRequestKnowsUser DEF Moves, Follows, CallIsConsistent
  <1>4. ASSUME NEW user \in Users, Moves(c, "upsert", user),
               Settled(c) => accounts'[call[c].did] = user
        PROVE  CallIsConsistent(c)' /\ KnowsUser(c)'
    <2>1. CallIsConsistent(c)'
      BY <1>1, <1>2, <1>4 DEF Moves, Follows, CallIsConsistent
    <2> QED
      BY <1>1, <1>4, <2>1, NewUserIsKnown
  <1>5. CASE Read(c)
    <2>1. ASSUME NEW u \in Users, MatchedUsers(c) = {u}, Moves(c, "upsert", u)
          PROVE  CallIsConsistent(c)' /\ KnowsUser(c)'
      <3>1. Settled(c) => accounts'[call[c].did] = u
        BY <1>1, <1>5, <2>1, ReadFindsOwnUser DEF Read, KnowsUser
      <3> QED
        BY <1>4, <2>1, <3>1
    <2> QED
      BY <1>3, <1>5, <2>1, ReadMoves
  <1>6. CASE Create(c)
    <2>1. accounts'[call[c].did] = c /\ c \in Users
      BY <1>2, <1>6 DEF Create, FirstIdentity, TypeOK, Users
    <2> QED
      BY <1>3, <1>4, <1>6, <2>1, CreateMoves
  <1>7. CASE CreateFails(c)
    BY <1>3, <1>7, CreateFailsMoves
  <1>8. CASE Reread(c)
    <2>1. accounts[call[c].did] \in Users \cup {NoUser}
      BY <1>2 DEF TypeOK
    <2>2. accounts' = accounts
      BY <1>8 DEF Reread
    <2> QED
      BY <1>1, <1>3, <1>4, <1>8, <2>1, <2>2, RereadEndsOrMoves
  <1>9. CASE \E i \in Identities : Upsert(c, i)
    <2>1. Moves(c, "upsert", call[c].user)
      BY <1>9, UpsertMoves
    <2>2. call[c].user # NoUser
      BY <1>9 DEF Upsert, At, CallIsConsistent
    <2> QED
      BY <1>1, <2>1, <2>2, SameRequestKnowsUser DEF Moves, Follows, CallIsConsistent
  <1>10. CASE SelectStale(c)
    <2>1. Moves(c, "commit", call[c].user) /\ call'[c].held = call[c].held
      BY <1>10, SelectStaleMoves
    <2>2. call[c].user # NoUser /\ call[c].held = IdentitiesOf(c)
      BY <1>10 DEF SelectStale, At, CallIsConsistent
    <2>3. IdentitiesOf(c)' = IdentitiesOf(c)
      BY <2>1 DEF Moves, Follows, IdentitiesOf
    <2> QED
      BY <1>1, <2>1, <2>2, <2>3, SameRequestKnowsUser DEF Moves, Follows, CallIsConsistent
  <1>11. ASSUME NEW step \in {"context", "code"}, Moves(c, step, call[c].user),
                call[c].user # NoUser
         PROVE  CallIsConsistent(c)' /\ KnowsUser(c)'
    BY <1>1, <1>11, SameRequestKnowsUser DEF Moves, Follows, CallIsConsistent
  <1>12. CASE Commit(c)
    <2>1. call[c].user # NoUser
      BY <1>12 DEF Commit, At, CallIsConsistent
    <2> QED
      BY <1>3, <1>11, <1>12, <2>1, CommitMoves
  <1>13. CASE Context(c)
    <2>1. call[c].user # NoUser
      BY <1>13 DEF Context, At, CallIsConsistent
    <2> QED
      BY <1>3, <1>11, <1>13, <2>1, ContextMoves
  <1>14. CASE CreateCode(c)
    BY <1>3, <1>14, GoMoves DEF CreateCode, PCs
  <1> QED
    BY <1>5, <1>6, <1>7, <1>8, <1>9, <1>10, <1>12, <1>13, <1>14

\* The steps of the OAuth server.
LEMMA TokenStepKnows ==
    ASSUME TypeOK, NEW c \in Calls, CallIsConsistent(c), KnowsUser(c), PrivyKeeps, OwnersGrow,
           Consume(c) \/ Sign(c) \/ Lookup(c) \/ Member(c) \/ Error(c)
    PROVE  CallIsConsistent(c)' /\ KnowsUser(c)'
  <1> USE DEF WebSteps, WebOps
  <1>1. ASSUME NEW step \in {"sign", "failed", "used", "done"}, Moves(c, step, call[c].user),
               step \in {"sign", "used"} => call[c].op = "exchange"
        PROVE  CallIsConsistent(c)' /\ KnowsUser(c)'
    BY <1>1, SameRequestKnowsUser DEF Moves, Follows, CallIsConsistent
  <1>2. CASE Consume(c)
    <2>1. call[c].op = "exchange"
      BY <1>2 DEF Consume, At, CallIsConsistent
    <2> QED
      BY <1>1, <1>2, <2>1, ConsumeMoves
  <1>3. CASE Sign(c)
    BY <1>1, <1>3, GoMoves DEF Sign, PCs
  <1>4. CASE Lookup(c)
    <2> DEFINE subject == call[c].token.subject
    <2>1. call[c].op = "mcp" /\ accounts' = accounts
      BY <1>4 DEF Lookup, At, CallIsConsistent
    <2>2. CASE Moves(c, "unlinked", call[c].user)
      BY <2>1, <2>2, SameRequestKnowsUser DEF Moves, Follows, CallIsConsistent
    <2>3. CASE /\ subject \in Privy /\ accounts[subject] # NoUser
               /\ Moves(c, "member", accounts[subject])
      <3>1. CallIsConsistent(c)'
        BY <2>1, <2>3 DEF Moves, Follows, CallIsConsistent
      <3>2. KnowsUser(c)'
        BY <2>1, <2>3 DEF Moves, Follows, KnowsUser, SessionIsOwned, UserIsOfSession,
                          UserIsOfSubject
      <3> QED
        BY <3>1, <3>2
    <2> QED
      BY <1>4, <2>2, <2>3, LookupMoves
  <1>5. CASE Member(c)
    BY <1>1, <1>5, MemberMoves
  <1>6. CASE Error(c)
    BY <1>1, <1>6, ErrorMoves
  <1> QED
    BY <1>2, <1>3, <1>4, <1>5, <1>6

\* Only Commit gives accounts to a user, and then its Privy user has one too.
LEMMA AccountsOwnedStep ==
    ASSUME TypeOK, AccountsHaveOwners, PrivyKeeps, OwnersGrow,
           \A c \in Calls : CallIsConsistent(c) /\ SessionIsOwned(c), [Next]_vars
    PROVE  AccountsHaveOwners'
  <1>1. ASSUME NEW a \in Linked, accounts'[a] = accounts[a], accounts'[a] # NoUser
        PROVE  \E p \in owners'[a] : accounts'[p] # NoUser
    <2>1. PICK p \in owners[a] : accounts[p] # NoUser
      BY <1>1 DEF AccountsHaveOwners
    <2>2. p \in Privy /\ p \in owners'[a]
      BY <2>1 DEF TypeOK, OwnersGrow
    <2> QED
      BY <2>1, <2>2 DEF PrivyKeeps
  <1>2. CASE accounts' = accounts
    BY <1>1, <1>2 DEF AccountsHaveOwners
  <1>3. ASSUME NEW c \in Calls, Create(c)
        PROVE  AccountsHaveOwners'
    <2>1. call[c].did \in Privy
      BY <1>3 DEF Create, At, CallIsConsistent, WebSteps
    <2>2. \A a \in Linked : accounts'[a] = accounts[a]
      BY <1>3, <2>1, NullAssumption DEF Create, FirstIdentity, TypeOK, Identities
    <2> QED
      BY <1>1, <2>2 DEF AccountsHaveOwners
  <1>4. ASSUME NEW c \in Calls, Commit(c)
        PROVE  AccountsHaveOwners'
    <2> DEFINE did == call[c].did
    <2>1. /\ did \in Privy /\ call[c].op \in WebOps /\ call[c].user # NoUser
          /\ call[c].held = IdentitiesOf(c)
      BY <1>4 DEF Commit, At, CallIsConsistent, WebSteps
    <2>2. did \in Identities /\ did \notin call[c].stale
      BY <2>1, NullAssumption, CallType DEF Identities
    <2>3. accounts'[did] # NoUser
      BY <1>4, <2>1, <2>2 DEF Commit, Inserted, IdentitiesOf
    <2>4. ASSUME NEW a \in Linked, accounts'[a] # NoUser, accounts'[a] # accounts[a]
          PROVE  \E p \in owners'[a] : accounts'[p] # NoUser
      <3>1. a \in Identities
        BY DEF Identities
      <3>2. a \in call[c].held
        BY <1>4, <2>4, <3>1 DEF Commit, Inserted
      <3>3. a \in call[c].session
        BY <2>1, <3>2, NullAssumption DEF IdentitiesOf
      <3>4. did \in owners'[a]
        BY <2>1, <3>3 DEF SessionIsOwned, OwnersGrow
      <3> QED
        BY <2>3, <3>4
    <2> QED
      BY <1>1, <2>4 DEF AccountsHaveOwners
  <1>5. ASSUME NEW c \in Calls, StepOf(c)
        PROVE  AccountsHaveOwners'
    BY <1>2, <1>3, <1>4, <1>5, AccountsKept DEF WritesAccounts
  <1>6. CASE Environment \/ UNCHANGED vars
    BY <1>2, <1>6 DEF Environment, Unlink, Link, Expire, vars
  <1> QED
    BY <1>5, <1>6, StepCases

\* Every step keeps what is known of sessions.
LEMMA SessionInvKept ==
    ASSUME TypeOK, SessionInv, [Next]_vars
    PROVE  SessionInv'
  <1>1. PrivyKeeps /\ OwnersGrow /\ LinksAreOwned'
    BY PrivyStep, OwnersStep DEF SessionInv
  <1>2. AccountsHaveOwners'
    BY <1>1, AccountsOwnedStep DEF SessionInv
  <1>3. ASSUME NEW d \in Calls, call'[d] = call[d]
        PROVE  CallIsConsistent(d)' /\ KnowsUser(d)'
    <2>1. CallIsConsistent(d)'
      BY <1>3 DEF SessionInv, CallIsConsistent, IdentitiesOf
    <2> QED
      BY <1>1, <1>3, <2>1, SameRequestKnowsUser DEF SessionInv, KnowsUser, Follows
  <1>4. ASSUME NEW c \in Calls, StepOf(c)
        PROVE  \A d \in Calls : CallIsConsistent(d)' /\ KnowsUser(d)'
    <2>1. CallIsConsistent(c) /\ KnowsUser(c) /\ AccountsHaveOwners /\ LinksAreOwned
      BY DEF SessionInv, KnowsUser
    <2>2. ASSUME Begins(c)
          PROVE  CallIsConsistent(c)' /\ KnowsUser(c)'
      BY <1>1, <2>1, <2>2, BeginKnows
    <2>3. ASSUME Proceeds(c)
          PROVE  CallIsConsistent(c)' /\ KnowsUser(c)'
      BY <1>1, <2>1, <2>3, WebStepKnows, TokenStepKnows DEF Proceeds, KnowsUser
    <2>4. CallIsConsistent(c)' /\ KnowsUser(c)'
      BY <1>4, <2>2, <2>3, StepBeginsOrProceeds
    <2>5. \A d \in Calls \ {c} : call'[d] = call[d]
      BY <1>4, <2>1, StepFrame DEF Frame
    <2> QED
      BY <1>3, <2>4, <2>5
  <1>5. ASSUME Environment \/ UNCHANGED vars
        PROVE  \A d \in Calls : call'[d] = call[d]
    BY <1>5 DEF Environment, Unlink, Link, Expire, vars
  <1>6. \A d \in Calls : CallIsConsistent(d)' /\ KnowsUser(d)'
    BY <1>3, <1>4, <1>5, StepCases
  <1>7. \A d \in Calls : SessionIsOwned(d)' /\ UserIsOfSession(d)' /\ UserIsOfSubject(d)'
    BY <1>6 DEF KnowsUser
  <1> QED
    BY <1>1, <1>2, <1>6, <1>7 DEF SessionInv

-------------------------------------------------------------------------------
(* Codes and tokens.                                                       *)

WritesCodes(c) == CreateCode(c) \/ Consume(c) \/ Sign(c)

\* The steps that write neither: a call comes to sign, or to find a code used, by
\* other steps, and leaves sign by an error.
LEMMA QuietProceeds ==
    ASSUME TypeOK, NEW c \in Calls, CallIsConsistent(c), Proceeds(c), ~WritesCodes(c)
    PROVE  /\ UNCHANGED <<codes, tokens>>
           /\ call[c].pc \notin {"start", "done", "failed", "used"}
           /\ \E step \in PCs \ {"sign", "used", "start"}, user \in Users \cup {NoUser} :
                /\ Moves(c, step, user)
                /\ At(c, "sign") => step = "failed"
  <1>1. call[c].user \in Users \cup {NoUser} /\ NoUser \notin Users /\ c \in Users
    BY CallType, NullAssumption DEF Users
  <1>2. /\ UNCHANGED <<codes, tokens>>
        /\ call[c].pc \notin {"start", "done", "failed", "used"}
    BY DEF Proceeds, WritesCodes, At, Over, Read, Create, CreateFails, Reread, Upsert, SelectStale,
           Commit, Context, Lookup, Member, Error
  <1> DEFINE Quiet == \E step \in PCs \ {"sign", "used", "start"}, user \in Users \cup {NoUser} :
                        Moves(c, step, user) /\ (At(c, "sign") => step = "failed")
  <1>3. Read(c) => Quiet
    BY <1>1, ReadMoves DEF PCs, Read, At
  <1>4. Create(c) => Quiet
    BY <1>1, CreateMoves DEF PCs, Create, At
  <1>5. CreateFails(c) => Quiet
    BY <1>1, CreateFailsMoves DEF PCs, CreateFails, At
  <1>6. ASSUME Reread(c)
        PROVE  Quiet
    <2>1. call[c].did \in Privy
      BY <1>6 DEF Reread, At, CallIsConsistent, WebSteps
    <2>2. accounts[call[c].did] \in Users \cup {NoUser}
      BY <2>1 DEF TypeOK, Identities
    <2> QED
      BY <1>1, <1>6, <2>1, <2>2, RereadEndsOrMoves DEF PCs, Reread, At
  <1>7. (\E i \in Identities : Upsert(c, i)) => Quiet
    BY <1>1, UpsertMoves DEF PCs, Upsert, At
  <1>8. SelectStale(c) => Quiet
    BY <1>1, SelectStaleMoves DEF PCs, SelectStale, At
  <1>9. Commit(c) => Quiet
    BY <1>1, CommitMoves DEF PCs, Commit, At
  <1>10. Context(c) => Quiet
    BY <1>1, ContextMoves DEF PCs, Context, At
  <1>11. ASSUME Lookup(c)
         PROVE  Quiet
    <2>1. \A p \in Privy : accounts[p] \in Users \cup {NoUser}
      BY DEF TypeOK, Identities
    <2> QED
      BY <1>1, <1>11, <2>1, LookupMoves DEF PCs, Lookup, At
  <1>12. Member(c) => Quiet
    BY <1>1, MemberMoves DEF PCs, Member, At
  <1>13. Error(c) => Quiet
    BY <1>1, ErrorMoves DEF PCs
  <1>14. Quiet
    BY <1>3, <1>4, <1>5, <1>6, <1>7, <1>8, <1>9, <1>10, <1>11, <1>12, <1>13
       DEF Proceeds, WritesCodes
  <1> QED
    BY <1>2, <1>14

\* What is left to show of a step of call c when the other calls stand still.
LEMMA OthersKeepCodes ==
    ASSUME TypeOK, CodeInv, \A d \in Calls : CallIsConsistent(d), NEW c \in Calls, Frame(c),
           \A d \in Calls \ {c} : tokens'[d] = tokens[d],
           \A k \in Calls : codes[k].status = "consumed" => codes'[k].status = "consumed",
           \A k \in Calls : codes[k].status # "none" => codes'[k].status # "none",
           \A k \in Calls \ {c} : codes[k].status = "none" => codes'[k].status = "none",
           CodeFollowsCall(c)',
           Yielded(c)' # NoUser => \A d \in Calls \ {c} : Yielded(d) # Yielded(c)',
           \A k \in Calls : Consumed(c, k) => Consumed(c, k)',
           \A k \in Calls : (codes[k].status # "consumed" /\ codes'[k].status = "consumed")
                            => Consumed(c, k)'
    PROVE  CodeInv'
  <1>1. \A d \in Calls \ {c} : Yielded(d)' = Yielded(d) /\ CodeFollowsCall(d)
    BY DEF Frame, Yielded, At, CodeInv
  <1>2. ASSUME NEW d \in Calls \ {c}
        PROVE  CodeFollowsCall(d)'
    <2>1. call'[d] = call[d] /\ tokens'[d] = tokens[d]
      BY DEF Frame
    <2>2. Yielded(d) \in Calls \cup {NoUser}
      BY CallType DEF Yielded, TypeOK, Token
    <2>3. At(d, "used") => call[d].token.code \in Calls
      BY <1>1 DEF CodeFollowsCall, CallIsConsistent, At
    <2> QED
      BY <1>1, <2>1, <2>2, <2>3 DEF CodeFollowsCall, At
  <1>3. CodeYieldsOnce'
    BY <1>1 DEF CodeInv, CodeYieldsOnce
  <1>4. ConsumedBySomeone'
    BY DEF CodeInv, ConsumedBySomeone, Consumed, Frame
  <1> QED
    BY <1>2, <1>3, <1>4 DEF CodeInv

\* Steps that write no codes keep what is known of them.
LEMMA QuietKeepsCodes ==
    ASSUME TypeOK, CodeInv, \A d \in Calls : CallIsConsistent(d),
           NEW c \in Calls, StepOf(c), ~WritesCodes(c)
    PROVE  CodeInv'
  <1>1. Frame(c) /\ CodeFollowsCall(c)
    BY StepFrame DEF CodeInv
  <1>2. UNCHANGED <<codes, tokens>> /\ ~At(c, "done")
    <2>1. CASE Begins(c)
      BY <2>1, BeginsBecomes DEF At
    <2>2. CASE Proceeds(c)
      BY <2>2, QuietProceeds DEF At
    <2> QED
      BY <2>1, <2>2, StepBeginsOrProceeds
  <1>3. codes[c].status = "none" /\ tokens[c].code = NoUser
    BY <1>1, <1>2 DEF CodeFollowsCall
  <1>4. CASE Begins(c)
    <2>1. At(c, "start") /\ call'[c].pc \in {"read", "used", "failed", "consume", "lookup"}
      BY <1>4, BeginsBecomes DEF Becomes
    <2>2. Yielded(c)' = NoUser
      BY <1>2, <1>3, <2>1 DEF Yielded, At
    <2>3. /\ call'[c].op = "exchange" =>
                call'[c].token.code \in Calls /\ codes[call'[c].token.code].status # "none"
          /\ call'[c].pc = "used" => codes[call'[c].token.code].status = "consumed"
      <3>1. CASE \E op \in WebOps, p \in Privy : Start(c, op, p)
        <4>1. call'[c].op \in WebOps /\ call'[c].pc = "read"
          BY <3>1, StartBecomes DEF Becomes
        <4> QED
          BY <4>1 DEF WebOps
      <3>2. ASSUME NEW k \in Calls, Exchange(c, k)
            PROVE  /\ call'[c].token.code = k /\ codes[k].status # "none"
                   /\ call'[c].pc = "used" => codes[k].status = "consumed"
        <4>1. codes[k].status # "none"
          BY <3>2 DEF Exchange
        <4> QED
          BY <3>2, <4>1, ExchangeBecomes DEF Becomes
      <3>3. CASE \E token \in Token : StartMcp(c, token)
        <4>1. call'[c].op = "mcp" /\ call'[c].pc = "lookup"
          BY <3>3, StartMcpBecomes DEF Becomes
        <4> QED
          BY <4>1
      <3> QED
        BY <1>4, <3>1, <3>2, <3>3 DEF Begins
    <2>4. CodeFollowsCall(c)'
      BY <1>2, <1>3, <2>2, <2>3 DEF CodeFollowsCall, At
    <2>5. \A k \in Calls : ~Consumed(c, k)
      BY <2>1 DEF Consumed, At
    <2> QED
      BY <1>1, <1>2, <2>2, <2>4, <2>5, OthersKeepCodes
  <1>5. CASE Proceeds(c)
    <2>1. PICK step \in PCs \ {"sign", "used", "start"}, user \in Users \cup {NoUser} :
            Moves(c, step, user) /\ (At(c, "sign") => step = "failed")
      BY <1>5, QuietProceeds
    <2>2. Yielded(c)' = NoUser
      BY <1>2, <1>3, <2>1 DEF Yielded, Moves, At
    <2>3. CodeFollowsCall(c)'
      BY <1>1, <1>2, <1>3, <2>1, <2>2 DEF CodeFollowsCall, Moves, Follows, At
    <2>4. call[c].pc \notin {"done", "failed"}
      BY <1>5, QuietProceeds
    <2>5. \A k \in Calls : Consumed(c, k) => Consumed(c, k)'
      BY <2>1, <2>4 DEF Consumed, Moves, Follows, At
    <2> QED
      BY <1>1, <1>2, <2>2, <2>3, <2>5, OthersKeepCodes
  <1> QED
    BY <1>4, <1>5, StepBeginsOrProceeds

\* A new code has no token yet.
LEMMA CreateCodeKeepsCodes ==
    ASSUME TypeOK, CodeInv, \A d \in Calls : CallIsConsistent(d), NEW c \in Calls, CreateCode(c)
    PROVE  CodeInv'
  <1>1. Moves(c, "done", call[c].user)
    BY GoMoves DEF CreateCode, PCs
  <1>2. Frame(c) /\ CodeFollowsCall(c)
    BY <1>1 DEF Moves, Frame, CodeInv
  <1>3. codes[c].status = "none" /\ tokens[c].code = NoUser /\ tokens' = tokens
    BY <1>2 DEF CodeFollowsCall, CreateCode, At
  <1>4. codes'[c].status = "open" /\ \A k \in Calls \ {c} : codes'[k] = codes[k]
    BY DEF CreateCode, TypeOK
  <1>5. Yielded(c)' = NoUser
    BY <1>1, <1>3 DEF Yielded, Moves, At
  <1>6. call[c].op \in WebOps
    BY DEF CreateCode, At, CallIsConsistent, WebSteps
  <1>7. CodeFollowsCall(c)'
    BY <1>1, <1>3, <1>5, <1>6 DEF CodeFollowsCall, Moves, Follows, At, WebOps
  <1>8. \A k \in Calls : ~Consumed(c, k)
    BY <1>6 DEF Consumed, WebOps
  <1> QED
    BY <1>2, <1>3, <1>4, <1>5, <1>7, <1>8, OthersKeepCodes

\* Only one exchange consumes a code.
LEMMA ConsumeKeepsCodes ==
    ASSUME TypeOK, CodeInv, \A d \in Calls : CallIsConsistent(d), NEW c \in Calls, Consume(c)
    PROVE  CodeInv'
  <1> DEFINE k == call[c].token.code
  <1>1. PICK end \in {"sign", "failed", "used"} : Moves(c, end, call[c].user)
    BY ConsumeMoves
  <1>2. Frame(c) /\ CodeFollowsCall(c)
    BY <1>1 DEF Moves, Frame, CodeInv
  <1>3. call[c].op = "exchange" /\ k \in Calls /\ codes[k].status # "none" /\ tokens' = tokens
    BY <1>2 DEF CodeFollowsCall, CallIsConsistent, Consume, At
  <1>4. codes[c].status = "none" /\ tokens[c].code = NoUser /\ k # c
    BY <1>2, <1>3 DEF CodeFollowsCall, Consume, At
  <1>5. \A j \in Calls : ~Consumed(c, j)
    BY DEF Consumed, Consume, At
  <1>6. CASE Consumable(codes[k])
    <2>1. /\ codes'[k].status = "consumed"
          /\ \A j \in Calls \ {k} : codes'[j] = codes[j]
          /\ end # "used"
      <3>1. codes' = [codes EXCEPT ![k].status = "consumed"] /\ call'[c].pc # "used"
        <4>1. PICK step \in {"sign", "failed"} : Go(c, step)
          BY <1>6 DEF Consume
        <4>2. Moves(c, step, call[c].user)
          BY <4>1, GoMoves DEF PCs
        <4> QED
          BY <1>6, <4>2 DEF Consume, Moves
      <3>2. codes[k] \in Code
        BY <1>3 DEF TypeOK
      <3> QED
        BY <1>1, <1>3, <3>1, <3>2 DEF TypeOK, Code, Moves
    <2>2. \A d \in Calls : Yielded(d) # k
      BY <1>3, <1>6, NullAssumption DEF CodeInv, CodeFollowsCall, Consumable
    <2>3. Yielded(c)' \in {k, NoUser}
      BY <1>1, <1>3, <1>4 DEF Yielded, Moves, Follows, At
    <2>4. Yielded(c)' # NoUser => \A d \in Calls \ {c} : Yielded(d) # Yielded(c)'
      BY <2>2, <2>3
    <2>5. CodeFollowsCall(c)'
      BY <1>1, <1>3, <1>4, <2>1, <2>3 DEF CodeFollowsCall, Moves, Follows, At
    <2>6. /\ call'[c].op = "exchange" /\ call'[c].pc \in {"sign", "done", "failed"}
          /\ call'[c].token.code = k
      BY <1>1, <1>3, <2>1 DEF Moves, Follows
    <2>7. codes[k].status = "open"
      BY <1>6 DEF Consumable
    <2>8. /\ \A j \in Calls : codes[j].status = "consumed" => codes'[j].status = "consumed"
          /\ \A j \in Calls : codes[j].status # "none" => codes'[j].status # "none"
          /\ \A j \in Calls \ {c} : codes[j].status = "none" => codes'[j].status = "none"
          /\ \A j \in Calls : (codes[j].status # "consumed" /\ codes'[j].status = "consumed")
                               => j = k
      BY <2>1, <2>7
    <2>9. \A j \in Calls : (codes[j].status # "consumed" /\ codes'[j].status = "consumed")
                           => Consumed(c, j)'
      BY <2>6, <2>8 DEF Consumed
    <2>10. /\ \A d \in Calls \ {c} : tokens'[d] = tokens[d]
           /\ \A j \in Calls : Consumed(c, j) => Consumed(c, j)'
      BY <1>3, <1>5
    <2> HIDE DEF k
    <2> QED
      BY <1>2, <2>4, <2>5, <2>8, <2>9, <2>10, OthersKeepCodes
  <1>7. CASE ~Consumable(codes[k])
    <2>1. codes' = codes /\ Moves(c, "used", call[c].user)
      BY <1>7, GoMoves DEF Consume, PCs
    <2>2. codes[k].status = "consumed"
      BY <1>3, <1>7 DEF Consumable, TypeOK, Code
    <2>3. Yielded(c)' = NoUser
      BY <1>3, <1>4, <2>1 DEF Yielded, Moves, At
    <2>4. CodeFollowsCall(c)'
      BY <1>3, <1>4, <2>1, <2>2, <2>3 DEF CodeFollowsCall, Moves, Follows, At
    <2> QED
      BY <1>2, <1>3, <1>5, <2>1, <2>3, <2>4, OthersKeepCodes
  <1> QED
    BY <1>6, <1>7

\* The token of a code is signed by who consumed it.
LEMMA SignKeepsCodes ==
    ASSUME TypeOK, CodeInv, \A d \in Calls : CallIsConsistent(d), NEW c \in Calls, Sign(c)
    PROVE  CodeInv'
  <1>1. Moves(c, "done", call[c].user)
    BY GoMoves DEF Sign, PCs
  <1>2. Frame(c) /\ CodeFollowsCall(c)
    BY <1>1 DEF Moves, Frame, CodeInv
  <1>3. tokens'[c] = call[c].token /\ \A d \in Calls \ {c} : tokens'[d] = tokens[d]
    BY DEF Sign, TypeOK
  <1>4. codes' = codes
    BY DEF Sign
  <1>5. Yielded(c)' = Yielded(c)
    BY <1>1, <1>3 DEF Yielded, Moves, Sign, At
  <1>6. CodeFollowsCall(c)'
    BY <1>1, <1>2, <1>3, <1>4, <1>5 DEF CodeFollowsCall, Moves, Follows, At
  <1>7. Yielded(c)' # NoUser => \A d \in Calls \ {c} : Yielded(d) # Yielded(c)'
    BY <1>5 DEF CodeInv, CodeYieldsOnce
  <1>8. \A k \in Calls : Consumed(c, k) => Consumed(c, k)'
    BY <1>1 DEF Consumed, Moves, Follows
  <1> QED
    BY <1>2, <1>3, <1>4, <1>6, <1>7, <1>8, OthersKeepCodes

\* Every step keeps what is known of codes.
LEMMA CodeStep ==
    ASSUME TypeOK, CodeInv, \A d \in Calls : CallIsConsistent(d), [Next]_vars
    PROVE  CodeInv'
  <1>1. ASSUME NEW c \in Calls, StepOf(c)
        PROVE  CodeInv'
    BY <1>1, QuietKeepsCodes, CreateCodeKeepsCodes, ConsumeKeepsCodes, SignKeepsCodes
       DEF WritesCodes
  <1>2. CASE UNCHANGED <<call, tokens>> /\ \A k \in Calls : codes'[k].status = codes[k].status
    <2>1. \A c \in Calls : Yielded(c)' = Yielded(c) /\ Yielded(c) \in Calls \cup {NoUser}
      BY <1>2, CallType DEF Yielded, At, TypeOK, Token
    <2>2. \A c \in Calls : At(c, "used") => call[c].token.code \in Calls
      BY DEF CodeInv, CodeFollowsCall, CallIsConsistent, At
    <2>3. \A c \in Calls : CodeFollowsCall(c)'
      BY <1>2, <2>1, <2>2 DEF CodeInv, CodeFollowsCall, At
    <2>4. CodeYieldsOnce'
      BY <2>1 DEF CodeInv, CodeYieldsOnce
    <2>5. ConsumedBySomeone'
      BY <1>2 DEF CodeInv, ConsumedBySomeone, Consumed
    <2> QED
      BY <2>3, <2>4, <2>5 DEF CodeInv
  <1>3. ASSUME NEW k \in Calls, Expire(k)
        PROVE  CodeInv'
    <2>1. \A j \in Calls : codes[j] \in Code
      BY DEF TypeOK
    <2>2. \A j \in Calls : codes'[j].status = codes[j].status
      BY <1>3, <2>1 DEF Expire, TypeOK, Code
    <2> QED
      BY <1>2, <1>3, <2>2 DEF Expire
  <1>4. ASSUME NEW a \in Linked, Unlink(a) \/ \E p \in Privy : Link(a, p)
        PROVE  CodeInv'
    BY <1>2, <1>4 DEF Unlink, Link
  <1>5. CASE UNCHANGED vars
    BY <1>2, <1>5 DEF vars
  <1> QED
    BY <1>1, <1>3, <1>4, <1>5, StepCases DEF Environment

-------------------------------------------------------------------------------
(* The theorems.                                                           *)

\* The invariant holds before any request.
LEMMA InvInit == Init => IInv
  <1> SUFFICES ASSUME Init
               PROVE  IInv
    OBVIOUS
  <1>1. \A c \in Calls :
          /\ call[c].pc = "start" /\ call[c].op = "none" /\ call[c].user = NoUser
          /\ codes[c].status = "none" /\ tokens[c].code = NoUser
    BY DEF Init, Unstarted, NoCode, NoToken
  <1>2. SessionInv
    BY <1>1 DEF Init, SessionInv, CallIsConsistent, SessionIsOwned, LinksAreOwned,
                AccountsHaveOwners, UserIsOfSession, UserIsOfSubject, WebSteps, WebOps, Identities
  <1>3. \A c \in Calls : Yielded(c) = NoUser
    BY <1>1 DEF Yielded, At
  <1>4. CodeInv
    BY <1>1, <1>3 DEF CodeInv, CodeFollowsCall, CodeYieldsOnce, ConsumedBySomeone, At
  <1>5. NoOrphanUsers
    BY DEF Init, NoOrphanUsers
  <1> QED
    BY <1>2, <1>4, <1>5, TypeInit DEF IInv

\* A user is created together with the identity of its Privy user, which keeps it.
LEMMA OrphansStep ==
    ASSUME TypeOK, NoOrphanUsers, \A c \in Calls : CallIsConsistent(c), [Next]_vars
    PROVE  NoOrphanUsers'
  <1>1. PrivyKeeps
    BY PrivyStep
  <1>2. ASSUME NEW u \in users
        PROVE  \E p \in Privy : accounts'[p] = u
    <2>1. PICK p \in Privy : accounts[p] = u
      BY DEF NoOrphanUsers
    <2>2. u # NoUser
      BY NullAssumption DEF TypeOK, Users
    <2> QED
      BY <1>1, <2>1, <2>2 DEF PrivyKeeps
  <1>3. CASE users' = users
    BY <1>2, <1>3 DEF NoOrphanUsers
  <1>4. ASSUME NEW c \in Calls, Create(c)
        PROVE  NoOrphanUsers'
    <2>1. call[c].did \in Privy
      BY <1>4 DEF Create, At, CallIsConsistent, WebSteps
    <2>2. accounts'[call[c].did] = c /\ users' = users \cup {c}
      BY <1>4, <2>1 DEF Create, FirstIdentity, TypeOK, Identities
    <2> QED
      BY <1>2, <2>1, <2>2 DEF NoOrphanUsers
  <1>5. ASSUME NEW c \in Calls, StepOf(c)
        PROVE  NoOrphanUsers'
    <2>1. CASE Commit(c)
      BY <1>3, <2>1 DEF Commit
    <2> QED
      BY <1>3, <1>4, <1>5, <2>1, AccountsKept DEF WritesAccounts
  <1>6. CASE Environment \/ UNCHANGED vars
    BY <1>3, <1>6 DEF Environment, Unlink, Link, Expire, vars
  <1> QED
    BY <1>5, <1>6, StepCases

\* The invariant holds in every state.
THEOREM Inductive == Spec => []IInv
  <1>1. ASSUME IInv, [Next]_vars
        PROVE  IInv'
    <2>1. \A c \in Calls : CallIsConsistent(c)
      BY <1>1 DEF IInv, SessionInv
    <2>2. TypeOK'
      BY <1>1, <2>1, TypeStep DEF IInv
    <2>3. SessionInv'
      BY <1>1, SessionInvKept DEF IInv
    <2>4. CodeInv'
      BY <1>1, <2>1, CodeStep DEF IInv
    <2>5. NoOrphanUsers'
      BY <1>1, <2>1, OrphansStep DEF IInv
    <2> QED
      BY <2>2, <2>3, <2>4, <2>5 DEF IInv
  <1> QED
    BY <1>1, InvInit, PTL DEF Spec

\* Accounts, codes, tokens and calls keep their types.
THEOREM TypeCorrect == Spec => []TypeOK
  <1>1. IInv => TypeOK
    BY DEF IInv
  <1> QED
    BY <1>1, Inductive, PTL

\* All requests of one Privy user act for one internal user, however its first
\* sessions race.
THEOREM PrivyUsersHaveOneUser == Spec => []OneUserPerPrivyUser
  <1>1. IInv => OneUserPerPrivyUser
    BY DEF IInv, SessionInv, UserIsOfSession, UserIsOfSubject, OneUserPerPrivyUser, Resolved,
           WebOps
  <1> QED
    BY <1>1, Inductive, PTL

\* No creation leaves a user that nobody can sign in as.
THEOREM UsersAreNotOrphans == Spec => []NoOrphanUsers
  <1>1. IInv => NoOrphanUsers
    BY DEF IInv
  <1> QED
    BY <1>1, Inductive, PTL

\* A Privy user never changes its internal user.
THEOREM PrivyUsersKeepTheirUser == Spec => PrivyUserKeepsUser
  <1>1. IInv /\ [Next]_vars =>
          [\A p \in Privy : accounts[p] # NoUser => accounts'[p] = accounts[p]]_vars
    BY PrivyStep DEF IInv, PrivyKeeps
  <1> QED
    BY <1>1, Inductive, PTL DEF Spec, PrivyUserKeepsUser

\* Racing exchanges get at most one token for a code.
THEOREM CodesAreUsedOnce == Spec => []CodeIsUsedOnce
  <1>1. ASSUME IInv
        PROVE  CodeIsUsedOnce
    <2>1. \A c \in Calls : tokens[c].code # NoUser => Yielded(c) = tokens[c].code
      BY <1>1 DEF IInv, CodeInv, CodeFollowsCall, Yielded, At
    <2> QED
      BY <1>1, <2>1 DEF IInv, CodeInv, CodeYieldsOnce, CodeIsUsedOnce
  <1> QED
    BY <1>1, Inductive, PTL

\* Who is told that a code was used has lost it to another exchange.
THEOREM UsedCodesWereConsumed == Spec => []UsedCodeWasConsumed
  <1>1. ASSUME IInv
        PROVE  UsedCodeWasConsumed
    <2>1. ASSUME NEW c \in Calls, At(c, "used")
          PROVE  /\ call[c].token.code \in Calls
                 /\ codes[call[c].token.code].status = "consumed"
      BY <1>1, <2>1 DEF IInv, CodeInv, SessionInv, CodeFollowsCall, CallIsConsistent, At
    <2>2. ASSUME NEW c \in Calls, At(c, "used")
          PROVE  \E d \in Calls \ {c} : Consumed(d, call[c].token.code)
      <3>1. PICK d \in Calls : Consumed(d, call[c].token.code)
        BY <1>1, <2>1, <2>2 DEF IInv, CodeInv, ConsumedBySomeone
      <3>2. d # c
        BY <2>2, <3>1 DEF Consumed, At
      <3> QED
        BY <3>1, <3>2
    <2> QED
      BY <2>1, <2>2 DEF UsedCodeWasConsumed, Consumed
  <1> QED
    BY <1>1, Inductive, PTL

-------------------------------------------------------------------------------
(* The session in the browser.  These proofs are about Pages, whose users  *)
(* are the Visitors: nothing of Access is used.                            *)

\* A change that was accepted and stores its outcome itself knows the row.
ChangeInProgress ==
    \A s \in Slots :
        (change[s] # None /\ change[s].phase = "accepted" /\ change[s].kind.clears)
            => change[s].row \in Rows

UIInv == PageTypeOK /\ ChangeInProgress

\* The load of the page is one of the session that the page is given, and there
\* is none without a session.
LoadIsOfSession ==
    loading # None =>
        /\ privy # None /\ session # None
        /\ loading.label = session /\ loading.token = privy

\* What a user asked for is of this session, unless it went astray.
ChangesAreOfSession ==
    ~astray => \A s \in Slots : change[s] # None =>
        change[s].label = session /\ change[s].token = privy

SessionInvOfPage == LoadIsOfSession /\ ChangesAreOfSession /\ ShownIsOfSession

\* What stores its outcome itself carries the version that the page shows.
LEMMA ClearsAreVersioned ==
    ASSUME NEW kind \in UNION PagesOfTheApp, kind.clears
    PROVE  kind.versioned
  <1>1. /\ Plain.clears = FALSE /\ OnRow.clears = FALSE /\ Versioned.clears = FALSE
        /\ Versioned.versioned = TRUE
    BY DEF Plain, OnRow, Versioned
  <1>2. /\ SyncWallet.clears = FALSE /\ UpdateTaskStatus.clears = FALSE
        /\ SetDecision.clears = FALSE /\ UpdateRiskStatus.clears = FALSE
        /\ StoreCredential.clears = FALSE /\ AnalyzeWallet.clears = FALSE
        /\ RefreshAll.clears = FALSE /\ RemoveCredential.versioned = TRUE
    BY DEF Plain, OnRow, Versioned, SyncWallet, UpdateTaskStatus, RefreshAll,
           SetDecision, UpdateRiskStatus, StoreCredential, AnalyzeWallet,
           RemoveCredential
  <1>3. \/ kind \in {Plain, OnRow, Versioned}
        \/ kind \in {SyncWallet, UpdateTaskStatus, SetDecision, UpdateRiskStatus,
                     StoreCredential, AnalyzeWallet, RefreshAll, RemoveCredential}
    BY DEF PagesOfTheApp, WalletsPage, BudgetsPage, TasksPage,
           ProvidersPage, RisksPage, ReportsPage, SettingsPage, SpendPage,
           AgentDashboard, AddWallet, SetPrimary, ArchiveWallet,
           CreateBudget, SaveBudget, UpdateBudgetStatus, CreateTask,
           RunAnalysis, GenerateReport
  <1> QED
    BY <1>1, <1>2, <1>3

\* A load that begins has its type.
LEMMA NewLoadTypes ==
    ASSUME NEW label \in Visitors, NEW token \in Visitors
    PROVE  NewLoad(label, token) \in Load
  BY DEF NewLoad, Load

\* A change that ends with a load of the rows keeps what was asked.
LEMMA ReloadTypes ==
    ASSUME PageTypeOK, NEW asked \in Change
    PROVE  \/ Reload(asked) = None
           \/ /\ privy # None /\ Reload(asked) \in Change
              /\ Reload(asked).phase = "reload"
              /\ Reload(asked).label = asked.label /\ Reload(asked).token = privy
  BY DEF Reload, Change, PageTypeOK

\* What the effect of a page leaves.
LEMMA EffectTypes ==
    ASSUME NEW token \in Visitors \cup {None}, NEW label \in Visitors \cup {None},
           Effect(token, label)
    PROVE  /\ loading' \in Load \cup {None}
           /\ loading' = None => token = None \/ label = None
           /\ loading' # None => /\ token # None /\ label # None
                                 /\ loading'.label = label /\ loading'.token = token
           /\ astray' \in BOOLEAN
           /\ ~astray' => \A s \in Slots : change[s] # None =>
                             change[s].label = label /\ change[s].token = token
  <1>1. /\ loading' \in Load \cup {None}
        /\ loading' = None => token = None \/ label = None
        /\ loading' # None => /\ token # None /\ label # None
                              /\ loading'.label = label /\ loading'.token = token
    <2>1. CASE token # None /\ label # None
      <3>1. loading' = NewLoad(label, token) /\ NewLoad(label, token) \in Load
        BY <2>1, NewLoadTypes DEF Effect
      <3>2. NewLoad(label, token).label = label /\ NewLoad(label, token).token = token
        BY DEF NewLoad
      <3> QED BY <2>1, <3>1, <3>2, NothingAssumption
    <2>2. CASE token = None \/ label = None
      <3>1. loading' = None
        BY <2>2 DEF Effect
      <3> QED BY <2>2, <3>1
    <2> QED BY <2>1, <2>2
  <1>2. astray' = Crosses(token, label)
    BY DEF Effect
  <1>3. QED BY <1>1, <1>2 DEF Crosses

-------------------------------------------------------------------------------
(* Types.                                                                  *)

\* The steps of the session change no change.
LEMMA SessionStepTypes ==
    ASSUME UIInv, SessionStep
    PROVE  UIInv'
  <1> USE DEF UIInv, PageTypeOK, ChangeInProgress
  <1>1. ASSUME NEW u \in Visitors, SignIn(u) PROVE UIInv'
    BY <1>1, EffectTypes DEF SignIn
  <1>2. ASSUME NEW asked \in BOOLEAN, SignedOut(asked) PROVE UIInv'
    BY <1>2, EffectTypes DEF SignedOut
  <1>3. CASE ClearSession
    BY <1>3, EffectTypes DEF ClearSession
  <1>4. CASE Entered
    <2>1. PICK answer \in {entering, None} : session' = answer /\ Effect(privy, answer)
      BY <1>4 DEF Entered
    <2>2. loading' \in Load \cup {None} /\ astray' \in BOOLEAN
      BY <2>1, EffectTypes
    <2> QED BY <1>4, <2>1, <2>2 DEF Entered
  <1>5. CASE Relink
    BY <1>5 DEF Relink
  <1>6. CASE Relinked
    BY <1>6, EffectTypes DEF Relinked
  <1> QED
    BY <1>1, <1>2, <1>3, <1>4, <1>5, <1>6 DEF SessionStep

\* The load of the effect stores what the server has read.
LEMMA LoadStepTypes ==
    ASSUME UIInv, LoadRead \/ LoadEnds
    PROVE  UIInv'
  <1> USE DEF UIInv, PageTypeOK, ChangeInProgress
  <1>1. CASE LoadRead
    <2>1. loading \in Load /\ rows[loading.token] \in Version
      BY <1>1 DEF LoadRead, Load
    <2>2. loading' \in Load
      BY <1>1, <2>1 DEF LoadRead, Load
    <2> QED
      BY <1>1, <2>2 DEF LoadRead
  <1>2. CASE LoadEnds
    <2>1. loading \in Load
      BY <1>2 DEF LoadEnds
    <2>2. data' \in Rows \cup {None} /\ loaded' \in Visitors
      BY <1>2, <2>1 DEF LoadEnds, Load, Rows
    <2> QED
      BY <1>2, <2>2 DEF LoadEnds
  <1> QED
    BY <1>1, <1>2

\* What a step does to one slot.
SlotBecomes(s, new) == change' = [change EXCEPT ![s] = new]

\* What a user asks for is a change of the page, of this session.
LEMMA AskTypes ==
    ASSUME PageTypeOK, NEW s \in Slots, NEW kind \in page, Ask(s, kind)
    PROVE  \E new \in Change :
              /\ SlotBecomes(s, new)
              /\ new.label = session /\ new.token = privy
              /\ new.phase \in {"sent", "reload"}
              /\ session # None /\ privy # None
  <1> DEFINE row == IF kind.onRow \/ kind.versioned THEN Shown ELSE None
             asked == [kind |-> kind, label |-> session, token |-> privy,
                       row |-> row, version |-> None, phase |-> "sent"]
  <1>1. /\ kind \in UNION PagesOfTheApp
        /\ session \in Visitors /\ privy \in Visitors /\ privy # None /\ session # None
    BY PagesAssumption DEF Ask, Session, PageTypeOK
  <1>2. row \in Rows \cup {None}
    BY DEF Shown, PageTypeOK
  <1>3. asked \in Change
    <2> HIDE DEF row
    <2> QED
      BY <1>1, <1>2 DEF Change
  <1>4. /\ asked.label = session /\ asked.token = privy /\ asked.phase = "sent"
    OBVIOUS
  <1>5. change' = [change EXCEPT ![s] = IF kind.asks THEN asked ELSE Reload(asked)]
    BY DEF Ask
  <1> HIDE DEF asked
  <1>6. /\ Reload(asked) \in Change /\ Reload(asked).phase = "reload"
        /\ Reload(asked).label = session /\ Reload(asked).token = privy
    <2>1. Reload(asked) = [asked EXCEPT !.phase = "reload", !.token = privy, !.row = None]
      BY <1>1 DEF Reload
    <2> QED
      BY <1>1, <1>3, <1>4, <2>1 DEF Change
  <1>7. CASE kind.asks
    <2>1. SlotBecomes(s, asked) BY <1>5, <1>7 DEF SlotBecomes
    <2> QED BY <1>1, <1>3, <1>4, <2>1
  <1>8. CASE ~kind.asks
    <2>1. SlotBecomes(s, Reload(asked)) BY <1>5, <1>8 DEF SlotBecomes
    <2> QED BY <1>1, <1>6, <2>1
  <1> QED
    BY <1>7, <1>8

\* The other steps of a change keep its label, and its token until a load is
\* sent with the one that is there.  What they store is of that token.
LEMMA ServedTypes ==
    ASSUME UIInv, NEW s \in Slots,
           Serve(s) \/ Answered(s) \/ AnswerLost(s) \/ ReloadRead(s) \/ Reloaded(s)
    PROVE  /\ change[s] \in Change
           /\ \E new \in Change \cup {None} :
                 /\ SlotBecomes(s, new)
                 /\ new # None =>
                       /\ new.label = change[s].label
                       /\ new.token = change[s].token \/ (privy # None /\ new.token = privy)
                       /\ (new.phase = "accepted" /\ new.kind.clears) => new.row \in Rows
           /\ \/ UNCHANGED <<data, loaded>>
              \/ /\ data' \in Rows /\ data'.user = change[s].token
                 /\ loaded' \in {loaded, change[s].label}
           /\ rows' \in [Visitors -> Version]
           /\ UNCHANGED <<page, privy, session, clearing, entering, relinking,
                          loading, astray>>
  <1> DEFINE Goal == /\ \E new \in Change \cup {None} :
                           /\ SlotBecomes(s, new)
                           /\ new # None =>
                                 /\ new.label = change[s].label
                                 /\ \/ new.token = change[s].token
                                    \/ privy # None /\ new.token = privy
                                 /\ (new.phase = "accepted" /\ new.kind.clears)
                                       => new.row \in Rows
                     /\ \/ UNCHANGED <<data, loaded>>
                        \/ /\ data' \in Rows /\ data'.user = change[s].token
                           /\ loaded' \in {loaded, change[s].label}
                     /\ rows' \in [Visitors -> Version]
                     /\ UNCHANGED <<page, privy, session, clearing, entering, relinking,
                                    loading, astray>>
  <1>0. /\ change[s] \in Change /\ change[s] # None
        /\ change \in [Slots -> Change \cup {None}]
        /\ rows \in [Visitors -> Version] /\ privy \in Visitors \cup {None}
        /\ PageTypeOK
    BY DEF UIInv, PageTypeOK, Serve, Answered, AnswerLost, ReloadRead, Reloaded
  <1>1. CASE Serve(s)
    <2>1. rows' \in [Visitors -> Version]
      BY <1>0, <1>1 DEF Serve, Version, Change
    <2>2. CASE Acceptable(change[s]) /\ change' = [change EXCEPT ![s].phase = "accepted"]
      <3> DEFINE new == [change[s] EXCEPT !.phase = "accepted"]
      <3>1. change' = [change EXCEPT ![s] = new]
        BY <1>0, <2>2
      <3>2. /\ new \in Change /\ new.label = change[s].label /\ new.token = change[s].token
            /\ new.kind = change[s].kind /\ new.row = change[s].row
        BY <1>0 DEF Change
      <3>3. new.kind.clears => new.row \in Rows
        <4>1. new.kind.clears => new.kind.versioned
          BY <3>2, ClearsAreVersioned DEF Change
        <4>2. change[s].row \in Rows \cup {None}
          BY <1>0 DEF Change
        <4>3. QED BY <2>2, <3>2, <4>1, <4>2 DEF Acceptable, VersionMatches
      <3> HIDE DEF new
      <3>4. SlotBecomes(s, new) BY <3>1 DEF SlotBecomes
      <3>5. UNCHANGED <<page, privy, session, clearing, entering, relinking,
                        loading, astray, data, loaded>>
        BY <1>1 DEF Serve
      <3>6. QED BY <1>0, <2>1, <3>2, <3>3, <3>4, <3>5
    <2>3. CASE change' = [change EXCEPT ![s].phase = "refused"]
      <3> DEFINE new == [change[s] EXCEPT !.phase = "refused"]
      <3>1. change' = [change EXCEPT ![s] = new]
        BY <1>0, <2>3
      <3>2. /\ new \in Change /\ new.label = change[s].label /\ new.token = change[s].token
            /\ new.phase = "refused"
        BY <1>0 DEF Change
      <3> HIDE DEF new
      <3>4. SlotBecomes(s, new) BY <3>1 DEF SlotBecomes
      <3>5. UNCHANGED <<page, privy, session, clearing, entering, relinking,
                        loading, astray, data, loaded>>
        BY <1>1 DEF Serve
      <3>6. QED BY <1>0, <2>1, <3>2, <3>4, <3>5
    <2>4. QED BY <1>1, <2>2, <2>3 DEF Serve
  <1>2. CASE Answered(s)
    <2>1. /\ UNCHANGED <<page, privy, session, clearing, entering, relinking, loading,
                         loaded, rows, astray>>
      BY <1>2 DEF Answered
    <2>2. CASE SlotBecomes(s, None)
      <3>1. \/ UNCHANGED data
            \/ /\ change[s].phase = "accepted" /\ change[s].kind.clears
               /\ data' = [user |-> change[s].token, version |-> change[s].row.version + 1]
        BY <1>2 DEF Answered
      <3>2. \/ UNCHANGED data
            \/ data' \in Rows /\ data'.user = change[s].token
        <4>1. CASE UNCHANGED data BY <4>1
        <4>2. CASE /\ change[s].phase = "accepted" /\ change[s].kind.clears
                   /\ data' = [user |-> change[s].token,
                               version |-> change[s].row.version + 1]
          <5>1. change[s].row \in Rows
            BY <1>0, <4>2 DEF UIInv, ChangeInProgress
          <5>2. change[s].row.version + 1 \in Version /\ change[s].token \in Visitors
            BY <1>0, <5>1 DEF Rows, Version, Change
          <5>3. QED BY <4>2, <5>2 DEF Rows
        <4>3. QED BY <3>1, <4>1, <4>2
      <3>3. QED BY <1>0, <2>1, <2>2, <3>2
    <2>3. CASE SlotBecomes(s, Reload(change[s])) /\ UNCHANGED data
      <3>1. \/ Reload(change[s]) = None
            \/ /\ privy # None /\ Reload(change[s]) \in Change
               /\ Reload(change[s]).phase = "reload"
               /\ Reload(change[s]).label = change[s].label
               /\ Reload(change[s]).token = privy
        BY <1>0, ReloadTypes
      <3>2. QED BY <1>0, <2>1, <2>3, <3>1
    <2>4. QED
      BY <1>2, <2>2, <2>3 DEF Answered, AfterRefusal, SlotBecomes
  <1>3. CASE AnswerLost(s)
    <2>1. SlotBecomes(s, None)
      BY <1>3 DEF AnswerLost, SlotBecomes
    <2>2. UNCHANGED <<page, privy, session, clearing, entering, relinking, loading,
                      data, loaded, rows, astray>>
      BY <1>3 DEF AnswerLost
    <2>3. QED BY <1>0, <2>1, <2>2
  <1>4. CASE ReloadRead(s)
    <2> DEFINE new == [change[s] EXCEPT !.version = rows[change[s].token]]
    <2>1. change' = [change EXCEPT ![s] = new]
      BY <1>0, <1>4 DEF ReloadRead
    <2>2. rows[change[s].token] \in Version
      BY <1>0 DEF Change
    <2>3. /\ new \in Change /\ new.label = change[s].label /\ new.token = change[s].token
          /\ new.phase = "reload"
      BY <1>0, <1>4, <2>2 DEF Change, ReloadRead
    <2> HIDE DEF new
    <2>4. SlotBecomes(s, new) BY <2>1 DEF SlotBecomes
    <2>5. UNCHANGED <<page, privy, session, clearing, entering, relinking, loading,
                      data, loaded, rows, astray>>
      BY <1>4 DEF ReloadRead
    <2>6. QED BY <1>0, <2>3, <2>4, <2>5
  <1>5. CASE Reloaded(s)
    <2>1. SlotBecomes(s, None)
      BY <1>5 DEF Reloaded, SlotBecomes
    <2>2. /\ change[s].version # None /\ loaded' = change[s].label
          /\ data' = [user |-> change[s].token, version |-> change[s].version]
          /\ UNCHANGED <<page, privy, session, clearing, entering, relinking, loading,
                         rows, astray>>
      BY <1>5 DEF Reloaded
    <2>3. data' \in Rows /\ data'.user = change[s].token
      BY <1>0, <2>2 DEF Rows, Change
    <2>4. QED BY <1>0, <2>1, <2>2, <2>3
  <1>6. Goal
    BY <1>1, <1>2, <1>3, <1>4, <1>5
  <1>7. QED BY <1>0, <1>6

\* The server, its answers and the loads after them.
LEMMA ChangeStepTypes ==
    ASSUME UIInv, ChangeStep
    PROVE  UIInv'
  <1>0. /\ PageTypeOK /\ ChangeInProgress /\ change \in [Slots -> Change \cup {None}]
    BY DEF UIInv, PageTypeOK
  <1>1. ASSUME NEW s \in Slots, NEW kind \in page, Ask(s, kind) PROVE UIInv'
    <2>1. PICK new \in Change : SlotBecomes(s, new) /\ new.phase \in {"sent", "reload"}
      BY <1>0, <1>1, AskTypes
    <2>2. /\ change' \in [Slots -> Change \cup {None}] /\ change'[s] = new
          /\ \A r \in Slots \ {s} : change'[r] = change[r]
      BY <1>0, <2>1 DEF SlotBecomes
    <2>3. UNCHANGED <<page, privy, session, clearing, entering, relinking, loading,
                      data, loaded, rows, astray>>
      BY <1>1 DEF Ask
    <2>4. PageTypeOK' BY <1>0, <2>2, <2>3 DEF PageTypeOK
    <2>5. ChangeInProgress' BY <1>0, <2>1, <2>2 DEF ChangeInProgress
    <2> QED BY <2>4, <2>5 DEF UIInv
  <1>2. ASSUME NEW s \in Slots,
               Serve(s) \/ Answered(s) \/ AnswerLost(s) \/ ReloadRead(s) \/ Reloaded(s)
        PROVE  UIInv'
    <2>1. /\ change[s] \in Change
          /\ \/ UNCHANGED <<data, loaded>>
             \/ data' \in Rows /\ loaded' \in {loaded, change[s].label}
          /\ rows' \in [Visitors -> Version]
          /\ UNCHANGED <<page, privy, session, clearing, entering, relinking,
                         loading, astray>>
      BY <1>2, ServedTypes
    <2>2. PICK new \in Change \cup {None} :
             /\ SlotBecomes(s, new)
             /\ new # None =>
                   ((new.phase = "accepted" /\ new.kind.clears) => new.row \in Rows)
      BY <1>2, ServedTypes
    <2>3. /\ change' \in [Slots -> Change \cup {None}] /\ change'[s] = new
          /\ \A r \in Slots \ {s} : change'[r] = change[r]
      BY <1>0, <2>2 DEF SlotBecomes
    <2>4. data' \in Rows \cup {None} /\ loaded' \in Visitors \cup {None}
      BY <1>0, <2>1 DEF PageTypeOK, Change
    <2>5. PageTypeOK' BY <1>0, <2>1, <2>3, <2>4 DEF PageTypeOK
    <2>6. ChangeInProgress' BY <1>0, <2>2, <2>3 DEF ChangeInProgress
    <2> QED BY <2>5, <2>6 DEF UIInv
  <1> QED
    BY <1>1, <1>2 DEF ChangeStep

\* No step sends a request without a token or stores rows without a version.
LEMMA UIInvariance == PageSpec => []UIInv
  <1>1. PageInit => UIInv
    <2> SUFFICES ASSUME PageInit PROVE UIInv
      OBVIOUS
    <2>1. rows \in [Visitors -> Version]
      BY DEF PageInit, Version
    <2>2. change \in [Slots -> Change \cup {None}] /\ \A s \in Slots : change[s] = None
      BY DEF PageInit
    <2> QED
      BY <2>1, <2>2 DEF PageInit, UIInv, PageTypeOK, ChangeInProgress
  <1>2. UIInv /\ [PageNext]_pageVars => UIInv'
    <2> SUFFICES ASSUME UIInv, [PageNext]_pageVars PROVE UIInv'
      OBVIOUS
    <2>1. CASE SessionStep
      BY <2>1, SessionStepTypes
    <2>2. CASE LoadRead \/ LoadEnds
      BY <2>2, LoadStepTypes
    <2>3. CASE ChangeStep
      BY <2>3, ChangeStepTypes
    <2>4. CASE ChangedElsewhere
      BY <2>4 DEF ChangedElsewhere, UIInv, PageTypeOK, ChangeInProgress, Version
    <2>5. CASE UNCHANGED pageVars
      BY <2>5 DEF pageVars, UIInv, PageTypeOK, ChangeInProgress
    <2> QED
      BY <2>1, <2>2, <2>3, <2>4, <2>5 DEF PageNext
  <1> QED
    BY <1>1, <1>2, PTL DEF PageSpec

-------------------------------------------------------------------------------
(* Whose rows a page shows.                                                *)

\* Where the session changes, the effect of the page begins a load of it and
\* what is under way for another one goes astray.
LEMMA EffectIsOfSession ==
    ASSUME UIInv, UIInv', Effect(privy', session'), UNCHANGED change
    PROVE  SessionInvOfPage'
  <1>1. /\ privy' \in Visitors \cup {None} /\ session' \in Visitors \cup {None}
    BY DEF UIInv, PageTypeOK
  <1>2. /\ loading' = None => privy' = None \/ session' = None
        /\ loading' # None => /\ privy' # None /\ session' # None
                              /\ loading'.label = session' /\ loading'.token = privy'
        /\ ~astray' => \A s \in Slots : change[s] # None =>
                          change[s].label = session' /\ change[s].token = privy'
    BY <1>1, EffectTypes
  <1>3. LoadIsOfSession' BY <1>2 DEF LoadIsOfSession
  <1>4. ChangesAreOfSession' BY <1>2 DEF ChangesAreOfSession
  <1>5. ShownIsOfSession' BY <1>2 DEF ShownIsOfSession, Session
  <1> QED BY <1>3, <1>4, <1>5 DEF SessionInvOfPage

\* A new session, however it came and whatever the one before has left.
LEMMA SessionStepIsOfSession ==
    ASSUME UIInv, UIInv', SessionInvOfPage, SessionStep
    PROVE  SessionInvOfPage'
  <1>1. ASSUME NEW u \in Visitors, SignIn(u) PROVE SessionInvOfPage'
    BY <1>1, EffectIsOfSession DEF SignIn
  <1>2. ASSUME NEW asked \in BOOLEAN, SignedOut(asked) PROVE SessionInvOfPage'
    BY <1>2, EffectIsOfSession DEF SignedOut
  <1>3. CASE ClearSession
    BY <1>3, EffectIsOfSession DEF ClearSession
  <1>4. CASE Entered
    <2>1. PICK answer \in {entering, None} : session' = answer /\ Effect(privy, answer)
      BY <1>4 DEF Entered
    <2>2. UNCHANGED <<privy, change>>
      BY <1>4 DEF Entered
    <2> QED BY <2>1, <2>2, EffectIsOfSession
  <1>5. ASSUME UNCHANGED <<privy, session, loading, data, loaded, change, astray>>
        PROVE  SessionInvOfPage'
    BY <1>5 DEF SessionInvOfPage, LoadIsOfSession, ChangesAreOfSession,
                ShownIsOfSession, Session, PageSettled
  <1>6. CASE Relink
    BY <1>5, <1>6 DEF Relink
  <1>7. CASE Relinked
    <2>1. UNCHANGED <<privy, data, loaded, change>>
      BY <1>7 DEF Relinked
    <2>2. \/ session' = relinking /\ Effect(privy, relinking)
          \/ UNCHANGED <<session, loading, astray>>
      BY <1>7 DEF Relinked
    <2> QED BY <1>5, <2>1, <2>2, EffectIsOfSession
  <1> QED
    BY <1>1, <1>2, <1>3, <1>4, <1>6, <1>7 DEF SessionStep

\* A load that ends leaves a settled page.
LEMMA LoadStepIsOfSession ==
    ASSUME UIInv, SessionInvOfPage, LoadRead \/ LoadEnds
    PROVE  SessionInvOfPage'
  <1> USE DEF SessionInvOfPage, LoadIsOfSession, ChangesAreOfSession,
              ShownIsOfSession, Session, PageSettled
  <1>0. loading \in Load /\ loading # None
    BY DEF UIInv, PageTypeOK, LoadRead, LoadEnds
  <1>1. CASE LoadRead
    <2>1. loading' = [loading EXCEPT !.version = rows[loading.token]]
      BY <1>1 DEF LoadRead
    <2>2. loading'.label = loading.label /\ loading'.token = loading.token
      BY <1>0, <2>1 DEF Load
    <2>3. loading' # None
      <3>1. rows[loading.token] \in Version
        BY <1>0 DEF UIInv, PageTypeOK, Load
      <3>2. loading' \in Load
        BY <1>0, <2>1, <3>1 DEF Load
      <3> QED BY <3>2, NothingAssumption
    <2> QED
      BY <1>0, <1>1, <2>2, <2>3 DEF LoadRead
  <1>2. CASE LoadEnds
    <2>1. /\ loaded' = session /\ loading' = None
          /\ UNCHANGED <<privy, session, change, astray>>
      BY <1>0, <1>2 DEF LoadEnds
    <2>2. data' # None => data'.user = privy
      BY <1>0, <1>2 DEF LoadEnds
    <2> QED
      BY <2>1, <2>2
  <1> QED
    BY <1>1, <1>2

\* What a change stores is of this session, unless it went astray.
LEMMA ChangeStepIsOfSession ==
    ASSUME UIInv, SessionInvOfPage, ChangeStep
    PROVE  SessionInvOfPage'
  <1> USE DEF SessionInvOfPage, LoadIsOfSession
  <1>0. PageTypeOK /\ change \in [Slots -> Change \cup {None}]
    BY DEF UIInv, PageTypeOK
  <1>1. ASSUME NEW s \in Slots, NEW kind \in page, Ask(s, kind) PROVE SessionInvOfPage'
    <2>1. PICK new \in Change : /\ SlotBecomes(s, new)
                                /\ new.label = session /\ new.token = privy
      BY <1>0, <1>1, AskTypes
    <2>2. /\ change'[s] = new /\ \A r \in Slots \ {s} : change'[r] = change[r]
      BY <1>0, <2>1 DEF SlotBecomes
    <2>3. UNCHANGED <<privy, session, loading, data, loaded, astray>>
      BY <1>1 DEF Ask
    <2>4. ChangesAreOfSession' BY <2>1, <2>2, <2>3 DEF ChangesAreOfSession
    <2>5. LoadIsOfSession' /\ ShownIsOfSession'
      BY <2>3 DEF ShownIsOfSession, Session, PageSettled
    <2> QED BY <2>4, <2>5
  <1>2. ASSUME NEW s \in Slots,
               Serve(s) \/ Answered(s) \/ AnswerLost(s) \/ ReloadRead(s) \/ Reloaded(s)
        PROVE  SessionInvOfPage'
    <2>1. /\ change[s] \in Change
          /\ \/ UNCHANGED <<data, loaded>>
             \/ /\ data' \in Rows /\ data'.user = change[s].token
                /\ loaded' \in {loaded, change[s].label}
          /\ UNCHANGED <<privy, session, loading, astray>>
      BY <1>2, ServedTypes
    <2>2. PICK new \in Change \cup {None} :
             /\ SlotBecomes(s, new)
             /\ new # None =>
                   /\ new.label = change[s].label
                   /\ new.token = change[s].token \/ (privy # None /\ new.token = privy)
      BY <1>2, ServedTypes
    <2>3. /\ change'[s] = new /\ \A r \in Slots \ {s} : change'[r] = change[r]
      BY <1>0, <2>2 DEF SlotBecomes
    <2>4. change[s] # None
      BY <1>2 DEF Serve, Answered, AnswerLost, ReloadRead, Reloaded
    <2>5. ChangesAreOfSession' BY <2>1, <2>2, <2>3, <2>4 DEF ChangesAreOfSession
    <2>6. LoadIsOfSession' BY <2>1
    <2>7. ~astray => change[s].label = session /\ change[s].token = privy
      BY <2>4 DEF ChangesAreOfSession
    <2>8. ShownIsOfSession'
      BY <2>1, <2>7 DEF ShownIsOfSession, Session, PageSettled
    <2> QED BY <2>5, <2>6, <2>8
  <1> QED
    BY <1>1, <1>2 DEF ChangeStep

-------------------------------------------------------------------------------
(* Theorems about the browser.                                             *)

\* The variables of Pages keep their types: no request is sent without a token,
\* and no row is shown without a version.
THEOREM PagesTypeCorrect == PageSpec => []PageTypeOK
  <1>1. UIInv => PageTypeOK
    BY DEF UIInv
  <1> QED
    BY <1>1, UIInvariance, PTL

\* A page that is not loading has settled on the rows of who is signed in, for
\* any users, requests and answers, unless the session changed under a change.
THEOREM RowsAreOfSession == PageSpec => []ShownIsOfSession
  <1>1. PageInit => SessionInvOfPage
    BY DEF PageInit, SessionInvOfPage, LoadIsOfSession, ChangesAreOfSession,
           ShownIsOfSession, Session
  <1>2. UIInv /\ UIInv' /\ SessionInvOfPage /\ [PageNext]_pageVars => SessionInvOfPage'
    <2> SUFFICES ASSUME UIInv, UIInv', SessionInvOfPage, [PageNext]_pageVars
                 PROVE  SessionInvOfPage'
      OBVIOUS
    <2>1. CASE SessionStep
      BY <2>1, SessionStepIsOfSession
    <2>2. CASE LoadRead \/ LoadEnds
      BY <2>2, LoadStepIsOfSession
    <2>3. CASE ChangeStep
      BY <2>3, ChangeStepIsOfSession
    <2>4. CASE ChangedElsewhere
      BY <2>4 DEF ChangedElsewhere, SessionInvOfPage, LoadIsOfSession,
                  ChangesAreOfSession, ShownIsOfSession, Session, PageSettled
    <2>5. CASE UNCHANGED pageVars
      BY <2>5 DEF pageVars, SessionInvOfPage, LoadIsOfSession,
                  ChangesAreOfSession, ShownIsOfSession, Session, PageSettled
    <2> QED
      BY <2>1, <2>2, <2>3, <2>4, <2>5 DEF PageNext
  <1>3. SessionInvOfPage => ShownIsOfSession
    BY DEF SessionInvOfPage
  <1> QED
    BY <1>1, <1>2, <1>3, UIInvariance, PTL DEF PageSpec
===============================================================================
