--------------------------- MODULE IntentsProofs ---------------------------
(***************************************************************************)
(* Theorems about Wallets and Intents.                                     *)
(*                                                                         *)
(* While a call has no company, nobody else writes: the rows it read and   *)
(* matched are what it overwrites.  A call that has only met setPrimary    *)
(* has met nobody who creates, archives or restores a wallet.  Both are    *)
(* invariants about what a transaction under way knows of the committed    *)
(* rows; row locks are what keeps the rows it has written as they are.     *)
(***************************************************************************)
EXTENDS Intents, TLAPS

\* One step of call c.
Step(c) ==
    \/ \E w \in WalletIds, primary \in BOOLEAN : BeginCreate(c, w, primary)
    \/ \E w \in WalletIds : BeginSetPrimary(c, w) \/ BeginArchive(c, w)
    \/ Clear(c)
    \/ Put(c)
    \/ SetPrimary(c)
    \/ Archive(c)
    \/ Choose(c)
    \/ Promote(c)
    \/ RollBack(c)

\* The operation of a call goes with where it is, and rows are never deleted.
CallFits ==
    \A c \in Calls :
        /\ At(c, "idle") => calls[c] = Idle
        /\ ~At(c, "idle") => calls[c].op \in Operations /\ calls[c].wallet \in WalletIds
        /\ At(c, "clear") => calls[c].op \in {"create", "setPrimary"}
        /\ At(c, "put") => calls[c].op = "create"
        /\ At(c, "set") => calls[c].op = "setPrimary"
        /\ calls[c].pc \in {"archive", "choose", "promote"} => calls[c].op = "archive"
        /\ \A w \in calls[c].todo : Exists(w)

-------------------------------------------------------------------------------
(* Types.                                                                  *)

\* The types hold before any call.
LEMMA CallInit == WalletInit => WalletTypeOK /\ CallFits
<1> SUFFICES ASSUME WalletInit
             PROVE  WalletTypeOK /\ CallFits
    OBVIOUS
<1>1. Idle \in Call
    BY DEF Idle, Call, NoWrites
<1>2. wallets \in [WalletIds -> Wallet \cup {NoRow}]
    <2>1. [live |-> TRUE, primary |-> FALSE, executable |-> TRUE] \in Wallet
        BY DEF Wallet
    <2> QED
        BY <2>1 DEF WalletInit
<1>3. \A c \in Calls : /\ calls[c] = Idle /\ calls[c].pc = "idle"
                       /\ calls[c].todo = {}
    BY DEF WalletInit, Idle
<1>4. CallFits
    BY <1>3 DEF CallFits, At
<1> QED
    BY <1>1, <1>2, <1>4 DEF WalletInit, WalletTypeOK

\* A call that begins: what it holds, and what the others learn.
LEMMA Beginning ==
    ASSUME WalletTypeOK, CallFits, NEW c \in Calls, NEW call \in Call,
           call.op \in Operations, Begin(c, call)
    PROVE  /\ wallets' = wallets
           /\ At(c, "idle")
           /\ calls' \in [Calls -> Call]
           /\ \E others \in SUBSET Operations :
                /\ calls'[c] = [call EXCEPT !.company = others]
                /\ \A d \in Calls \ {c} : ~At(d, "idle") => calls[d].op \in others
           /\ \A d \in Calls \ {c} :
                IF At(d, "idle") THEN calls'[d] = calls[d]
                ELSE calls'[d] = [calls[d] EXCEPT !.company = @ \cup {call.op}]
<1> DEFINE others == {calls[e].op : e \in {f \in Calls : ~At(f, "idle")}}
<1>1. others \in SUBSET Operations
    BY DEF CallFits
<1>2. calls'[c] = [call EXCEPT !.company = others]
    BY DEF Begin
<1>3. [call EXCEPT !.company = others] \in Call
    BY <1>1 DEF Call
<1>4. ASSUME NEW d \in Calls \ {c}
      PROVE  /\ calls'[d] \in Call
             /\ IF At(d, "idle") THEN calls'[d] = calls[d]
                ELSE calls'[d] = [calls[d] EXCEPT !.company = @ \cup {call.op}]
    <2>1. calls[d] \in Call
        BY DEF WalletTypeOK
    <2>2. CASE At(d, "idle")
        <3>1. calls'[d] = Idle
            BY <2>2 DEF Begin
        <3> QED
            BY <2>1, <2>2, <3>1 DEF CallFits
    <2>3. CASE ~At(d, "idle")
        <3>1. calls'[d] = [calls[d] EXCEPT !.company = @ \cup {call.op}]
            BY <2>3 DEF Begin
        <3> QED
            BY <2>1, <2>3, <3>1 DEF Call
    <2> QED
        BY <2>2, <2>3
<1>5. calls' = [d \in Calls |-> calls'[d]]
    BY DEF Begin
<1>6. calls' \in [Calls -> Call]
    <2>1. \A d \in Calls : calls'[d] \in Call
        BY <1>2, <1>3, <1>4
    <2> QED
        BY <1>5, <2>1
<1>7. \A d \in Calls \ {c} : ~At(d, "idle") => calls[d].op \in others
    OBVIOUS
<1> QED
    BY <1>1, <1>2, <1>4, <1>6, <1>7 DEF Begin

\* A creation begins, with the primary wallets to clear if it is to be one.
LEMMA BeginCreateIs ==
    ASSUME WalletTypeOK, NEW c \in Calls, NEW w \in WalletIds, NEW primary \in BOOLEAN,
           BeginCreate(c, w, primary)
    PROVE  \E call \in Call :
             /\ call.op = "create" /\ call.wallet = w /\ call.primary = primary
             /\ call.pc = (IF primary THEN "clear" ELSE "put")
             /\ call.todo = (IF primary THEN {x \in WalletIds : IsPrimary(x)} ELSE {})
             /\ call.writes = NoWrites
             /\ Begin(c, call)
<1> DEFINE call == [Idle EXCEPT !.op = "create", !.wallet = w, !.primary = primary,
                          !.pc = IF primary THEN "clear" ELSE "put",
                          !.todo = IF primary THEN ToClear("create") ELSE {}]
<1>1. ToClear("create") = {x \in WalletIds : IsPrimary(x)}
    BY DEF ToClear
<1>2. /\ call.op = "create" /\ call.wallet = w /\ call.primary = primary
      /\ call.pc = (IF primary THEN "clear" ELSE "put")
      /\ call.todo = (IF primary THEN {x \in WalletIds : IsPrimary(x)} ELSE {})
      /\ call.writes = NoWrites
    BY <1>1 DEF Idle
<1>3. call \in Call
    BY <1>1 DEF Idle, Call, NoWrites, Operations
<1>4. Begin(c, call)
    BY DEF BeginCreate
<1> QED
    BY <1>2, <1>3, <1>4

\* A choice begins with every wallet to clear.
LEMMA BeginSetPrimaryIs ==
    ASSUME WalletTypeOK, NEW c \in Calls, NEW w \in WalletIds, BeginSetPrimary(c, w)
    PROVE  \E call \in Call :
             /\ call.op = "setPrimary" /\ call.wallet = w /\ call.pc = "clear"
             /\ call.todo = {x \in WalletIds : Exists(x)}
             /\ call.writes = NoWrites
             /\ Begin(c, call)
<1> DEFINE call == [Idle EXCEPT !.op = "setPrimary", !.wallet = w, !.pc = "clear",
                          !.todo = ToClear("setPrimary")]
<1>1. ToClear("setPrimary") = {x \in WalletIds : Exists(x)}
    BY DEF ToClear
<1>2. /\ call.op = "setPrimary" /\ call.wallet = w /\ call.pc = "clear"
      /\ call.todo = {x \in WalletIds : Exists(x)}
      /\ call.writes = NoWrites
    BY <1>1 DEF Idle
<1>3. call \in Call
    BY <1>1 DEF Idle, Call, NoWrites, Operations
<1>4. Begin(c, call)
    BY DEF BeginSetPrimary
<1> QED
    BY <1>2, <1>3, <1>4

\* An archiving begins, and remembers whether the wallet was primary.
LEMMA BeginArchiveIs ==
    ASSUME WalletTypeOK, NEW c \in Calls, NEW w \in WalletIds, BeginArchive(c, w)
    PROVE  /\ Exists(w)
           /\ \E call \in Call :
             /\ call.op = "archive" /\ call.wallet = w /\ call.pc = "archive"
             /\ call.primary = wallets[w].primary
             /\ call.todo = {}
             /\ call.writes = NoWrites
             /\ Begin(c, call)
<1> DEFINE call == [Idle EXCEPT !.op = "archive", !.wallet = w, !.pc = "archive",
                             !.primary = ReadPrimary(w)]
<1>0. Exists(w) /\ wallets[w] \in Wallet
    BY DEF BeginArchive, Exists, WalletTypeOK
<1>1. ReadPrimary(w) = wallets[w].primary /\ wallets[w].primary \in BOOLEAN
    BY <1>0 DEF ReadPrimary, Wallet
<1>2. /\ call.op = "archive" /\ call.wallet = w /\ call.pc = "archive"
      /\ call.primary = wallets[w].primary
      /\ call.todo = {}
      /\ call.writes = NoWrites
    BY <1>1 DEF Idle
<1>3. call \in Call
    BY <1>1 DEF Idle, Call, NoWrites, Operations
<1>4. Begin(c, call)
    BY DEF BeginArchive
<1> QED
    BY <1>0, <1>2, <1>3, <1>4

-------------------------------------------------------------------------------
(* What a step leaves of the other calls and of the rows.                  *)

\* A transaction that ends: its own writes, over them the last statement's.
LEMMA Committing ==
    ASSUME WalletTypeOK, CallFits, NEW c \in Calls, NEW last \in [WalletIds -> Wallet \cup {NoRow}],
           Commit(c, last)
    PROVE  /\ wallets' \in [WalletIds -> Wallet \cup {NoRow}]
           /\ calls' \in [Calls -> Call]
           /\ calls'[c] = Idle
           /\ \A d \in Calls \ {c} : calls'[d] = calls[d]
           /\ \A w \in WalletIds :
                /\ last[w] # NoRow => wallets'[w] = last[w]
                /\ last[w] = NoRow /\ calls[c].writes[w] # NoRow
                        => wallets'[w] = calls[c].writes[w]
                /\ last[w] = NoRow /\ calls[c].writes[w] = NoRow
                        => wallets'[w] = wallets[w]
<1>1. Idle \in Call
    BY DEF Idle, Call, NoWrites
<1>2. calls' = [calls EXCEPT ![c] = Idle]
    BY DEF Commit
<1>3. calls' \in [Calls -> Call] /\ calls'[c] = Idle
      /\ \A d \in Calls \ {c} : calls'[d] = calls[d]
    BY <1>1, <1>2 DEF WalletTypeOK
<1>4. \A w \in WalletIds :
        /\ wallets'[w] = IF last[w] # NoRow THEN last[w] ELSE View(c, w)
        /\ View(c, w) = IF calls[c].writes[w] # NoRow THEN calls[c].writes[w] ELSE wallets[w]
    BY DEF Commit, View
<1>5. \A w \in WalletIds :
        calls[c].writes[w] \in Wallet \cup {NoRow} /\ wallets[w] \in Wallet \cup {NoRow}
    BY DEF WalletTypeOK, Call
<1>6. wallets' \in [WalletIds -> Wallet \cup {NoRow}]
    <2>1. \A w \in WalletIds : wallets'[w] \in Wallet \cup {NoRow}
        BY <1>4, <1>5
    <2>2. wallets' = [w \in WalletIds |-> wallets'[w]]
        BY DEF Commit
    <2> QED
        BY <2>1, <2>2
<1> QED
    BY <1>3, <1>4, <1>6

\* A row that an UPDATE changes is still a row.
LEMMA Updating ==
    ASSUME NEW row \in Wallet
    PROVE  /\ [row EXCEPT !.primary = TRUE] \in Wallet
           /\ [row EXCEPT !.primary = FALSE] \in Wallet
           /\ [row EXCEPT !.live = FALSE, !.primary = FALSE] \in Wallet
    BY DEF Wallet

\* The last statements of the calls, as commits of one row or of none.
LEMMA LastStatement ==
    ASSUME WalletTypeOK, CallFits, NEW c \in Calls,
           \/ Put(c)
           \/ SetPrimary(c)
           \/ Archive(c) /\ ~calls[c].primary
           \/ Choose(c) /\ {w \in WalletIds : IsLive(w) /\ w # calls[c].wallet} = {}
           \/ Promote(c)
    PROVE  \E last \in [WalletIds -> Wallet \cup {NoRow}] :
             /\ Commit(c, last)
             /\ \A w \in WalletIds : last[w] # NoRow =>
                  /\ ~Locked(c, w)
                  /\ calls[c].op = "setPrimary" => Exists(w)
<1>1. ASSUME NEW w \in WalletIds, NEW row \in Wallet, Commit(c, [NoWrites EXCEPT ![w] = row]),
             ~Locked(c, w), calls[c].op = "setPrimary" => Exists(w)
      PROVE  \E last \in [WalletIds -> Wallet \cup {NoRow}] :
             /\ Commit(c, last)
             /\ \A x \in WalletIds : last[x] # NoRow =>
                  /\ ~Locked(c, x)
                  /\ calls[c].op = "setPrimary" => Exists(x)
    <2> DEFINE last == [NoWrites EXCEPT ![w] = row]
    <2>1. last \in [WalletIds -> Wallet \cup {NoRow}]
        BY DEF NoWrites
    <2>2. \A x \in WalletIds : last[x] # NoRow => x = w
        BY DEF NoWrites
    <2> QED
        BY <1>1, <2>1, <2>2
<1>2. \A w \in WalletIds : wallets[w] \in Wallet \cup {NoRow}
    BY DEF WalletTypeOK
<1>3. \A w \in WalletIds : calls[c].writes[w] \in Wallet \cup {NoRow}
    BY DEF WalletTypeOK, Call
<1>4. \A w \in WalletIds : Exists(w) => View(c, w) \in Wallet
    BY <1>2, <1>3 DEF View, Exists
<1>5. CASE Put(c)
    <2>1. calls[c].wallet \in WalletIds /\ calls[c].op = "create"
        BY <1>5 DEF Put, CallFits, At
    <2>2. [live |-> TRUE, primary |-> calls[c].primary, executable |-> FALSE] \in Wallet
        BY DEF WalletTypeOK, Call, Wallet
    <2> QED
        BY <1>1, <1>5, <2>1, <2>2 DEF Put
<1>6. CASE SetPrimary(c)
    <2>1. calls[c].wallet \in WalletIds
        BY <1>6 DEF SetPrimary, CallFits, At
    <2>2. [View(c, calls[c].wallet) EXCEPT !.primary = TRUE] \in Wallet
        BY <1>4, <1>6, <2>1, Updating DEF SetPrimary
    <2> QED
        BY <1>1, <1>6, <2>1, <2>2 DEF SetPrimary
<1>7. CASE Archive(c) /\ ~calls[c].primary
    <2>1. calls[c].wallet \in WalletIds /\ Exists(calls[c].wallet)
        BY <1>7 DEF Archive, CallFits, At, IsLive
    <2>2. [wallets[calls[c].wallet] EXCEPT !.live = FALSE, !.primary = FALSE] \in Wallet
        BY <1>2, <2>1, Updating DEF Exists
    <2> QED
        BY <1>1, <1>7, <2>1, <2>2 DEF Archive
<1>8. CASE Choose(c) /\ {w \in WalletIds : IsLive(w) /\ w # calls[c].wallet} = {}
    <2>1. Commit(c, NoWrites)
        BY <1>8 DEF Choose
    <2>2. NoWrites \in [WalletIds -> Wallet \cup {NoRow}] /\ \A w \in WalletIds : NoWrites[w] = NoRow
        BY DEF NoWrites
    <2> QED
        BY <2>1, <2>2
<1>9. CASE Promote(c)
    <2>1. PICK w \in calls[c].todo :
            /\ ~Locked(c, w)
            /\ Commit(c, [NoWrites EXCEPT ![w] = [View(c, w) EXCEPT !.primary = TRUE]])
        BY <1>9 DEF Promote
    <2>2. w \in WalletIds /\ Exists(w)
        BY <2>1 DEF CallFits, WalletTypeOK, Call
    <2>3. [View(c, w) EXCEPT !.primary = TRUE] \in Wallet
        BY <1>4, <2>2, Updating
    <2> QED
        BY <1>1, <2>1, <2>2, <2>3
<1> QED
    BY <1>5, <1>6, <1>7, <1>8, <1>9

\* What becomes of c itself: it begins, goes on, or is over.
Begins(c) ==
    /\ At(c, "idle") /\ wallets' = wallets
    /\ calls'[c].writes = NoWrites
    /\ calls'[c].wallet \in WalletIds
    /\ \A d \in Calls \ {c} : ~At(d, "idle") => calls[d].op \in calls'[c].company
    /\ \/ /\ calls'[c].op = "create"
          /\ calls'[c].pc = IF calls'[c].primary THEN "clear" ELSE "put"
          /\ calls'[c].todo =
                IF calls'[c].primary THEN {x \in WalletIds : IsPrimary(x)} ELSE {}
       \/ /\ calls'[c].op = "setPrimary" /\ calls'[c].pc = "clear"
          /\ calls'[c].todo = {x \in WalletIds : Exists(x)}
       \/ /\ calls'[c].op = "archive" /\ calls'[c].pc = "archive"
          /\ calls'[c].todo = {}
          /\ Exists(calls'[c].wallet)
          /\ calls'[c].primary = wallets[calls'[c].wallet].primary

GoesOn(c) ==
    /\ wallets' = wallets
    /\ calls'[c].op = calls[c].op /\ calls'[c].wallet = calls[c].wallet
    /\ calls'[c].primary = calls[c].primary /\ calls'[c].company = calls[c].company
    /\ \/ /\ At(c, "clear")
          /\ calls'[c].pc = IF calls[c].op = "setPrimary" THEN "set" ELSE "put"
          /\ calls'[c].todo = {}
          /\ \A w \in calls[c].todo : ~Locked(c, w)
          /\ calls'[c].writes = [w \in WalletIds |->
                IF w \in calls[c].todo /\ (calls[c].op = "setPrimary" \/ IsPrimary(w))
                THEN [wallets[w] EXCEPT !.primary = FALSE] ELSE NoRow]
       \/ /\ At(c, "archive") /\ calls'[c].pc = "choose"
          /\ calls'[c].todo = calls[c].todo
          /\ IsLive(calls[c].wallet) /\ ~Locked(c, calls[c].wallet)
          /\ calls'[c].writes = [calls[c].writes EXCEPT ![calls[c].wallet] =
                [wallets[calls[c].wallet] EXCEPT !.live = FALSE, !.primary = FALSE]]
       \/ /\ At(c, "choose") /\ calls'[c].pc = "promote"
          /\ calls'[c].writes = calls[c].writes
          /\ \E w \in WalletIds : /\ IsLive(w) /\ w # calls[c].wallet
                                  /\ calls'[c].todo = {w}

IsOver(c) ==
    /\ ~At(c, "idle") /\ calls'[c] = Idle
    /\ \/ wallets' = wallets
       \/ \E last \in [WalletIds -> Wallet \cup {NoRow}] :
             /\ Commit(c, last)
             /\ \A w \in WalletIds : last[w] # NoRow =>
                  /\ ~Locked(c, w)
                  /\ calls[c].op = "setPrimary" => Exists(w)

\* Rows change where no other call has written, and are never deleted.
RowsGoOn(c) ==
    \A w \in WalletIds :
        /\ Exists(w) => Exists(w)'
        /\ calls[c].op = "setPrimary" /\ Exists(w)' => Exists(w)
        /\ wallets'[w] # wallets[w] => calls[c].writes[w] # NoRow \/ ~Locked(c, w)

OthersGoOn(c) ==
    \A d \in Calls \ {c} :
        \/ calls'[d] = calls[d] /\ (At(c, "idle") => At(d, "idle"))
        \/ /\ At(c, "idle") /\ ~At(d, "idle")
           /\ calls'[d] = [calls[d] EXCEPT !.company = @ \cup {calls'[c].op}]

\* A step begins a call, goes on with it or ends it, and leaves the others
\* alone.
LEMMA StepKinds ==
    ASSUME WalletTypeOK, CallFits,
           \A d \in Calls, w \in WalletIds : calls[d].writes[w] # NoRow => Exists(w),
           NEW c \in Calls, Step(c)
    PROVE  /\ WalletTypeOK'
           /\ Begins(c) \/ GoesOn(c) \/ IsOver(c)
           /\ RowsGoOn(c)
           /\ OthersGoOn(c)
<1>1. ASSUME NEW call \in Call, Begin(c, call), call.writes = NoWrites,
             call.wallet \in WalletIds,
             \/ /\ call.op = "create"
                /\ call.pc = IF call.primary THEN "clear" ELSE "put"
                /\ call.todo =
                      IF call.primary THEN {x \in WalletIds : IsPrimary(x)} ELSE {}
             \/ /\ call.op = "setPrimary" /\ call.pc = "clear"
                /\ call.todo = {x \in WalletIds : Exists(x)}
             \/ /\ call.op = "archive" /\ call.pc = "archive"
                /\ call.todo = {}
                /\ Exists(call.wallet)
                /\ call.primary = wallets[call.wallet].primary
      PROVE  WalletTypeOK' /\ Begins(c) /\ RowsGoOn(c) /\ OthersGoOn(c)
    <2>1. call.op \in Operations
        BY <1>1 DEF Operations
    <2>2. /\ wallets' = wallets
          /\ At(c, "idle")
          /\ calls' \in [Calls -> Call]
          /\ \E others \in SUBSET Operations :
               /\ calls'[c] = [call EXCEPT !.company = others]
               /\ \A d \in Calls \ {c} : ~At(d, "idle") => calls[d].op \in others
          /\ \A d \in Calls \ {c} :
               IF At(d, "idle") THEN calls'[d] = calls[d]
               ELSE calls'[d] = [calls[d] EXCEPT !.company = @ \cup {call.op}]
        BY <1>1, <2>1, Beginning
    <2>3. PICK others \in SUBSET Operations :
               /\ calls'[c] = [call EXCEPT !.company = others]
               /\ \A d \in Calls \ {c} : ~At(d, "idle") => calls[d].op \in others
        BY <2>2
    <2>4. /\ calls'[c].pc = call.pc /\ calls'[c].op = call.op
          /\ calls'[c].wallet = call.wallet /\ calls'[c].primary = call.primary
          /\ calls'[c].todo = call.todo /\ calls'[c].writes = call.writes
          /\ calls'[c].company = others
        BY <2>3 DEF Call
    <2>5. Begins(c)
        BY <1>1, <2>2, <2>3, <2>4 DEF Begins
    <2>6. OthersGoOn(c)
        BY <2>2, <2>4 DEF OthersGoOn
    <2>7. RowsGoOn(c)
        BY <2>2 DEF RowsGoOn, Exists
    <2> QED
        BY <2>2, <2>5, <2>6, <2>7 DEF WalletTypeOK
<1>2. ASSUME NEW call \in Call, calls' = [calls EXCEPT ![c] = call], wallets' = wallets,
             ~At(c, "idle")
      PROVE  /\ WalletTypeOK' /\ RowsGoOn(c) /\ OthersGoOn(c)
             /\ calls'[c] = call
    <2>1. calls' \in [Calls -> Call] /\ calls'[c] = call
          /\ \A d \in Calls \ {c} : calls'[d] = calls[d]
        BY <1>2 DEF WalletTypeOK
    <2>2. RowsGoOn(c)
        BY <1>2 DEF RowsGoOn, Exists
    <2>3. OthersGoOn(c)
        BY <1>2, <2>1 DEF OthersGoOn
    <2> QED
        BY <1>2, <2>1, <2>2, <2>3 DEF WalletTypeOK
<1>3. ASSUME ~At(c, "idle"),
             NEW last \in [WalletIds -> Wallet \cup {NoRow}], Commit(c, last),
             \A w \in WalletIds : last[w] # NoRow =>
                  /\ ~Locked(c, w)
                  /\ calls[c].op = "setPrimary" => Exists(w)
      PROVE  WalletTypeOK' /\ IsOver(c) /\ RowsGoOn(c) /\ OthersGoOn(c)
    <2>1. /\ wallets' \in [WalletIds -> Wallet \cup {NoRow}]
          /\ calls' \in [Calls -> Call]
          /\ calls'[c] = Idle
          /\ \A d \in Calls \ {c} : calls'[d] = calls[d]
          /\ \A w \in WalletIds :
                /\ last[w] # NoRow => wallets'[w] = last[w]
                /\ last[w] = NoRow /\ calls[c].writes[w] # NoRow
                        => wallets'[w] = calls[c].writes[w]
                /\ last[w] = NoRow /\ calls[c].writes[w] = NoRow
                        => wallets'[w] = wallets[w]
        BY <1>3, Committing
    <2>2. RowsGoOn(c)
        BY <1>3, <2>1 DEF RowsGoOn, Exists
    <2>3. OthersGoOn(c)
        BY <1>3, <2>1 DEF OthersGoOn
    <2>4. IsOver(c)
        BY <1>3, <2>1 DEF IsOver
    <2> QED
        BY <2>1, <2>2, <2>3, <2>4 DEF WalletTypeOK
<1>4. CASE \E w \in WalletIds, primary \in BOOLEAN : BeginCreate(c, w, primary)
    <2>1. PICK w \in WalletIds, primary \in BOOLEAN : BeginCreate(c, w, primary)
        BY <1>4
    <2>2. PICK call \in Call :
             /\ call.op = "create" /\ call.wallet = w /\ call.primary = primary
             /\ call.pc = (IF primary THEN "clear" ELSE "put")
             /\ call.todo = (IF primary THEN {x \in WalletIds : IsPrimary(x)} ELSE {})
             /\ call.writes = NoWrites
             /\ Begin(c, call)
        BY <2>1, BeginCreateIs
    <2>3. WalletTypeOK' /\ Begins(c) /\ RowsGoOn(c) /\ OthersGoOn(c)
        BY <1>1, <2>2
    <2> QED
        BY <2>3
<1>5. CASE \E w \in WalletIds : BeginSetPrimary(c, w)
    <2>1. PICK w \in WalletIds : BeginSetPrimary(c, w)
        BY <1>5
    <2>2. PICK call \in Call :
             /\ call.op = "setPrimary" /\ call.wallet = w /\ call.pc = "clear"
             /\ call.todo = {x \in WalletIds : Exists(x)}
             /\ call.writes = NoWrites
             /\ Begin(c, call)
        BY <2>1, BeginSetPrimaryIs
    <2>3. WalletTypeOK' /\ Begins(c) /\ RowsGoOn(c) /\ OthersGoOn(c)
        BY <1>1, <2>2
    <2> QED
        BY <2>3
<1>6. CASE \E w \in WalletIds : BeginArchive(c, w)
    <2>1. PICK w \in WalletIds : BeginArchive(c, w)
        BY <1>6
    <2>2. PICK call \in Call :
             /\ call.op = "archive" /\ call.wallet = w /\ call.pc = "archive"
             /\ call.primary = wallets[w].primary
             /\ call.todo = {}
             /\ call.writes = NoWrites
             /\ Begin(c, call)
        BY <2>1, BeginArchiveIs
    <2>3. Exists(w)
        BY <2>1, BeginArchiveIs
    <2>4. WalletTypeOK' /\ Begins(c) /\ RowsGoOn(c) /\ OthersGoOn(c)
        BY <1>1, <2>2, <2>3
    <2> QED
        BY <2>4
<1>c. calls[c] \in Call /\ calls[c].writes \in [WalletIds -> Wallet \cup {NoRow}]
      /\ \A w \in WalletIds : Exists(w) => wallets[w] \in Wallet
    BY DEF WalletTypeOK, Call, Exists
<1>7. CASE Clear(c)
    <2> DEFINE next == [w \in WalletIds |->
                IF w \in calls[c].todo /\ (calls[c].op = "setPrimary" \/ IsPrimary(w))
                THEN [wallets[w] EXCEPT !.primary = FALSE] ELSE NoRow]
               call == [calls[c] EXCEPT
                    !.pc = IF calls[c].op = "setPrimary" THEN "set" ELSE "put",
                    !.todo = {}, !.writes = next]
    <2>1. next \in [WalletIds -> Wallet \cup {NoRow}]
        BY <1>c, Updating DEF CallFits
    <2>2. call \in Call
        BY <1>c, <2>1 DEF Call
    <2>3. calls' = [calls EXCEPT ![c] = call] /\ wallets' = wallets /\ ~At(c, "idle")
        <3>1. calls' = [calls EXCEPT
                    ![c].pc = IF calls[c].op = "setPrimary" THEN "set" ELSE "put",
                    ![c].todo = {},
                    ![c].writes = [w \in WalletIds |->
                      IF w \in {x \in calls[c].todo : calls[c].op = "setPrimary" \/ IsPrimary(x)}
                      THEN [wallets[w] EXCEPT !.primary = FALSE] ELSE NoRow]]
            BY <1>7 DEF Clear
        <3>2. [w \in WalletIds |->
                      IF w \in {x \in calls[c].todo : calls[c].op = "setPrimary" \/ IsPrimary(x)}
                      THEN [wallets[w] EXCEPT !.primary = FALSE] ELSE NoRow] = next
            OBVIOUS
        <3>3. calls' = [calls EXCEPT
                    ![c].pc = IF calls[c].op = "setPrimary" THEN "set" ELSE "put",
                    ![c].todo = {}, ![c].writes = next]
            BY <3>1, <3>2
        <3> HIDE DEF next
        <3>4. calls' = [calls EXCEPT ![c] = call]
            BY <3>3 DEF WalletTypeOK
        <3> QED
            BY <1>7, <3>4 DEF Clear, At
    <2>4. WalletTypeOK' /\ RowsGoOn(c) /\ OthersGoOn(c) /\ calls'[c] = call
        BY <1>2, <2>2, <2>3
    <2>5. GoesOn(c)
        <3>1. /\ call.op = calls[c].op /\ call.wallet = calls[c].wallet
              /\ call.primary = calls[c].primary /\ call.company = calls[c].company
              /\ call.pc = IF calls[c].op = "setPrimary" THEN "set" ELSE "put"
              /\ call.todo = {} /\ call.writes = next
            BY <1>c DEF Call
        <3>2. \A w \in calls[c].todo : ~Locked(c, w)
            BY <1>7 DEF Clear
        <3> QED
            BY <1>7, <2>3, <2>4, <3>1, <3>2 DEF GoesOn, Clear
    <2> QED
        BY <2>4, <2>5
<1>8. CASE Archive(c) /\ calls[c].primary
    <2> DEFINE w == calls[c].wallet
               row == [wallets[w] EXCEPT !.live = FALSE, !.primary = FALSE]
               call == [calls[c] EXCEPT !.pc = "choose", !.writes[w] = row]
    <2>1. w \in WalletIds /\ IsLive(w) /\ ~Locked(c, w) /\ row \in Wallet
        BY <1>8, <1>c, Updating DEF Archive, CallFits, At, IsLive
    <2>2. call \in Call
        BY <1>c, <2>1 DEF Call
    <2>3. calls' = [calls EXCEPT ![c] = call] /\ wallets' = wallets /\ ~At(c, "idle")
        BY <1>8 DEF Archive, At, WalletTypeOK
    <2>4. WalletTypeOK' /\ RowsGoOn(c) /\ OthersGoOn(c) /\ calls'[c] = call
        BY <1>2, <2>2, <2>3
    <2>5. GoesOn(c)
        <3>1. /\ call.op = calls[c].op /\ call.wallet = w
              /\ call.primary = calls[c].primary /\ call.company = calls[c].company
              /\ call.pc = "choose" /\ call.todo = calls[c].todo
              /\ call.writes = [calls[c].writes EXCEPT ![w] = row]
            BY <1>c DEF Call
        <3>2. At(c, "archive")
            BY <1>8 DEF Archive
        <3> HIDE DEF call
        <3> QED
            BY <2>1, <2>3, <2>4, <3>1, <3>2 DEF GoesOn
    <2> QED
        BY <2>4, <2>5
<1>9. CASE Choose(c) /\ {w \in WalletIds : IsLive(w) /\ w # calls[c].wallet} # {}
    <2>1. \/ {w \in WalletIds : IsLive(w) /\ w # calls[c].wallet} = {}
          \/ \E w \in {w \in WalletIds : IsLive(w) /\ w # calls[c].wallet} :
               /\ calls' = [calls EXCEPT ![c].pc = "promote", ![c].todo = {w}]
               /\ UNCHANGED wallets
        BY <1>9 DEF Choose
    <2>2. PICK w \in WalletIds :
               /\ IsLive(w) /\ w # calls[c].wallet
               /\ calls' = [calls EXCEPT ![c].pc = "promote", ![c].todo = {w}]
               /\ wallets' = wallets
        BY <1>9, <2>1
    <2> DEFINE call == [calls[c] EXCEPT !.pc = "promote", !.todo = {w}]
    <2>3. call \in Call
        BY <1>c DEF Call
    <2>4. calls' = [calls EXCEPT ![c] = call] /\ ~At(c, "idle")
        BY <1>9, <2>2 DEF Choose, At, WalletTypeOK
    <2>5. WalletTypeOK' /\ RowsGoOn(c) /\ OthersGoOn(c) /\ calls'[c] = call
        BY <1>2, <2>2, <2>3, <2>4
    <2>6. GoesOn(c)
        <3>1. /\ call.op = calls[c].op /\ call.wallet = calls[c].wallet
              /\ call.primary = calls[c].primary /\ call.company = calls[c].company
              /\ call.pc = "promote" /\ call.todo = {w}
              /\ call.writes = calls[c].writes
            BY <1>c DEF Call
        <3>2. At(c, "choose")
            BY <1>9 DEF Choose
        <3> HIDE DEF call
        <3> QED
            BY <2>2, <2>5, <3>1, <3>2 DEF GoesOn
    <2> QED
        BY <2>5, <2>6
<1>10. CASE RollBack(c)
    <2>1. Idle \in Call
        BY DEF Idle, Call, NoWrites
    <2>2. calls' = [calls EXCEPT ![c] = Idle] /\ wallets' = wallets /\ ~At(c, "idle")
        BY <1>10 DEF RollBack
    <2>3. WalletTypeOK' /\ RowsGoOn(c) /\ OthersGoOn(c) /\ calls'[c] = Idle
        BY <1>2, <2>1, <2>2
    <2> QED
        BY <2>2, <2>3 DEF IsOver
<1>11. CASE \/ Put(c)
            \/ SetPrimary(c)
            \/ Archive(c) /\ ~calls[c].primary
            \/ Choose(c) /\ {w \in WalletIds : IsLive(w) /\ w # calls[c].wallet} = {}
            \/ Promote(c)
    <2>1. ~At(c, "idle")
        BY <1>11 DEF Put, SetPrimary, Archive, Choose, Promote, At
    <2> QED
        BY <1>3, <1>11, <2>1, LastStatement
<1> QED
    BY <1>4, <1>5, <1>6, <1>7, <1>8, <1>9, <1>10, <1>11 DEF Step

-------------------------------------------------------------------------------
(* What a transaction under way knows.                                     *)

\* What it has written it made of the committed row, which exists.
WritesFit ==
    \A c \in Calls, w \in WalletIds :
        calls[c].writes[w] # NoRow =>
            /\ calls[c].pc \in {"put", "set", "choose", "promote"}
            /\ Exists(w)
            /\ calls[c].pc \in {"put", "set"} =>
                    calls[c].writes[w] = [wallets[w] EXCEPT !.primary = FALSE]
            /\ calls[c].pc \in {"choose", "promote"} =>
                    w = calls[c].wallet /\ ~calls[c].writes[w].live

LocksAreExclusive ==
    \A c \in Calls : \A d \in Calls \ {c}, w \in WalletIds :
        calls[c].writes[w] = NoRow \/ calls[d].writes[w] = NoRow

\* Calls under way together are each other's company.
CompanyIsKnown ==
    \A c \in Calls : \A d \in Calls \ {c} :
        ~At(c, "idle") /\ ~At(d, "idle") => calls[d].op \in calls[c].company

\* setPrimary that has met nothing but setPrimary clears every row.
ClearsAll ==
    \A c \in Calls :
        calls[c].op = "setPrimary" /\ calls[c].company \subseteq {"setPrimary"} =>
            /\ At(c, "clear") => \A w \in WalletIds : Exists(w) => w \in calls[c].todo
            /\ At(c, "set") => \A w \in WalletIds : Exists(w) => calls[c].writes[w] # NoRow

\* A creation alone clears every primary wallet.
CreateAlone ==
    \A c \in Calls :
        calls[c].op = "create" /\ calls[c].primary /\ calls[c].company = {} =>
            /\ At(c, "clear") => \A w \in WalletIds : IsPrimary(w) => w \in calls[c].todo
            /\ At(c, "put") => \A w \in WalletIds : IsPrimary(w) => calls[c].writes[w] # NoRow

\* An archiving has written its wallet before it looks for another one; alone, it
\* knows whether its wallet is primary, and that the other one is live.
ArchiveAlone ==
    \A c \in Calls :
        /\ calls[c].pc \in {"choose", "promote"} => calls[c].writes[calls[c].wallet] # NoRow
        /\ At(c, "promote") => calls[c].wallet \notin calls[c].todo
        /\ calls[c].company = {} =>
            /\ At(c, "archive") => calls[c].primary = wallets[calls[c].wallet].primary
            /\ At(c, "promote") => \A w \in calls[c].todo : IsLive(w)

WInv == /\ WalletTypeOK /\ CallFits
        /\ WritesFit /\ LocksAreExclusive /\ CompanyIsKnown
        /\ ClearsAll /\ CreateAlone /\ ArchiveAlone

\* The invariant holds before any call.
LEMMA InvInit == WalletInit => WInv
<1> SUFFICES ASSUME WalletInit
             PROVE  WInv
    OBVIOUS
<1>1. WalletTypeOK /\ CallFits
    BY CallInit
<1>2. \A c \in Calls : /\ calls[c].pc = "idle" /\ calls[c].op = "none"
                       /\ \A w \in WalletIds : calls[c].writes[w] = NoRow
    BY DEF WalletInit, Idle, NoWrites
<1>3. WritesFit /\ LocksAreExclusive
    BY <1>2 DEF WritesFit, LocksAreExclusive
<1>4. CompanyIsKnown /\ ClearsAll /\ CreateAlone /\ ArchiveAlone
    BY <1>2 DEF CompanyIsKnown, ClearsAll, CreateAlone, ArchiveAlone, At
<1> QED
    BY <1>1, <1>3, <1>4 DEF WInv

\* StepKinds under the invariant.
LEMMA StepOf ==
    ASSUME WInv, NEW c \in Calls, Step(c)
    PROVE  /\ WalletTypeOK'
           /\ Begins(c) \/ GoesOn(c) \/ IsOver(c)
           /\ RowsGoOn(c)
           /\ OthersGoOn(c)
<1>1. \A d \in Calls, w \in WalletIds : calls[d].writes[w] # NoRow => Exists(w)
    BY DEF WInv, WritesFit
<1> QED
    BY <1>1, StepKinds DEF WInv

\* The fields of an idle call.
LEMMA IdleFields ==
    /\ Idle.pc = "idle" /\ Idle.op = "none" /\ Idle.todo = {}
    /\ \A w \in WalletIds : Idle.writes[w] = NoRow
    BY DEF Idle, NoWrites

\* Of another call only the company may change, and never without c's operation.
LEMMA OtherFields ==
    ASSUME WInv, NEW c \in Calls, Step(c), NEW d \in Calls \ {c}
    PROVE  /\ calls'[d].pc = calls[d].pc /\ calls'[d].op = calls[d].op
           /\ calls'[d].wallet = calls[d].wallet /\ calls'[d].primary = calls[d].primary
           /\ calls'[d].todo = calls[d].todo /\ calls'[d].writes = calls[d].writes
           /\ calls[d].company \subseteq calls'[d].company
           /\ ~At(d, "idle") =>
                \/ At(c, "idle") /\ wallets' = wallets /\ calls'[c].op \in calls'[d].company
                \/ ~At(c, "idle") /\ calls[c].op \in calls'[d].company
<1>1. OthersGoOn(c)
    BY StepOf
<1>2. calls[d] \in Call
    BY DEF WInv, WalletTypeOK
<1>3. CASE calls'[d] = calls[d] /\ (At(c, "idle") => At(d, "idle"))
    BY <1>3 DEF WInv, CompanyIsKnown
<1>4. CASE /\ At(c, "idle") /\ ~At(d, "idle")
           /\ calls'[d] = [calls[d] EXCEPT !.company = @ \cup {calls'[c].op}]
    <2>1. /\ calls'[d].pc = calls[d].pc /\ calls'[d].op = calls[d].op
          /\ calls'[d].wallet = calls[d].wallet /\ calls'[d].primary = calls[d].primary
          /\ calls'[d].todo = calls[d].todo /\ calls'[d].writes = calls[d].writes
          /\ calls'[d].company = calls[d].company \cup {calls'[c].op}
        BY <1>2, <1>4 DEF Call
    <2>2. wallets' = wallets
        BY <1>4, StepOf DEF Begins, GoesOn, IsOver, At
    <2> QED
        BY <1>4, <2>1, <2>2
<1> QED
    BY <1>1, <1>3, <1>4 DEF OthersGoOn

\* A step keeps the records of calls as they should be.
LEMMA CallFitsStep ==
    ASSUME WInv, NEW c \in Calls, Step(c)
    PROVE  CallFits'
<1>1. \A w \in WalletIds : Exists(w) => Exists(w)'
    BY StepOf DEF RowsGoOn
<1>2. ASSUME NEW d \in Calls \ {c}
      PROVE  /\ calls'[d].pc = "idle" => calls'[d] = Idle
             /\ calls'[d].pc # "idle" => calls'[d].op \in Operations /\ calls'[d].wallet \in WalletIds
             /\ calls'[d].pc = "clear" => calls'[d].op \in {"create", "setPrimary"}
             /\ calls'[d].pc = "put" => calls'[d].op = "create"
             /\ calls'[d].pc = "set" => calls'[d].op = "setPrimary"
             /\ calls'[d].pc \in {"archive", "choose", "promote"} => calls'[d].op = "archive"
             /\ \A w \in calls'[d].todo : Exists(w)'
    <2>1. OthersGoOn(c)
        BY StepOf
    <2>2. calls[d].todo \subseteq WalletIds
        BY DEF WInv, WalletTypeOK, Call
    <2>3. \/ calls'[d] = calls[d]
          \/ ~At(d, "idle")
        BY <2>1 DEF OthersGoOn
    <2> QED
        BY <1>1, <2>2, <2>3, OtherFields DEF WInv, CallFits, At
<1>3. /\ calls'[c].pc = "idle" => calls'[c] = Idle
      /\ calls'[c].pc # "idle" => calls'[c].op \in Operations /\ calls'[c].wallet \in WalletIds
      /\ calls'[c].pc = "clear" => calls'[c].op \in {"create", "setPrimary"}
      /\ calls'[c].pc = "put" => calls'[c].op = "create"
      /\ calls'[c].pc = "set" => calls'[c].op = "setPrimary"
      /\ calls'[c].pc \in {"archive", "choose", "promote"} => calls'[c].op = "archive"
      /\ \A w \in calls'[c].todo : Exists(w)'
    <2>1. CASE Begins(c)
        <3>1. \A w \in calls'[c].todo : w \in WalletIds /\ Exists(w)
            BY <2>1 DEF Begins, IsPrimary, IsLive
        <3> QED
            BY <1>1, <2>1, <3>1 DEF Begins, Operations
    <2>2. CASE GoesOn(c)
        <3>1. \A w \in calls'[c].todo : w \in WalletIds /\ Exists(w)
            BY <2>2 DEF GoesOn, IsLive, WInv, CallFits, WalletTypeOK, Call
        <3>2. ~At(c, "idle")
            BY <2>2 DEF GoesOn, At
        <3> QED
            BY <1>1, <2>2, <3>1, <3>2 DEF GoesOn, WInv, CallFits, At
    <2>3. CASE IsOver(c)
        BY <2>3, IdleFields DEF IsOver
    <2> QED
        BY <2>1, <2>2, <2>3, StepOf
<1> QED
    BY <1>2, <1>3 DEF CallFits, At

\* What c may hold after its step, it held before or nobody else does.
LEMMA OwnWrites ==
    ASSUME WInv, NEW c \in Calls, Step(c), NEW w \in WalletIds, calls'[c].writes[w] # NoRow
    PROVE  calls[c].writes[w] # NoRow \/ ~Locked(c, w)
<1>1. CASE Begins(c)
    BY <1>1 DEF Begins, NoWrites
<1>2. CASE GoesOn(c)
    <2>1. CASE At(c, "clear")
        <3>1. /\ \A x \in calls[c].todo : ~Locked(c, x)
              /\ calls'[c].writes = [x \in WalletIds |->
                    IF x \in calls[c].todo /\ (calls[c].op = "setPrimary" \/ IsPrimary(x))
                    THEN [wallets[x] EXCEPT !.primary = FALSE] ELSE NoRow]
            BY <1>2, <2>1 DEF GoesOn, At
        <3> QED
            BY <3>1
    <2>2. CASE At(c, "archive")
        <3>1. /\ ~Locked(c, calls[c].wallet)
              /\ calls'[c].writes = [calls[c].writes EXCEPT ![calls[c].wallet] =
                    [wallets[calls[c].wallet] EXCEPT !.live = FALSE, !.primary = FALSE]]
            BY <1>2, <2>2 DEF GoesOn, At
        <3>2. calls[c].writes \in [WalletIds -> Wallet \cup {NoRow}]
            BY DEF WInv, WalletTypeOK, Call
        <3> QED
            BY <3>1, <3>2
    <2>3. CASE At(c, "choose")
        BY <1>2, <2>3 DEF GoesOn, At
    <2> QED
        BY <1>2, <2>1, <2>2, <2>3 DEF GoesOn
<1>3. CASE IsOver(c)
    BY <1>3, IdleFields DEF IsOver
<1> QED
    BY <1>1, <1>2, <1>3, StepOf

\* A step takes no lock that another call has.
LEMMA LocksStep ==
    ASSUME WInv, NEW c \in Calls, Step(c)
    PROVE  LocksAreExclusive'
<1>1. ASSUME NEW d \in Calls \ {c}, NEW w \in WalletIds, calls'[c].writes[w] # NoRow
      PROVE  calls'[d].writes[w] = NoRow
    <2>1. calls'[d].writes = calls[d].writes
        BY OtherFields
    <2> QED
        BY <1>1, <2>1, OwnWrites DEF WInv, LocksAreExclusive, Locked
<1>2. ASSUME NEW d \in Calls \ {c}, NEW e \in Calls \ {c, d}, NEW w \in WalletIds
      PROVE  calls'[d].writes[w] = NoRow \/ calls'[e].writes[w] = NoRow
    BY OtherFields DEF WInv, LocksAreExclusive
<1> QED
    BY <1>1, <1>2 DEF LocksAreExclusive

\* Calls that are under way together stay in each other's company.
LEMMA CompanyStep ==
    ASSUME WInv, NEW c \in Calls, Step(c)
    PROVE  CompanyIsKnown'
<1>1. ASSUME NEW d \in Calls \ {c}, calls'[c].pc # "idle", calls'[d].pc # "idle"
      PROVE  calls'[d].op \in calls'[c].company /\ calls'[c].op \in calls'[d].company
    <2>1. ~At(d, "idle") /\ calls'[d].op = calls[d].op
        BY <1>1, OtherFields DEF At
    <2>2. CASE Begins(c)
        BY <2>1, <2>2, OtherFields DEF Begins
    <2>3. CASE GoesOn(c)
        <3>1. ~At(c, "idle") /\ calls'[c].op = calls[c].op
              /\ calls'[c].company = calls[c].company
            BY <2>3 DEF GoesOn, At
        <3> QED
            BY <2>1, <3>1, OtherFields DEF WInv, CompanyIsKnown
    <2>4. CASE IsOver(c)
        BY <1>1, <2>4, IdleFields DEF IsOver
    <2> QED
        BY <2>2, <2>3, <2>4, StepOf
<1>2. ASSUME NEW d \in Calls \ {c}, NEW e \in Calls \ {c, d},
             calls'[d].pc # "idle", calls'[e].pc # "idle"
      PROVE  calls'[e].op \in calls'[d].company
    <2>1. calls[e].op \in calls[d].company
        BY <1>2, OtherFields DEF WInv, CompanyIsKnown, At
    <2> QED
        BY <2>1, OtherFields
<1> QED
    BY <1>1, <1>2 DEF CompanyIsKnown, At

\* What a call has written stays made from the committed row.
LEMMA WritesStep ==
    ASSUME WInv, NEW c \in Calls, Step(c)
    PROVE  WritesFit'
<1>1. \A w \in WalletIds : Exists(w) => Exists(w)'
    BY StepOf DEF RowsGoOn
<1>2. ASSUME NEW d \in Calls \ {c}, NEW w \in WalletIds, calls'[d].writes[w] # NoRow
      PROVE  /\ calls'[d].pc \in {"put", "set", "choose", "promote"}
             /\ Exists(w)'
             /\ calls'[d].pc \in {"put", "set"} =>
                     calls'[d].writes[w] = [wallets'[w] EXCEPT !.primary = FALSE]
             /\ calls'[d].pc \in {"choose", "promote"} =>
                     w = calls'[d].wallet /\ ~calls'[d].writes[w].live
    <2>1. calls[d].writes[w] # NoRow
        BY <1>2, OtherFields
    <2>2. calls[c].writes[w] = NoRow /\ Locked(c, w)
        BY <2>1 DEF WInv, LocksAreExclusive, Locked
    <2>3. wallets'[w] = wallets[w]
        BY <2>2, StepOf DEF RowsGoOn
    <2>4. /\ calls[d].pc \in {"put", "set", "choose", "promote"}
          /\ Exists(w)
          /\ calls[d].pc \in {"put", "set"} =>
                  calls[d].writes[w] = [wallets[w] EXCEPT !.primary = FALSE]
          /\ calls[d].pc \in {"choose", "promote"} =>
                  w = calls[d].wallet /\ ~calls[d].writes[w].live
        BY <2>1 DEF WInv, WritesFit
    <2> QED
        BY <1>1, <2>3, <2>4, OtherFields
<1>3. ASSUME NEW w \in WalletIds, calls'[c].writes[w] # NoRow
      PROVE  /\ calls'[c].pc \in {"put", "set", "choose", "promote"}
             /\ Exists(w)'
             /\ calls'[c].pc \in {"put", "set"} =>
                     calls'[c].writes[w] = [wallets'[w] EXCEPT !.primary = FALSE]
             /\ calls'[c].pc \in {"choose", "promote"} =>
                     w = calls'[c].wallet /\ ~calls'[c].writes[w].live
    <2>1. CASE Begins(c)
        BY <1>3, <2>1 DEF Begins, NoWrites
    <2>2. CASE IsOver(c)
        BY <1>3, <2>2, IdleFields DEF IsOver
    <2>3. CASE GoesOn(c)
        <3>1. CASE At(c, "clear")
            <4>1. /\ wallets' = wallets
                  /\ calls'[c].pc \in {"put", "set"}
                  /\ calls'[c].writes = [x \in WalletIds |->
                        IF x \in calls[c].todo /\ (calls[c].op = "setPrimary" \/ IsPrimary(x))
                        THEN [wallets[x] EXCEPT !.primary = FALSE] ELSE NoRow]
                BY <2>3, <3>1 DEF GoesOn, At
            <4>2. w \in calls[c].todo /\ calls'[c].writes[w] = [wallets[w] EXCEPT !.primary = FALSE]
                BY <1>3, <4>1
            <4>3. Exists(w)
                BY <4>2 DEF WInv, CallFits
            <4> QED
                BY <1>1, <4>1, <4>2, <4>3
        <3>2. CASE At(c, "archive")
            <4> DEFINE v == calls[c].wallet
            <4>1. /\ wallets' = wallets /\ calls'[c].pc = "choose" /\ IsLive(v)
                  /\ calls'[c].wallet = v
                  /\ calls'[c].writes = [calls[c].writes EXCEPT ![v] =
                        [wallets[v] EXCEPT !.live = FALSE, !.primary = FALSE]]
                BY <2>3, <3>2 DEF GoesOn, At
            <4>2. calls[c].writes \in [WalletIds -> Wallet \cup {NoRow}] /\ v \in WalletIds
                BY <3>2 DEF WInv, WalletTypeOK, Call, CallFits, At
            <4>3. calls[c].writes[w] = NoRow
                BY <3>2 DEF WInv, WritesFit, At
            <4>4. w = v
                BY <1>3, <4>1, <4>2, <4>3
            <4>5. wallets[v] \in Wallet
                BY <4>1, <4>2 DEF IsLive, Exists, WInv, WalletTypeOK
            <4>6. ~[wallets[v] EXCEPT !.live = FALSE, !.primary = FALSE].live
                BY <4>5 DEF Wallet
            <4>7. Exists(v)'
                BY <1>1, <4>1, <4>2 DEF IsLive
            <4> QED
                BY <4>1, <4>2, <4>4, <4>6, <4>7
        <3>3. CASE At(c, "choose")
            <4>1. calls'[c].pc = "promote" /\ calls'[c].writes = calls[c].writes
                  /\ calls'[c].wallet = calls[c].wallet
                BY <2>3, <3>3 DEF GoesOn, At
            <4> QED
                BY <1>1, <1>3, <3>3, <4>1 DEF WInv, WritesFit, At
        <3> QED
            BY <2>3, <3>1, <3>2, <3>3 DEF GoesOn
    <2> QED
        BY <2>1, <2>2, <2>3, StepOf
<1> QED
    BY <1>2, <1>3 DEF WritesFit

\* What a choice has left to clear, and what it cleared, stays all there is.
LEMMA ClearsAllStep ==
    ASSUME WInv, NEW c \in Calls, Step(c)
    PROVE  ClearsAll'
<1>1. ASSUME NEW d \in Calls \ {c},
             calls'[d].op = "setPrimary", calls'[d].company \subseteq {"setPrimary"}
      PROVE  /\ calls'[d].pc = "clear" => \A w \in WalletIds : Exists(w)' => w \in calls'[d].todo
             /\ calls'[d].pc = "set" => \A w \in WalletIds : Exists(w)' => calls'[d].writes[w] # NoRow
    <2>1. calls[d].op = "setPrimary" /\ calls[d].company \subseteq {"setPrimary"}
        BY <1>1, OtherFields
    <2>2. ~At(d, "idle")
        BY <2>1, IdleFields DEF WInv, CallFits
    <2>3. \A w \in WalletIds : Exists(w)' => Exists(w)
        <3>1. CASE At(c, "idle")
            BY <2>2, <3>1, OtherFields DEF Exists
        <3>2. CASE ~At(c, "idle")
            BY <1>1, <2>2, <3>2, OtherFields, StepOf DEF RowsGoOn
        <3> QED
            BY <3>1, <3>2
    <2> QED
        BY <2>1, <2>3, OtherFields DEF WInv, ClearsAll, At
<1>2. ASSUME calls'[c].op = "setPrimary", calls'[c].company \subseteq {"setPrimary"}
      PROVE  /\ calls'[c].pc = "clear" => \A w \in WalletIds : Exists(w)' => w \in calls'[c].todo
             /\ calls'[c].pc = "set" => \A w \in WalletIds : Exists(w)' => calls'[c].writes[w] # NoRow
    <2>1. CASE Begins(c)
        BY <1>2, <2>1 DEF Begins, Exists
    <2>2. CASE IsOver(c)
        BY <1>2, <2>2, IdleFields DEF IsOver
    <2>3. CASE GoesOn(c)
        <3>1. CASE At(c, "clear")
            <4>1. /\ calls[c].op = "setPrimary" /\ calls[c].company \subseteq {"setPrimary"}
                  /\ wallets' = wallets
                  /\ calls'[c].pc = "set"
                  /\ calls'[c].writes = [x \in WalletIds |->
                        IF x \in calls[c].todo /\ (calls[c].op = "setPrimary" \/ IsPrimary(x))
                        THEN [wallets[x] EXCEPT !.primary = FALSE] ELSE NoRow]
                BY <1>2, <2>3, <3>1 DEF GoesOn, At
            <4>2. ASSUME NEW w \in WalletIds, Exists(w)
                  PROVE  calls'[c].writes[w] # NoRow
                <5>1. w \in calls[c].todo
                    BY <3>1, <4>1, <4>2 DEF WInv, ClearsAll
                <5>2. [wallets[w] EXCEPT !.primary = FALSE] \in Wallet
                    BY <4>2, Updating DEF WInv, WalletTypeOK, Exists
                <5> QED
                    BY <4>1, <5>1, <5>2, NullAssumption
            <4> QED
                BY <4>1, <4>2 DEF Exists
        <3>2. CASE At(c, "archive") \/ At(c, "choose")
            BY <1>2, <2>3, <3>2 DEF GoesOn, At
        <3> QED
            BY <2>3, <3>1, <3>2 DEF GoesOn
    <2> QED
        BY <2>1, <2>2, <2>3, StepOf
<1> QED
    BY <1>1, <1>2 DEF ClearsAll, At

\* A creation without company stays the only call that writes.
LEMMA CreateAloneStep ==
    ASSUME WInv, NEW c \in Calls, Step(c)
    PROVE  CreateAlone'
<1>1. ASSUME NEW d \in Calls \ {c}, calls'[d].op = "create"
      PROVE  calls'[d].company # {}
    <2>1. ~At(d, "idle")
        BY <1>1, OtherFields, IdleFields DEF WInv, CallFits
    <2> QED
        BY <2>1, OtherFields
<1>2. ASSUME calls'[c].op = "create", calls'[c].primary, calls'[c].company = {}
      PROVE  /\ calls'[c].pc = "clear" => \A w \in WalletIds : IsPrimary(w)' => w \in calls'[c].todo
             /\ calls'[c].pc = "put" => \A w \in WalletIds : IsPrimary(w)' => calls'[c].writes[w] # NoRow
    <2>1. CASE Begins(c)
        <3>1. /\ wallets' = wallets /\ calls'[c].pc = "clear"
              /\ calls'[c].todo = {x \in WalletIds : IsPrimary(x)}
            BY <1>2, <2>1 DEF Begins
        <3>2. \A w \in WalletIds : IsPrimary(w)' <=> IsPrimary(w)
            BY <3>1 DEF IsPrimary, IsLive, Exists
        <3> QED
            BY <3>1, <3>2
    <2>2. CASE IsOver(c)
        BY <1>2, <2>2, IdleFields DEF IsOver
    <2>3. CASE GoesOn(c)
        <3>1. CASE At(c, "clear")
            <4>1. /\ calls[c].op = "create" /\ calls[c].primary /\ calls[c].company = {}
                  /\ wallets' = wallets
                  /\ calls'[c].pc = "put"
                  /\ calls'[c].writes = [x \in WalletIds |->
                        IF x \in calls[c].todo /\ (calls[c].op = "setPrimary" \/ IsPrimary(x))
                        THEN [wallets[x] EXCEPT !.primary = FALSE] ELSE NoRow]
                BY <1>2, <2>3, <3>1 DEF GoesOn, At
            <4>2. ASSUME NEW w \in WalletIds, IsPrimary(w)
                  PROVE  calls'[c].writes[w] # NoRow
                <5>1. w \in calls[c].todo
                    BY <3>1, <4>1, <4>2 DEF WInv, CreateAlone
                <5>2. [wallets[w] EXCEPT !.primary = FALSE] \in Wallet
                    BY <4>2, Updating DEF WInv, WalletTypeOK, IsPrimary, IsLive, Exists
                <5> QED
                    BY <4>1, <4>2, <5>1, <5>2, NullAssumption
            <4> QED
                BY <4>1, <4>2 DEF IsPrimary, IsLive, Exists
        <3>2. CASE At(c, "archive") \/ At(c, "choose")
            BY <1>2, <2>3, <3>2 DEF GoesOn, At
        <3> QED
            BY <2>3, <3>1, <3>2 DEF GoesOn
    <2> QED
        BY <2>1, <2>2, <2>3, StepOf
<1> QED
    BY <1>1, <1>2 DEF CreateAlone, At

\* An archiving without company stays the only call that writes.
LEMMA ArchiveAloneStep ==
    ASSUME WInv, NEW c \in Calls, Step(c)
    PROVE  ArchiveAlone'
<1>1. ASSUME NEW d \in Calls \ {c}
      PROVE  /\ calls'[d].pc \in {"choose", "promote"} => calls'[d].writes[calls'[d].wallet] # NoRow
             /\ calls'[d].pc = "promote" => calls'[d].wallet \notin calls'[d].todo
             /\ calls'[d].pc # "idle" => calls'[d].company # {}
    BY OtherFields DEF WInv, ArchiveAlone, At
<1>2. /\ calls'[c].pc \in {"choose", "promote"} => calls'[c].writes[calls'[c].wallet] # NoRow
      /\ calls'[c].pc = "promote" => calls'[c].wallet \notin calls'[c].todo
      /\ calls'[c].company = {} =>
            /\ calls'[c].pc = "archive" => calls'[c].primary = wallets'[calls'[c].wallet].primary
            /\ calls'[c].pc = "promote" => \A w \in calls'[c].todo : IsLive(w)'
    <2>1. CASE Begins(c)
        BY <2>1 DEF Begins
    <2>2. CASE IsOver(c)
        BY <2>2, IdleFields DEF IsOver
    <2>3. CASE GoesOn(c)
        <3>1. CASE At(c, "clear")
            BY <2>3, <3>1 DEF GoesOn, At
        <3>2. CASE At(c, "archive")
            <4> DEFINE v == calls[c].wallet
            <4>1. /\ calls'[c].pc = "choose" /\ IsLive(v)
                  /\ calls'[c].wallet = v
                  /\ calls'[c].writes = [calls[c].writes EXCEPT ![v] =
                        [wallets[v] EXCEPT !.live = FALSE, !.primary = FALSE]]
                BY <2>3, <3>2 DEF GoesOn, At
            <4>2. calls[c].writes \in [WalletIds -> Wallet \cup {NoRow}] /\ v \in WalletIds
                BY <3>2 DEF WInv, WalletTypeOK, Call, CallFits, At
            <4>3. [wallets[v] EXCEPT !.live = FALSE, !.primary = FALSE] \in Wallet
                BY <4>1, <4>2, Updating DEF IsLive, Exists, WInv, WalletTypeOK
            <4> QED
                BY <4>1, <4>2, <4>3, NullAssumption
        <3>3. CASE At(c, "choose")
            <4>1. /\ wallets' = wallets
                  /\ calls'[c].pc = "promote" /\ calls'[c].writes = calls[c].writes
                  /\ calls'[c].wallet = calls[c].wallet
                  /\ \E w \in WalletIds : /\ IsLive(w) /\ w # calls[c].wallet
                                          /\ calls'[c].todo = {w}
                BY <2>3, <3>3 DEF GoesOn, At
            <4>2. calls[c].writes[calls[c].wallet] # NoRow
                BY <3>3 DEF WInv, ArchiveAlone, At
            <4>3. \A w \in WalletIds : IsLive(w)' <=> IsLive(w)
                BY <4>1 DEF IsLive, Exists
            <4> QED
                BY <4>1, <4>2, <4>3
        <3> QED
            BY <2>3, <3>1, <3>2, <3>3 DEF GoesOn
    <2> QED
        BY <2>1, <2>2, <2>3, StepOf
<1> QED
    BY <1>1, <1>2 DEF ArchiveAlone, At

\* Every step of a call keeps the invariant.
LEMMA InvStep ==
    ASSUME WInv, NEW c \in Calls, Step(c)
    PROVE  WInv'
    BY StepOf, CallFitsStep, WritesStep, LocksStep, CompanyStep, ClearsAllStep,
       CreateAloneStep, ArchiveAloneStep DEF WInv

\* So does a step that is not one of wallets.
LEMMA InvStutter == WInv /\ UNCHANGED wvars => WInv'
<1> SUFFICES ASSUME WInv, UNCHANGED wvars
             PROVE  WInv'
    OBVIOUS
<1> USE DEF wvars
<1>1. WalletTypeOK' /\ CallFits'
    BY DEF WInv, WalletTypeOK, CallFits, At, Exists
<1>2. WritesFit' /\ LocksAreExclusive' /\ CompanyIsKnown'
    BY DEF WInv, WritesFit, LocksAreExclusive, CompanyIsKnown, At, Exists
<1>3. ClearsAll' /\ CreateAlone'
    BY DEF WInv, ClearsAll, CreateAlone, At, Exists, IsPrimary, IsLive
<1>4. ArchiveAlone'
    BY DEF WInv, ArchiveAlone, At, Exists, IsLive
<1> QED
    BY <1>1, <1>2, <1>3, <1>4 DEF WInv

\* A step of wallets is one of a call.
LEMMA NextIsStep == WalletNext => \E c \in Calls : Step(c)
    BY DEF WalletNext, Step

\* A step of Intents is one of the wallets or leaves them alone.
LEMMA IntentsOverWallets == [Next]_vars => (\E c \in Calls : Step(c)) \/ UNCHANGED wvars
    BY NextIsStep DEF Next, WalletStep, IntentStep, ChangeBudget, vars, wvars

-------------------------------------------------------------------------------
(* One primary wallet.                                                     *)

\* A call that ends and shows what it wrote commits its last statement.
LEMMA WritersCommit ==
    ASSUME WInv, NEW c \in Calls, NEW d \in Calls, Step(d), Writes(c)
    PROVE  /\ d = c
           /\ Put(c) \/ SetPrimary(c) \/ Archive(c) \/ Choose(c) \/ Promote(c)
<1>1. d = c
    BY OtherFields DEF Writes, At
<1>2. ~At(c, "idle") /\ wallets' # wallets
    BY DEF Writes
<1>3. ~(\E w \in WalletIds, primary \in BOOLEAN : BeginCreate(c, w, primary))
    BY <1>2 DEF BeginCreate, Begin
<1>4. ~(\E w \in WalletIds : BeginSetPrimary(c, w) \/ BeginArchive(c, w))
    BY <1>2 DEF BeginSetPrimary, BeginArchive, Begin
<1>5. ~Clear(c) /\ ~RollBack(c)
    BY <1>2 DEF Clear, RollBack
<1> QED
    BY <1>1, <1>3, <1>4, <1>5 DEF Step

\* When a choice in harmless company is committed, its wallet is the only
\* primary one.
LEMMA ChoiceStep ==
    ASSUME WInv, NEW c \in Calls, NEW d \in Calls, Step(d), Writes(c),
           \/ /\ calls[c].op = "setPrimary"
              /\ IsLive(calls[c].wallet)
              /\ calls[c].company \subseteq {"setPrimary"}
           \/ /\ calls[c].op = "create" /\ calls[c].primary
              /\ calls[c].company = {},
           NEW x \in WalletIds
    PROVE  IsPrimary(x)' <=> x = calls[c].wallet
<1> DEFINE w == calls[c].wallet
<1>1. ~At(c, "idle") /\ w \in WalletIds
    BY DEF Writes, WInv, CallFits
<1>2. \A v \in WalletIds : /\ wallets[v] \in Wallet \cup {NoRow}
                           /\ calls[c].writes[v] \in Wallet \cup {NoRow}
    BY DEF WInv, WalletTypeOK, Call
<1>3. Put(c) \/ SetPrimary(c)
    <2>1. calls[c].op # "archive"
        OBVIOUS
    <2>2. ~Archive(c) /\ ~Choose(c) /\ ~Promote(c)
        BY <2>1 DEF WInv, CallFits, Archive, Choose, Promote, At
    <2> QED
        BY <2>2, WritersCommit
<1>4. \A row \in Wallet : ~[row EXCEPT !.primary = FALSE].primary
    BY DEF Wallet
<1>5. ASSUME NEW row \in Wallet, row.live, row.primary,
             Commit(c, [NoWrites EXCEPT ![w] = row]),
             x # w /\ calls[c].writes[x] # NoRow
                => calls[c].writes[x] = [wallets[x] EXCEPT !.primary = FALSE] /\ Exists(x),
             x # w /\ IsPrimary(x) => calls[c].writes[x] # NoRow
      PROVE  IsPrimary(x)' <=> x = w
    <2> DEFINE last == [NoWrites EXCEPT ![w] = row]
    <2>1. last \in [WalletIds -> Wallet \cup {NoRow}] /\ last[w] = row
          /\ \A v \in WalletIds : v # w => last[v] = NoRow
        BY <1>1 DEF NoWrites
    <2>c. Commit(c, last)
        BY <1>5
    <2> HIDE DEF last
    <2>2. /\ last[x] # NoRow => wallets'[x] = last[x]
          /\ last[x] = NoRow /\ calls[c].writes[x] # NoRow
                  => wallets'[x] = calls[c].writes[x]
          /\ last[x] = NoRow /\ calls[c].writes[x] = NoRow
                  => wallets'[x] = wallets[x]
        BY <2>1, <2>c, Committing DEF WInv
    <2>3. CASE x = w
        BY <1>5, <2>1, <2>2, <2>3, NullAssumption DEF IsPrimary, IsLive, Exists
    <2>4. CASE x # w /\ calls[c].writes[x] # NoRow
        <3>1. wallets'[x] = [wallets[x] EXCEPT !.primary = FALSE] /\ wallets[x] \in Wallet
            BY <1>2, <1>5, <2>1, <2>2, <2>4 DEF Exists
        <3> QED
            BY <1>4, <2>4, <3>1 DEF IsPrimary
    <2>5. CASE x # w /\ calls[c].writes[x] = NoRow
        <3>1. wallets'[x] = wallets[x] /\ ~IsPrimary(x)
            BY <1>5, <2>1, <2>2, <2>5
        <3> QED
            BY <2>5, <3>1 DEF IsPrimary, IsLive, Exists
    <2> QED
        BY <2>3, <2>4, <2>5
<1>6. CASE Put(c)
    <2> DEFINE row == [live |-> TRUE, primary |-> calls[c].primary, executable |-> FALSE]
    <2>1. calls[c].op = "create" /\ calls[c].primary /\ calls[c].company = {} /\ At(c, "put")
        BY <1>6 DEF Put, WInv, CallFits
    <2>2. row \in Wallet /\ row.live /\ row.primary
        BY <2>1 DEF Wallet
    <2>3. Commit(c, [NoWrites EXCEPT ![w] = row])
        BY <1>6 DEF Put
    <2>4. calls[c].writes[x] # NoRow
                => calls[c].writes[x] = [wallets[x] EXCEPT !.primary = FALSE] /\ Exists(x)
        BY <2>1 DEF WInv, WritesFit, At
    <2>5. IsPrimary(x) => calls[c].writes[x] # NoRow
        BY <2>1 DEF WInv, CreateAlone
    <2> QED
        BY <1>5, <2>2, <2>3, <2>4, <2>5
<1>7. CASE SetPrimary(c)
    <2> DEFINE row == [View(c, w) EXCEPT !.primary = TRUE]
    <2>1. /\ calls[c].op = "setPrimary" /\ IsLive(w) /\ At(c, "set")
          /\ calls[c].company \subseteq {"setPrimary"}
        BY <1>7 DEF SetPrimary, WInv, CallFits
    <2>2. \A v \in WalletIds : calls[c].writes[v] # NoRow
                => calls[c].writes[v] = [wallets[v] EXCEPT !.primary = FALSE] /\ Exists(v)
        BY <2>1 DEF WInv, WritesFit, At
    <2>3. \A v \in WalletIds : Exists(v) => calls[c].writes[v] # NoRow
        BY <2>1 DEF WInv, ClearsAll
    <2>4. row \in Wallet /\ row.live /\ row.primary
        <3>1. View(c, w) = [wallets[w] EXCEPT !.primary = FALSE] /\ wallets[w] \in Wallet
              /\ wallets[w].live
            BY <1>1, <1>2, <2>1, <2>2, <2>3 DEF View, IsLive, Exists
        <3> QED
            BY <3>1 DEF Wallet
    <2>5. Commit(c, [NoWrites EXCEPT ![w] = row])
        BY <1>7 DEF SetPrimary
    <2> QED
        BY <1>5, <2>2, <2>3, <2>4, <2>5 DEF IsPrimary, IsLive
<1> QED
    BY <1>3, <1>6, <1>7

\* When an archiving without company is committed, a primary wallet is left.
LEMMA ArchiveStep ==
    ASSUME WInv, NEW c \in Calls, NEW d \in Calls, Step(d), Writes(c),
           calls[c].op = "archive", calls[c].company = {},
           \E w \in WalletIds : IsPrimary(w),
           \E w \in WalletIds : IsLive(w)'
    PROVE  \E w \in WalletIds : IsPrimary(w)'
<1> DEFINE w == calls[c].wallet
<1>1. ~At(c, "idle") /\ w \in WalletIds
    BY DEF Writes, WInv, CallFits
<1>2. \A v \in WalletIds : /\ wallets[v] \in Wallet \cup {NoRow}
                           /\ calls[c].writes[v] \in Wallet \cup {NoRow}
    BY DEF WInv, WalletTypeOK, Call
<1>3. Archive(c) \/ Choose(c) \/ Promote(c)
    <2>1. ~Put(c) /\ ~SetPrimary(c)
        BY DEF WInv, CallFits, Put, SetPrimary, At
    <2> QED
        BY <2>1, WritersCommit
<1>4. ASSUME Archive(c)
      PROVE  \E x \in WalletIds : IsPrimary(x)'
    <2> DEFINE row == [wallets[w] EXCEPT !.live = FALSE, !.primary = FALSE]
               last == [NoWrites EXCEPT ![w] = row]
    <2>1. At(c, "archive") /\ ~calls[c].primary /\ IsLive(w)
        BY <1>4 DEF Archive, Writes
    <2>2. ~wallets[w].primary
        BY <2>1 DEF WInv, ArchiveAlone
    <2>3. Commit(c, last)
        BY <1>4, <2>1 DEF Archive
    <2>4. row \in Wallet
        BY <1>1, <1>2, <2>1, Updating DEF IsLive, Exists
    <2>5. last \in [WalletIds -> Wallet \cup {NoRow}]
          /\ \A v \in WalletIds : v # w => last[v] = NoRow
        BY <1>1, <2>4 DEF NoWrites
    <2>6. PICK x \in WalletIds : IsPrimary(x)
        OBVIOUS
    <2>7. x # w
        BY <2>2, <2>6 DEF IsPrimary
    <2>8. calls[c].writes[x] = NoRow
        BY <2>1 DEF WInv, WritesFit, At
    <2> HIDE DEF last
    <2>9. wallets'[x] = wallets[x]
        BY <2>3, <2>5, <2>7, <2>8, Committing DEF WInv
    <2>10. IsPrimary(x)'
        BY <2>6, <2>9 DEF IsPrimary, IsLive, Exists
    <2> QED
        BY <2>10
<1>5. ASSUME Choose(c)
      PROVE  FALSE
    <2>1. /\ At(c, "choose")
          /\ {v \in WalletIds : IsLive(v) /\ v # w} = {}
          /\ Commit(c, NoWrites)
        BY <1>5 DEF Choose, Writes
    <2>2. NoWrites \in [WalletIds -> Wallet \cup {NoRow}] /\ \A v \in WalletIds : NoWrites[v] = NoRow
        BY DEF NoWrites
    <2>3. PICK x \in WalletIds : IsLive(x)'
        OBVIOUS
    <2>4. /\ calls[c].writes[x] # NoRow => wallets'[x] = calls[c].writes[x]
          /\ calls[c].writes[x] = NoRow => wallets'[x] = wallets[x]
        BY <2>1, <2>2, Committing DEF WInv
    <2>5. CASE calls[c].writes[x] # NoRow
        <3>1. ~calls[c].writes[x].live
            BY <2>1, <2>5 DEF WInv, WritesFit, At
        <3> QED
            BY <2>3, <2>4, <2>5, <3>1 DEF IsLive
    <2>6. CASE calls[c].writes[x] = NoRow
        <3>1. x # w
            BY <2>1, <2>6 DEF WInv, ArchiveAlone, At
        <3>2. IsLive(x)
            BY <2>3, <2>4, <2>6 DEF IsLive, Exists
        <3> QED
            BY <2>1, <3>1, <3>2
    <2> QED
        BY <2>5, <2>6
<1>6. ASSUME Promote(c)
      PROVE  \E x \in WalletIds : IsPrimary(x)'
    <2>1. PICK x \in calls[c].todo :
            /\ At(c, "promote")
            /\ Commit(c, [NoWrites EXCEPT ![x] = [View(c, x) EXCEPT !.primary = TRUE]])
        BY <1>6 DEF Promote
    <2>2. x \in WalletIds /\ IsLive(x) /\ x # w
        BY <2>1 DEF WInv, ArchiveAlone, WalletTypeOK, Call
    <2>3. View(c, x) = wallets[x] /\ wallets[x] \in Wallet
        BY <1>2, <2>1, <2>2 DEF WInv, WritesFit, View, At, IsLive, Exists
    <2> DEFINE row == [View(c, x) EXCEPT !.primary = TRUE]
               last == [NoWrites EXCEPT ![x] = row]
    <2>4. row \in Wallet /\ row.live /\ row.primary
        BY <2>2, <2>3 DEF Wallet, IsLive
    <2>5. last \in [WalletIds -> Wallet \cup {NoRow}] /\ last[x] = row
        BY <2>2, <2>4 DEF NoWrites
    <2>6. Commit(c, last)
        BY <2>1
    <2> HIDE DEF last, row
    <2>7. wallets'[x] = row
        BY <2>2, <2>4, <2>5, <2>6, NullAssumption, Committing DEF WInv
    <2>8. IsPrimary(x)'
        BY <2>4, <2>7, NullAssumption DEF IsPrimary, IsLive, Exists
    <2> QED
        BY <2>2, <2>8
<1> QED
    BY <1>3, <1>4, <1>5, <1>6

-------------------------------------------------------------------------------
(* Wallets.                                                                *)

\* A transaction under way knows what it overwrites.
THEOREM WalletsInvariant == WalletSpec => []WInv
<1>1. WalletInit => WInv
    BY InvInit
<1>2. WInv /\ [WalletNext]_wvars => WInv'
    BY InvStep, InvStutter, NextIsStep
<1> QED
    BY <1>1, <1>2, PTL DEF WalletSpec

\* Wallets and intents together keep it, too.
LEMMA IntentsInvariant == Spec => []WInv
<1>1. Init => WInv
    BY InvInit DEF Init
<1>2. WInv /\ [Next]_vars => WInv'
    BY InvStep, InvStutter, IntentsOverWallets
<1> QED
    BY <1>1, <1>2, PTL DEF Spec

\* setPrimary of a live wallet that met nothing but setPrimary, and a primary
\* creation that met nothing, leave their wallet as the only live primary one.
THEOREM ChoicesAreUnique == Spec => ChoiceIsTheOnlyPrimary
<1> DEFINE Unique ==
       \A c \in Calls :
         LET call == calls[c] IN
         (/\ Writes(c)
          /\ \/ /\ call.op = "setPrimary"
                /\ IsLive(call.wallet)
                /\ call.company \subseteq {"setPrimary"}
             \/ /\ call.op = "create" /\ call.primary
                /\ call.company = {})
         => \A w \in WalletIds : IsPrimary(w)' <=> w = call.wallet
<1>1. WInv /\ [Next]_vars => [Unique]_wvars
    <2> SUFFICES ASSUME WInv, [Next]_vars, ~UNCHANGED wvars
                 PROVE  Unique
        OBVIOUS
    <2>1. PICK d \in Calls : Step(d)
        BY IntentsOverWallets
    <2> QED
        BY <2>1, ChoiceStep
<1>2. ChoiceIsTheOnlyPrimary <=> [][Unique]_wvars
    BY DEF ChoiceIsTheOnlyPrimary
<1> QED
    BY <1>1, <1>2, IntentsInvariant, PTL DEF Spec

\* An archiving that met no other call leaves a primary wallet, if there was one
\* and a live wallet is left.
THEOREM ArchivesKeepAPrimary == Spec => ArchiveKeepsAPrimary
<1> DEFINE Keeps ==
       \A c \in Calls :
         (/\ Writes(c)
          /\ calls[c].op = "archive" /\ calls[c].company = {}
          /\ \E w \in WalletIds : IsPrimary(w)
          /\ \E w \in WalletIds : IsLive(w)')
         => \E w \in WalletIds : IsPrimary(w)'
<1>1. WInv /\ [Next]_vars => [Keeps]_wvars
    <2> SUFFICES ASSUME WInv, [Next]_vars, ~UNCHANGED wvars
                 PROVE  Keeps
        OBVIOUS
    <2>1. PICK d \in Calls : Step(d)
        BY IntentsOverWallets
    <2> QED
        BY <2>1, ArchiveStep
<1>2. ArchiveKeepsAPrimary <=> [][Keeps]_wvars
    BY DEF ArchiveKeepsAPrimary
<1> QED
    BY <1>1, <1>2, IntentsInvariant, PTL DEF Spec

-------------------------------------------------------------------------------
(* Intents.                                                                *)

\* A creation that has passed its checks names a wallet the budget covers, and a
\* success is the status and the hash of the row from then on.
CreationFits ==
    /\ creation.pc # "idle" => creation.wallet \in WalletIds
    /\ creation.pc = "insert" => Covers(budget.scope, creation.wallet)

ToldIsStored ==
    \A i \in IntentIds : told[i] # {} =>
        /\ Created(i)
        /\ intents[i].status \in {"submitted", "completed"}
        /\ told[i] = {intents[i].hash}

IInv == TypeOK /\ CreationFits /\ IntentsAreCovered /\ ToldIsStored

\* The invariant of intents holds at first.
LEMMA IInvInit == Init => IInv
<1> SUFFICES ASSUME Init
             PROVE  IInv
    OBVIOUS
<1>1. TypeOK
    BY CallInit DEF Init, TypeOK, NoCreation, Creation
<1>2. CreationFits /\ IntentsAreCovered /\ ToldIsStored
    BY DEF Init, CreationFits, NoCreation, IntentsAreCovered, ToldIsStored, Created
<1> QED
    BY <1>1, <1>2 DEF IInv

\* An UPDATE of an intent that leaves its wallet alone.
LEMMA IntentChanges ==
    ASSUME IInv, NEW i \in IntentIds, Created(i),
           NEW row \in Intent, row.wallet = intents[i].wallet,
           intents' = [intents EXCEPT ![i] = row],
           budget' = budget, creation' = creation
    PROVE  /\ intents' \in [IntentIds -> Intent \cup {NoIntent}]
           /\ CreationFits' /\ IntentsAreCovered'
           /\ intents'[i] = row /\ row # NoIntent
           /\ \A j \in IntentIds \ {i} : intents'[j] = intents[j]
<1>1. /\ intents' \in [IntentIds -> Intent \cup {NoIntent}]
      /\ intents'[i] = row
      /\ \A j \in IntentIds \ {i} : intents'[j] = intents[j]
    BY DEF IInv, TypeOK
<1>2. row # NoIntent
    BY IntentNullAssumption
<1>3. CreationFits'
    BY DEF IInv, CreationFits
<1>4. IntentsAreCovered'
    BY <1>1 DEF IInv, IntentsAreCovered, Created
<1> QED
    BY <1>1, <1>2, <1>3, <1>4

\* A step of an intent or a budget keeps it.
LEMMA IntentStepKeeps ==
    ASSUME IInv, WInv, IntentStep
    PROVE  IInv'
<1>1. WalletTypeOK'
    BY DEF IntentStep, IInv, TypeOK, WalletTypeOK
<1>2. \A i \in IntentIds : Created(i) => intents[i] \in Intent
    BY DEF IInv, TypeOK, Created
<1>3. ASSUME NEW w \in WalletIds, ReadWallet(w)
      PROVE  IInv'
    <2>1. creation' \in Creation /\ creation'.pc = "budget" /\ creation'.wallet = w
        BY <1>3 DEF ReadWallet, Creation
    <2>2. CreationFits'
        BY <2>1 DEF CreationFits
    <2> QED
        BY <1>1, <1>3, <2>1, <2>2
        DEF ReadWallet, IInv, TypeOK, IntentsAreCovered, ToldIsStored, Created
<1>4. ASSUME ReadBudget
      PROVE  IInv'
    <2>1. /\ creation.pc = "budget" /\ creation \in Creation
          /\ creation' = [creation EXCEPT !.pc = "insert"]
          /\ Covers(budget.scope, creation.wallet)
        BY <1>4 DEF ReadBudget, Usable, IInv, TypeOK
    <2>2. creation' \in Creation /\ creation'.pc = "insert"
          /\ creation'.wallet = creation.wallet
        BY <2>1 DEF Creation
    <2>3. CreationFits'
        BY <1>4, <2>1, <2>2 DEF ReadBudget, IInv, CreationFits, Covers
    <2> QED
        BY <1>1, <1>4, <2>2, <2>3
        DEF ReadBudget, IInv, TypeOK, IntentsAreCovered, ToldIsStored, Created
<1>5. ASSUME GiveUp
      PROVE  IInv'
    <2>1. creation' \in Creation /\ creation'.pc = "idle"
        BY <1>5 DEF GiveUp, NoCreation, Creation
    <2>2. CreationFits'
        BY <2>1 DEF CreationFits
    <2> QED
        BY <1>1, <1>5, <2>1, <2>2
        DEF GiveUp, IInv, TypeOK, IntentsAreCovered, ToldIsStored, Created
<1>6. ASSUME NEW i \in IntentIds, Insert(i)
      PROVE  IInv'
    <2> DEFINE row == NewIntent(creation.wallet)
    <2>1. creation.wallet \in WalletIds /\ Covers(budget.scope, creation.wallet)
        BY <1>6 DEF Insert, IInv, CreationFits
    <2>2. row \in Intent /\ row.wallet = creation.wallet
        BY <2>1 DEF NewIntent, Intent, IntentStatus
    <2>3. /\ intents' \in [IntentIds -> Intent \cup {NoIntent}]
          /\ intents'[i] = row
          /\ \A j \in IntentIds \ {i} : intents'[j] = intents[j]
        BY <1>6, <2>2 DEF Insert, IInv, TypeOK
    <2>4. creation' \in Creation /\ creation'.pc = "idle"
          /\ told' = told /\ budget' = budget
        BY <1>6 DEF Insert, NoCreation, Creation
    <2>5. CreationFits'
        BY <2>4 DEF CreationFits
    <2>6. IntentsAreCovered'
        BY <2>1, <2>2, <2>3, <2>4 DEF IInv, IntentsAreCovered, Created
    <2>7. told[i] = {}
        BY <1>6 DEF Insert, IInv, ToldIsStored, Created
    <2>8. ToldIsStored'
        BY <2>3, <2>4, <2>7 DEF IInv, ToldIsStored, Created
    <2> QED
        BY <1>1, <2>3, <2>4, <2>5, <2>6, <2>8 DEF IInv, TypeOK
<1>7. ASSUME NEW i \in IntentIds, Approve(i)
      PROVE  IInv'
    <2> DEFINE row == [intents[i] EXCEPT !.status = "approved"]
    <2>1. Created(i) /\ intents[i].status = "pending_approval"
          /\ intents' = [intents EXCEPT ![i] = row]
          /\ told' = told /\ budget' = budget /\ creation' = creation
        BY <1>7 DEF Approve, Approvable, IInv, TypeOK
    <2>2. row \in Intent /\ row.wallet = intents[i].wallet
        BY <1>2, <2>1 DEF Intent, IntentStatus
    <2>3. told[i] = {}
        BY <2>1 DEF IInv, ToldIsStored
    <2> HIDE DEF row
    <2>4. /\ intents' \in [IntentIds -> Intent \cup {NoIntent}]
          /\ CreationFits' /\ IntentsAreCovered'
          /\ \A j \in IntentIds \ {i} : intents'[j] = intents[j]
        BY <2>1, <2>2, IntentChanges
    <2>5. ToldIsStored'
        BY <2>1, <2>3, <2>4 DEF IInv, ToldIsStored, Created
    <2> QED
        BY <1>1, <2>1, <2>4, <2>5 DEF IInv, TypeOK
<1>8. ASSUME NEW i \in IntentIds, NEW hash \in Hashes, Submit(i, hash)
      PROVE  IInv'
    <2> DEFINE row == [intents[i] EXCEPT !.status = "submitted", !.hash = hash]
    <2>1. Created(i) /\ intents[i].status = "approved"
          /\ intents' = [intents EXCEPT ![i] = row]
          /\ told' = [told EXCEPT ![i] = @ \cup {hash}]
          /\ budget' = budget /\ creation' = creation
        BY <1>8 DEF Submit, Submittable, IInv, TypeOK
    <2>2. row \in Intent /\ row.wallet = intents[i].wallet
          /\ row.status = "submitted" /\ row.hash = hash
        BY <1>2, <2>1 DEF Intent, IntentStatus
    <2>3. told[i] = {}
        BY <2>1 DEF IInv, ToldIsStored
    <2> HIDE DEF row
    <2>4. /\ intents' \in [IntentIds -> Intent \cup {NoIntent}]
          /\ CreationFits' /\ IntentsAreCovered'
          /\ intents'[i] = row /\ row # NoIntent
          /\ \A j \in IntentIds \ {i} : intents'[j] = intents[j]
        BY <2>1, <2>2, IntentChanges
    <2>5. /\ told' \in [IntentIds -> SUBSET Hashes] /\ told'[i] = {hash}
          /\ \A j \in IntentIds \ {i} : told'[j] = told[j]
        BY <2>1, <2>3 DEF IInv, TypeOK
    <2>6. ToldIsStored'
        BY <2>2, <2>4, <2>5 DEF IInv, ToldIsStored, Created
    <2> QED
        BY <1>1, <2>1, <2>4, <2>5, <2>6 DEF IInv, TypeOK
<1>9. ASSUME NEW i \in IntentIds, Complete(i)
      PROVE  IInv'
    <2> DEFINE row == [intents[i] EXCEPT !.status = "completed"]
    <2>1. Created(i) /\ intents[i].status = "submitted"
          /\ intents' = [intents EXCEPT ![i] = row]
          /\ told' = told /\ budget' = budget /\ creation' = creation
        BY <1>9 DEF Complete, Completable, IInv, TypeOK
    <2>2. row \in Intent /\ row.wallet = intents[i].wallet
          /\ row.status = "completed" /\ row.hash = intents[i].hash
        BY <1>2, <2>1 DEF Intent, IntentStatus
    <2> HIDE DEF row
    <2>3. /\ intents' \in [IntentIds -> Intent \cup {NoIntent}]
          /\ CreationFits' /\ IntentsAreCovered'
          /\ intents'[i] = row /\ row # NoIntent
          /\ \A j \in IntentIds \ {i} : intents'[j] = intents[j]
        BY <2>1, <2>2, IntentChanges
    <2>4. ToldIsStored'
        BY <2>1, <2>2, <2>3 DEF IInv, ToldIsStored, Created
    <2> QED
        BY <1>1, <2>1, <2>3, <2>4 DEF IInv, TypeOK
<1> QED
    BY <1>3, <1>4, <1>5, <1>6, <1>7, <1>8, <1>9 DEF IntentStep

\* A budget may change its status; its scope stays.
LEMMA BudgetChanges ==
    ASSUME IInv, WalletTypeOK', budget' \in Budget, budget'.scope = budget.scope,
           UNCHANGED <<intents, told, creation>>
    PROVE  IInv'
    BY DEF IInv, TypeOK, CreationFits, IntentsAreCovered, ToldIsStored, Created, Covers

\* Every step keeps it.
LEMMA IInvStep == IInv /\ WInv /\ [Next]_vars => IInv'
<1> SUFFICES ASSUME IInv, WInv, [Next]_vars
             PROVE  IInv'
    OBVIOUS
<1>1. ASSUME NEW status \in {"active", "paused", "archived"}
      PROVE  /\ [budget EXCEPT !.status = status] \in Budget
             /\ [budget EXCEPT !.status = status].scope = budget.scope
    BY DEF IInv, TypeOK, Budget
<1>2. CASE WalletStep
    <2>1. WalletTypeOK'
        BY <1>2, NextIsStep, StepOf DEF WalletStep
    <2>2. budget' \in Budget /\ budget'.scope = budget.scope
        BY <1>1, <1>2 DEF WalletStep, IInv, TypeOK
    <2> QED
        BY <1>2, <2>1, <2>2, BudgetChanges DEF WalletStep
<1>3. CASE IntentStep
    BY <1>3, IntentStepKeeps
<1>4. CASE ChangeBudget
    <2>1. WalletTypeOK'
        BY <1>4 DEF ChangeBudget, IInv, TypeOK, WalletTypeOK
    <2>2. budget' \in Budget /\ budget'.scope = budget.scope
        BY <1>1, <1>4 DEF ChangeBudget
    <2> QED
        BY <1>4, <2>1, <2>2, BudgetChanges DEF ChangeBudget
<1>5. CASE UNCHANGED vars
    <2>1. WalletTypeOK'
        BY <1>5 DEF vars, IInv, TypeOK, WalletTypeOK
    <2> QED
        BY <1>5, <2>1, BudgetChanges DEF vars, IInv, TypeOK
<1> QED
    BY <1>2, <1>3, <1>4, <1>5 DEF Next

\* The invariant of intents holds in every state.
LEMMA Invariant == Spec => []IInv
    BY IInvInit, IInvStep, IntentsInvariant, PTL DEF Spec

\* Wallets, calls, intents and the budget keep their types.
THEOREM TypeCorrect == Spec => []TypeOK
<1>1. IInv => TypeOK
    BY DEF IInv
<1> QED
    BY <1>1, Invariant, PTL

\* An intent is always one its budget covers.
THEOREM IntentsCovered == Spec => []IntentsAreCovered
<1>1. IInv => IntentsAreCovered
    BY DEF IInv
<1> QED
    BY <1>1, Invariant, PTL

\* Of several submissions of an intent one is answered with success, and its hash
\* stays.
THEOREM OneSubmission == Spec => []OneSubmissionWins
<1>1. IInv => OneSubmissionWins
    BY DEF IInv, ToldIsStored, OneSubmissionWins
<1> QED
    BY <1>1, Invariant, PTL
===============================================================================
