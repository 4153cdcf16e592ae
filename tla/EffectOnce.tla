------------------------------ MODULE EffectOnce ------------------------------
(***************************************************************************)
(* What the idempotency layer promises to the callers of a mutation,       *)
(* without rows, statements or statuses: under one key at most one call    *)
(* takes effect per retention window, and every other call under that key  *)
(* is either handed the result of that effect, if it asked for the same    *)
(* thing, or refused.                                                      *)
(***************************************************************************)
EXTENDS Naturals

CONSTANTS
    Calls,      \* invocations of one mutating operation
    Keys,       \* idempotency keys
    Requests,   \* request bodies, up to equality of their hashes
    TTL,        \* retention of a key, in clock units
    MaxTime,    \* bound on the clock
    NoCall,     \* "no call": the key is free
    Never       \* "has not taken effect"

VARIABLES
    now,        \* the clock
    call,       \* call[c]: the key, the request and the start time of c
    current,    \* current[k]: the call whose effect k stands for, or NoCall
    appliedAt,  \* appliedAt[c]: when the effect of c was committed, or Never
    answer      \* answer[c]: what c was told

vars == <<now, call, current, appliedAt, answer>>

Unanswered == [kind |-> "none", entity |-> NoCall]
Refused    == [kind |-> "refused", entity |-> NoCall]
Result(d)  == [kind |-> "result", entity |-> d]

Init ==
    /\ now = 0
    /\ call \in [Calls -> [key : Keys, request : Requests, at : {0}]]
    /\ current = [k \in Keys |-> NoCall]
    /\ appliedAt = [c \in Calls |-> Never]
    /\ answer = [c \in Calls |-> Unanswered]

Open(c) == answer[c] = Unanswered

Start(c) ==
    /\ Open(c)
    /\ appliedAt[c] = Never
    /\ call' = [call EXCEPT ![c].at = now]
    /\ UNCHANGED <<now, current, appliedAt, answer>>

\* The effect of c, possibly before c is told.
Apply(c) ==
    /\ Open(c)
    /\ appliedAt[c] = Never
    /\ current[call[c].key] = NoCall
    /\ current' = [current EXCEPT ![call[c].key] = c]
    /\ appliedAt' = [appliedAt EXCEPT ![c] = now]
    /\ answer' \in {answer, [answer EXCEPT ![c] = Result(c)]}
    /\ UNCHANGED <<now, call>>

Replay(c) ==
    LET d == current[call[c].key] IN
    /\ Open(c)
    /\ d # NoCall
    /\ call[d].request = call[c].request
    /\ answer' = [answer EXCEPT ![c] = Result(d)]
    /\ UNCHANGED <<now, call, current, appliedAt>>

Refuse(c) ==
    /\ Open(c)
    /\ answer' = [answer EXCEPT ![c] = Refused]
    /\ UNCHANGED <<now, call, current, appliedAt>>

\* A key may be forgotten only after its retention has passed.
Forget(k) ==
    /\ current[k] # NoCall
    /\ now > call[current[k]].at + TTL
    /\ current' = [current EXCEPT ![k] = NoCall]
    /\ UNCHANGED <<now, call, appliedAt, answer>>

Tick ==
    /\ now < MaxTime
    /\ now' = now + 1
    /\ UNCHANGED <<call, current, appliedAt, answer>>

Next ==
    \/ \E c \in Calls : Start(c) \/ Apply(c) \/ Replay(c) \/ Refuse(c)
    \/ \E k \in Keys : Forget(k)
    \/ Tick

Spec == Init /\ [][Next]_vars
===============================================================================
