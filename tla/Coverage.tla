------------------------------- MODULE Coverage -------------------------------
(***************************************************************************)
(* What a resumable cursor promises, without blocks, ranges or leases: it  *)
(* covers only payments that the ledger holds, and what it once covered it *)
(* covers for ever; the ledger loses nothing, and holds nothing that its   *)
(* source does not have.                                                   *)
(*                                                                         *)
(* ArcCursor keeps this promise with the blocks of one chain that is       *)
(* scanned from both ends, SyncLease with payments that concurrent runs    *)
(* take in order.  What a run finds may be any part of the source: nothing *)
(* here says how it is planned, split or retried.                          *)
(***************************************************************************)

VARIABLES
    exists,     \* what the source has
    stored,     \* what the ledger holds
    covered     \* what the stored cursor says that need not be read again

vars == <<exists, stored, covered>>

Init ==
    /\ stored = {}
    /\ covered = {}

\* The source gets more to read.
Appear ==
    /\ exists \subseteq exists'
    /\ UNCHANGED <<stored, covered>>

\* The ledger takes in some of what the source has, new or not.
Grow ==
    /\ stored \subseteq stored'
    /\ stored' \subseteq exists

\* A run on its way, or one that fails after it ingested a part.
Ingest ==
    /\ Grow
    /\ UNCHANGED <<exists, covered>>

\* A run commits its cursor.
Advance ==
    /\ Grow
    /\ covered \subseteq covered'
    /\ covered' \subseteq stored'
    /\ UNCHANGED exists

Next == Appear \/ Ingest \/ Advance

Spec == Init /\ [][Next]_vars
===============================================================================
