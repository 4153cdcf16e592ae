----------------------------- MODULE MCSyncLease -----------------------------
(* The sync leases for TLC: runs are interchangeable.                      *)
EXTENDS SyncLease, TLC

RunSymmetry == Permutations(Runs)
===============================================================================
