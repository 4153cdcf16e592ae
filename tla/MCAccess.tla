------------------------------ MODULE MCAccess ------------------------------
(* Access for TLC: requests are interchangeable, and so are Privy users.   *)
EXTENDS Access, TLC

Symmetry == Permutations(Calls) \cup Permutations(Privy)
===============================================================================
