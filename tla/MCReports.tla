------------------------------ MODULE MCReports ------------------------------
(* Reports and credentials for TLC: calls are interchangeable, and so are  *)
(* keys.                                                                   *)
EXTENDS Reports, TLC

Symmetry == Permutations(Calls) \cup Permutations(Keys)
===============================================================================
