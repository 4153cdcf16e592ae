------------------------------- MODULE MCPages -------------------------------
(* Pages for TLC: users are interchangeable, and so are the slots of what  *)
(* they ask for.                                                           *)
EXTENDS Pages, TLC

PageSymmetry == Permutations(Visitors) \cup Permutations(Slots)
===============================================================================
