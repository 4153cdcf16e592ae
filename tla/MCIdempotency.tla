---------------------------- MODULE MCIdempotency ----------------------------
(* The idempotency protocol for TLC: calls, keys and requests are           *)
(* interchangeable.                                                        *)
EXTENDS Idempotency, TLC

CallSymmetry == Permutations(Calls) \cup Permutations(Keys) \cup Permutations(Requests)
===============================================================================
