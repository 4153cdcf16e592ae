------------------------------ MODULE MCIntents ------------------------------
(* Intents for TLC.                                                        *)
EXTENDS Intents, TLC

Symmetry == Permutations(Calls) \cup Permutations(WalletIds) \cup Permutations(Hashes)
===============================================================================
