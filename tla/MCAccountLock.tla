---------------------------- MODULE MCAccountLock ----------------------------
(* AccountLock for three requests and two accounts.                         *)
EXTENDS AccountLock, TLC

Symmetry == Permutations(Threads) \cup Permutations(Emails)
=============================================================================
