-------------------------- MODULE MCAccountService --------------------------
(* AccountService on small instances: the symmetry and the operations.      *)
EXTENDS AccountService, TLC

SymmetryIds == Permutations(Requests) \cup Permutations(Ids)

(* Operation sets of the runs.                                              *)
TokenOps == {"RequestAuthToken", "ActivateAuthToken", "Logout", "Revoke"}
AccountOps == {"RequestAuthToken", "ActivateAuthToken", "Logout", "WriteStore", "DeleteAccount"}
TimeOps == {"RequestAuthToken", "ActivateAuthToken", "Revoke", "ReadStore", "DeleteStore"}
LiveOps == {"RequestAuthToken", "ActivateAuthToken", "DeleteAccount", "Logout"}
=============================================================================
