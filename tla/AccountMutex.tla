---------------------------- MODULE AccountMutex ----------------------------
(***************************************************************************)
(* What the lock of an account promises: whoever is between LockAccount    *)
(* and UnlockAccount is alone there, unless the account's mutex was broken *)
(* by two first requests that made one each.  A restart of the process     *)
(* ends all that, and mends the mutexes.  AccountLock implements this with *)
(* a map of mutexes; AccountService takes it for granted.                  *)
(***************************************************************************)
CONSTANTS Users, Accounts

VARIABLES
    inside,  \* who is between LockAccount and UnlockAccount of an account
    broken   \* the accounts whose mutex no longer excludes

mutexVars == <<inside, broken>>

MutexInit ==
    /\ inside = [e \in Accounts |-> {}]
    /\ broken = {}

Enter(u, e) ==
    /\ e \in broken \/ inside[e] = {}
    /\ inside' = [inside EXCEPT ![e] = @ \cup {u}]
    /\ UNCHANGED broken

Leave(u, e) ==
    /\ u \in inside[e]
    /\ inside' = [inside EXCEPT ![e] = @ \ {u}]
    /\ UNCHANGED broken

Break(e) ==
    /\ broken' = broken \cup {e}
    /\ UNCHANGED inside

Reset ==
    /\ inside' = [e \in Accounts |-> {}]
    /\ broken' = {}

MutexNext ==
    \/ \E u \in Users, e \in Accounts : Enter(u, e) \/ Leave(u, e)
    \/ \E e \in Accounts : Break(e)
    \/ Reset

MutexSpec == MutexInit /\ [][MutexNext]_mutexVars
=============================================================================
