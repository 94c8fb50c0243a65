----------------------------- MODULE AccountLock -----------------------------
(***************************************************************************)
(* How the server finds the mutex of an account.  server.accountMutexes is *)
(* a plain Go map filled on demand by GetAccountMutex and read again by    *)
(* UnlockAccount, from the goroutine of every request and with no lock of  *)
(* its own.  Two first requests for an account can both find no mutex and  *)
(* both store one, and the runtime may stop the process when it notices a  *)
(* map written while it is used.                                           *)
(***************************************************************************)
EXTENDS Naturals

CONSTANTS
    Threads,  \* the goroutines of the requests
    Emails,   \* the accounts
    NoMutex   \* a nil *sync.Mutex

(* Once the map has an entry for an account it keeps one, so a thread makes *)
(* at most one mutex per account: the two of them name it.                  *)
Mutexes == Emails \X Threads

ASSUME LockAssumption == NoMutex \notin Mutexes

VARIABLES
    mutexOf,  \* accountMutexes
    locked,   \* the mutexes that are locked
    pc,       \* where a thread is
    email,    \* the account its request is for
    found,    \* the mutex GetAccountMutex returned to it
    holds,    \* it is inside LockAccount .. UnlockAccount
    raced,    \* accounts whose mutex was replaced
    stopped   \* the runtime has stopped the process

vars == <<mutexOf, locked, pc, email, found, holds, raced, stopped>>

Pcs == {"idle", "check", "create", "store", "get", "have", "handle"}

Init ==
    /\ mutexOf = [e \in Emails |-> NoMutex]
    /\ locked = {}
    /\ pc = [t \in Threads |-> "idle"]
    /\ email \in [Threads -> Emails]
    /\ found = [t \in Threads |-> NoMutex]
    /\ holds = [t \in Threads |-> FALSE]
    /\ raced = {}
    /\ stopped = FALSE

-----------------------------------------------------------------------------
At(t, l) == ~stopped /\ pc[t] = l
Goto(t, l) == pc' = [pc EXCEPT ![t] = l]

(* A request with credentials of e reaches the LockAccount middleware.      *)
LockAccount(t, e) ==
    /\ At(t, "idle")
    /\ email' = [email EXCEPT ![t] = e]
    /\ Goto(t, "check")
    /\ UNCHANGED <<mutexOf, locked, found, holds, raced, stopped>>

(* Its handler is done: the deferred UnlockAccount looks the mutex up again. *)
UnlockAccount(t) ==
    /\ At(t, "handle")
    /\ Goto(t, "check")
    /\ UNCHANGED <<mutexOf, locked, email, found, holds, raced, stopped>>

(* GetAccountMutex: is there an entry?                                      *)
Check(t) ==
    /\ At(t, "check")
    /\ Goto(t, IF mutexOf[email[t]] = NoMutex THEN "create" ELSE "get")
    /\ UNCHANGED <<mutexOf, locked, email, found, holds, raced, stopped>>

(* Assigning to the map takes time.                                         *)
Create(t) ==
    /\ At(t, "create")
    /\ Goto(t, "store")
    /\ UNCHANGED <<mutexOf, locked, email, found, holds, raced, stopped>>

Store(t) ==
    /\ At(t, "store")
    /\ mutexOf' = [mutexOf EXCEPT ![email[t]] = <<email[t], t>>]
    /\ raced' = IF mutexOf[email[t]] = NoMutex THEN raced ELSE raced \cup {email[t]}
    /\ Goto(t, "get")
    /\ UNCHANGED <<locked, email, found, holds, stopped>>

(* The entry is read once more and returned.                                *)
Get(t) ==
    /\ At(t, "get")
    /\ found' = [found EXCEPT ![t] = mutexOf[email[t]]]
    /\ Goto(t, "have")
    /\ UNCHANGED <<mutexOf, locked, email, holds, raced, stopped>>

-----------------------------------------------------------------------------
(* sync.Mutex: it has no owner, anyone may unlock it.                       *)
Lock(t) ==
    /\ At(t, "have") /\ ~holds[t]
    /\ found[t] \notin locked
    /\ locked' = locked \cup {found[t]}
    /\ holds' = [holds EXCEPT ![t] = TRUE]
    /\ Goto(t, "handle")
    /\ UNCHANGED <<mutexOf, email, found, raced, stopped>>

(* A mutant: the entry is deleted with the last use, to keep the map small. *)
Unlock_Deletes(t) ==
    /\ At(t, "have") /\ holds[t]
    /\ found[t] \in locked
    /\ locked' = locked \ {found[t]}
    /\ mutexOf' = [mutexOf EXCEPT ![email[t]] = NoMutex]
    /\ holds' = [holds EXCEPT ![t] = FALSE]
    /\ found' = [found EXCEPT ![t] = NoMutex]
    /\ Goto(t, "idle")
    /\ UNCHANGED <<email, raced, stopped>>

(* A mutant: a handler that panics does not unlock.                         *)
Unlock_NotDeferred(t) ==
    /\ At(t, "have") /\ holds[t]
    /\ holds' = [holds EXCEPT ![t] = FALSE]
    /\ found' = [found EXCEPT ![t] = NoMutex]
    /\ Goto(t, "idle")
    /\ UNCHANGED <<mutexOf, locked, email, raced, stopped>>

Unlock(t) ==
    /\ At(t, "have") /\ holds[t]
    /\ found[t] \in locked
    /\ locked' = locked \ {found[t]}
    /\ holds' = [holds EXCEPT ![t] = FALSE]
    /\ found' = [found EXCEPT ![t] = NoMutex]
    /\ Goto(t, "idle")
    /\ UNCHANGED <<mutexOf, email, raced, stopped>>

(* Unlocking a mutex that is not locked is a fatal error.                   *)
UnlockUnlocked(t) ==
    /\ At(t, "have") /\ holds[t]
    /\ found[t] \notin locked
    /\ stopped' = TRUE
    /\ UNCHANGED <<mutexOf, locked, pc, email, found, holds, raced>>

(* The runtime may notice that the map is used while it is being written,   *)
(* be it for another account.                                               *)
MapInUse(t, u) ==
    /\ At(t, "store") /\ u # t
    /\ pc[u] \in {"check", "store", "get"}
    /\ stopped' = TRUE
    /\ UNCHANGED <<mutexOf, locked, pc, email, found, holds, raced>>

(* A new process starts with an empty map.                                  *)
Restart ==
    /\ stopped
    /\ mutexOf' = [e \in Emails |-> NoMutex]
    /\ locked' = {}
    /\ pc' = [t \in Threads |-> "idle"]
    /\ found' = [t \in Threads |-> NoMutex]
    /\ holds' = [t \in Threads |-> FALSE]
    /\ raced' = {}
    /\ stopped' = FALSE
    /\ UNCHANGED email

LockStep(t) ==
    \/ \E e \in Emails : LockAccount(t, e)
    \/ UnlockAccount(t)
    \/ Check(t) \/ Create(t) \/ Store(t) \/ Get(t)
    \/ Lock(t) \/ Unlock(t) \/ UnlockUnlocked(t)
    \/ \E u \in Threads : MapInUse(t, u)

Next == (\E t \in Threads : LockStep(t)) \/ Restart

Spec == Init /\ [][Next]_vars

-----------------------------------------------------------------------------
(* server.go:122: accountMutexes holds, for an account, a mutex that was     *)
(* made for it; the rest is of its type.                                    *)
TypeOK ==
    /\ mutexOf \in [Emails -> Mutexes \cup {NoMutex}]
    /\ locked \subseteq Mutexes
    /\ pc \in [Threads -> Pcs]
    /\ email \in [Threads -> Emails]
    /\ found \in [Threads -> Mutexes \cup {NoMutex}]
    /\ holds \in [Threads -> BOOLEAN]
    /\ raced \subseteq Emails
    /\ stopped \in BOOLEAN

(* middleware.go:70 "Middleware for locking state for a given account": two *)
(* requests are never inside the lock of one account at a time.             *)
Excluded(e) ==
    \A t, u \in Threads :
        holds[t] /\ holds[u] /\ email[t] = e /\ email[u] = e => t = u

MutualExclusion == \A e \in Emails : Excluded(e)

(* server.go:139-153: the lock does exclude, as long as no two first        *)
(* requests of the account have both stored a mutex.                        *)
MutualExclusionUnlessRaced == \A e \in Emails : e \notin raced => Excluded(e)

(* server.go:151: nor is a mutex then unlocked that is not locked, which    *)
(* would end the process for every user.                                    *)
UnlocksWhatItLocked ==
    \A t \in Threads :
        At(t, "have") /\ holds[t] /\ email[t] \notin raced
            => found[t] \in locked

(* server.go:147-153: whoever waits for the mutex of an account waits for a *)
(* request that will unlock it, not for a mutex that was replaced and left  *)
(* locked for good.                                                         *)
WaitsForAHolder ==
    \A t \in Threads :
        At(t, "have") /\ email[t] \notin raced /\ found[t] \in locked
            => \E u \in Threads : holds[u] /\ email[u] = email[t]

(* middleware.go:70-84: all the steps of GetAccountMutex, LockAccount and   *)
(* UnlockAccount together are a mutex of the account, which only a race on  *)
(* its first use breaks.                                                    *)
Mutex == INSTANCE AccountMutex WITH
    Users <- Threads, Accounts <- Emails,
    inside <- [e \in Emails |-> {t \in Threads : holds[t] /\ email[t] = e}],
    broken <- raced

ImplementsMutex == Mutex!MutexSpec
=============================================================================
