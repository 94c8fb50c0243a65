------------------------------ MODULE Accounts ------------------------------
(***************************************************************************)
(* What the server promises of its accounts: each request that changes one *)
(* does it at once, on the account as it is then, however many are under    *)
(* way.  An account is the set of its tokens; nobody holds a copy of it,    *)
(* there is no lock and no order.  AccountService implements this.          *)
(*                                                                         *)
(* The promise ends, for one account, with an activation that touched it    *)
(* without its lock or was cut off halfway (it is shared then): what such   *)
(* an account lists is anybody's, except that it is still there, and still  *)
(* has one token of a type for a device.                                    *)
(***************************************************************************)
EXTENDS TokenList

CONSTANTS
    Emails,     \* account names
    Contents,   \* contents of a data store
    NoAccount,  \* there is no such account
    NoStore     \* it has no data store

VARIABLES
    now,     \* the time
    listed,  \* the tokens of an account
    data,    \* its data store
    ended,   \* the names of its tokens that a logout or revocation ended
    shared   \* the accounts for which nothing more is promised

accountVars == <<now, listed, data, ended, shared>>

Names(s) == {t.id : t \in s}

(* The tokens of s that are neither idle nor expired for too long.          *)
Lasting(s, at) == {t \in s : t.lastUsed > at - MaxIdle /\ Retained(t, at)}

(* The device of a token is set when it is used, but only to a blank UUID:  *)
(* with a real one the token is not found again when it is to be updated.   *)
SetDevice(d) == IF d = NoDevice THEN {NoDevice, NoUUID} ELSE {d}

(* What authenticating at a time leaves of the tokens s: those that last,   *)
(* the accepted one, if any, used at that time.                             *)
Authenticated(s, at) ==
    {Lasting(s, at)} \cup
    UNION {{(Lasting(s, at) \ {t}) \cup {[t EXCEPT !.lastUsed = at, !.device = d]}
              : d \in SetDevice(t.device)}
           : t \in {u \in Lasting(s, at) : ~Expired(u, at)}}

(* The token u gives way to t.                                              *)
Replaces(t, u) ==
    t.device \in UUIDs /\ u.type = t.type /\ u.device = t.device

OnePerDevice(s) == \A t, u \in s : Replaces(t, u) => t = u

-----------------------------------------------------------------------------
(* Late enough that "a moment ago" is not the zero time.                    *)
AccountsInit ==
    /\ now \in Nat /\ now > 1
    /\ listed = [e \in Emails |-> NoAccount]
    /\ data = [e \in Emails |-> NoStore]
    /\ ended = [e \in Emails |-> {}]
    /\ shared = [e \in Emails |-> FALSE]

Exists(e) == listed[e] # NoAccount
Current(e) == IF Exists(e) THEN listed[e] ELSE {}

Lists(e, s) == listed' = [listed EXCEPT ![e] = s]
Ends(e, s) == ended' = [ended EXCEPT ![e] = s]

(* The time may be past: nothing has happened to the account since.         *)
Authenticate(e) ==
    /\ Exists(e)
    /\ \E at \in 0 .. now : \E s \in Authenticated(listed[e], at) : Lists(e, s)
    /\ UNCHANGED <<now, data, ended, shared>>

(* A new token, neither listed nor ended before.                            *)
Activate(e) ==
    /\ listed'[e] # NoAccount
    /\ \E t \in listed'[e] :
         /\ t \in Token
         /\ t.id \notin Names(Current(e)) \cup ended[e]
         /\ Lists(e, {u \in Current(e) : ~Replaces(t, u)} \cup {t})
    /\ UNCHANGED <<now, data, ended, shared>>

Logout(e, t) ==
    /\ Lists(e, listed[e] \ {t})
    /\ Ends(e, ended[e] \cup {t.id})
    /\ UNCHANGED <<now, data, shared>>

Revoke(e, t) ==
    /\ Lists(e, (listed[e] \ {t}) \cup {[t EXCEPT !.expires = now - 1]})
    /\ Ends(e, ended[e] \cup {t.id})
    /\ UNCHANGED <<now, data, shared>>

(* Writing the data store, or deleting it.                                  *)
Write(e, content) ==
    /\ Exists(e)
    /\ data' = [data EXCEPT ![e] = content]
    /\ UNCHANGED <<now, listed, ended, shared>>

(* An account is deleted when its data store is.                            *)
Delete(e) ==
    /\ data[e] = NoStore
    /\ Lists(e, NoAccount)
    /\ UNCHANGED <<now, data, ended, shared>>

(* The promise ends for some accounts.                                      *)
Share ==
    /\ \A e \in Emails : shared[e] => shared'[e]
    /\ UNCHANGED <<now, listed, data, ended>>

(* What is left of it: the account goes on, or comes with a token.          *)
Race(e) ==
    /\ shared[e]
    /\ listed'[e] # NoAccount
    /\ listed'[e] \subseteq Token
    /\ Exists(e) \/ listed'[e] # {}
    /\ OnePerDevice(listed'[e])
    /\ Lists(e, listed'[e])
    /\ ended[e] \subseteq ended'[e]
    /\ Ends(e, ended'[e])
    /\ UNCHANGED <<now, data, shared>>

Pass ==
    /\ now' = now + 1
    /\ UNCHANGED <<listed, data, ended, shared>>

AccountsNext ==
    \/ \E e \in Emails :
         \/ Authenticate(e) \/ Activate(e) \/ Delete(e) \/ Race(e)
         \/ \E t \in Current(e) : Logout(e, t) \/ Revoke(e, t)
         \/ \E c \in Contents \cup {NoStore} : Write(e, c)
    \/ Share
    \/ Pass

AccountsSpec == AccountsInit /\ [][AccountsNext]_accountVars

-----------------------------------------------------------------------------
(* handler.go:222-231, auth.go:173 and :230, server.go:155: what follows     *)
(* from the promise alone.  An account has one token of a type for a device, *)
(* and no data without it; while the promise lasts it has one token of a     *)
(* name, and what was ended is expired if it is still there.                 *)
AccountSafe(e) ==
    /\ Exists(e) => OnePerDevice(listed[e])
    /\ data[e] # NoStore => Exists(e)
    /\ Exists(e) /\ ~shared[e] =>
         /\ \A t, u \in listed[e] : t.id = u.id => t = u
         /\ \A t \in listed[e] : t.id \in ended[e] => Expired(t, now)

AccountsSafe == \A e \in Emails : AccountSafe(e)
=============================================================================
