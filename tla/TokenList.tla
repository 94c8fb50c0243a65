----------------------------- MODULE TokenList -----------------------------
(***************************************************************************)
(* The `AuthTokens` slice of an account and the methods of auth.go that    *)
(* search, update and filter it.  A list is a sequence of token records:   *)
(* the order matters, because the code always takes the first match and    *)
(* removes by moving the last element into the hole.                       *)
(*                                                                         *)
(* The random `Token` and `Id` of a token are generated together and are   *)
(* both unique, so one value, `id`, stands for the two of them.            *)
(***************************************************************************)
EXTENDS Integers, Sequences, FiniteSets

CONSTANTS
    Ids,        \* the tokens that can be generated
    NoId,       \* a blank Token / Id field
    UUIDs,      \* non-blank device UUIDs
    NoDevice,   \* a nil *Device
    NoUUID,     \* a device whose UUID is blank
    WebAge,     \* lifetime of a "web" token            (1 hour)
    KeepAge,    \* how long expired "api" tokens are kept (7 days)
    MaxIdle     \* idle time after which a token is dropped (30 days)

ASSUME AgesAssumption ==
    WebAge \in Nat \ {0} /\ KeepAge \in Nat \ {0} /\ MaxIdle \in Nat \ {0}

ASSUME NamesAssumption ==
    NoId \notin Ids /\ NoDevice \notin UUIDs /\ NoUUID \notin UUIDs

Devices == UUIDs \cup {NoDevice, NoUUID}
Types == {"api", "web"}

(* The zero time: a token that never expires.                              *)
Never == 0

Token == [id : Ids, type : Types, device : Devices,
          lastUsed : Nat, expires : Nat]

-----------------------------------------------------------------------------
(* A query is the part of an AuthToken that findAuthToken compares; blank   *)
(* fields ("" , NoId, no device or no UUID) match anything.                 *)
Query(type, id, device) == [type |-> type, id |-> id, device |-> device]

Matches(q, t) ==
    /\ q.type \in {"", t.type}
    /\ q.id \in {NoId, t.id}
    /\ q.device \in {NoDevice, NoUUID, t.device}

Matching(s, q) ==
    {i \in DOMAIN s : /\ q.id # NoId \/ q.device \in UUIDs
                      /\ Matches(q, s[i])}

findAuthToken(s, q) ==
    CHOOSE i \in Matching(s, q) : \A j \in Matching(s, q) : i <= j

-----------------------------------------------------------------------------
(* A mutant: a blank type is not defaulted to "api".                        *)
NewAuthToken_NoDefault(id, type, device, now) ==
    [id |-> id, type |-> IF type = "api" THEN "" ELSE type, device |-> device,
     lastUsed |-> now, expires |-> IF type = "web" THEN now + WebAge ELSE Never]

NewAuthToken(id, type, device, now) ==
    [id |-> id, type |-> type, device |-> device, lastUsed |-> now,
     expires |-> IF type = "web" THEN now + WebAge ELSE Never]

Expired(t, now) == t.expires # Never /\ t.expires < now

AddAuthToken(s, t) == Append(s, t)

UpdateAuthToken(s, t) ==
    IF Matching(s, t) = {} THEN s ELSE [s EXCEPT ![findAuthToken(s, t)] = t]

RemoveAuthToken(s, q) ==
    IF Matching(s, q) = {} THEN s
    ELSE SubSeq([s EXCEPT ![findAuthToken(s, q)] = s[Len(s)]], 1, Len(s) - 1)

-----------------------------------------------------------------------------
(* Keep(s, K) is the list of the elements of s at the positions K, in order *)
(* (what the `s = append(s, t)` loops build): its j-th element sits at the   *)
(* position of K that has j positions of K up to itself.                    *)
Rank(K, i) == Cardinality({k \in K : k <= i})

Keep(s, K) ==
    [j \in 1 .. Cardinality(K) |-> s[CHOOSE i \in K : Rank(K, i) = j]]

Retained(t, now) ==
    \/ t.expires = Never
    \/ t.expires > now - (IF t.type = "api" THEN KeepAge ELSE 0)

RemoveExpiredAuthTokens(s, now) ==
    Keep(s, {i \in DOMAIN s : Retained(s[i], now)})

(* A mutant: idle tokens are dropped as early as expired ones.              *)
ExpireUnusedAuthTokens_Early(s, now) ==
    Keep(s, {i \in DOMAIN s : s[i].lastUsed > now - KeepAge})

ExpireUnusedAuthTokens(s, now) ==
    Keep(s, {i \in DOMAIN s : s[i].lastUsed > now - MaxIdle})

-----------------------------------------------------------------------------
(* No two tokens of one type for one device.                                *)
UniqueDevices(s) ==
    \A i, j \in DOMAIN s :
        s[i].type = s[j].type /\ s[i].device = s[j].device
                              /\ s[i].device \in UUIDs => i = j

(* No token twice.                                                          *)
Distinct(s) == \A i, j \in DOMAIN s : s[i].id = s[j].id => i = j
=============================================================================
