--------------------------- MODULE AccountService ---------------------------
(***************************************************************************)
(* The request handlers of the Padlock Cloud server that read and write    *)
(* accounts, data stores and authentication requests, run concurrently.    *)
(*                                                                         *)
(* Every storage call is one step; between two of them a handler works on  *)
(* its own copy of the account, as the code does on the struct that        *)
(* Storage.Get filled.  The middleware around a handler (LockAccount, then *)
(* Authenticate, then the version and CSRF checks) is part of the request. *)
(* The account lock is taken as a mutex here; AccountLock looks at how the *)
(* server finds that mutex.                                                *)
(***************************************************************************)
EXTENDS TokenList

CONSTANTS
    Requests,    \* goroutines serving requests
    Emails,      \* account names
    NoOne,       \* no email, no holder
    Codes,       \* activation codes
    NoCode,      \* activation by link
    Contents,    \* contents of a data store
    NoAccount,   \* Storage.Get returns ErrNotFound
    NoStore,
    NoAuth,      \* the nil *AuthToken handed to a handler
    Skeleton,    \* the configured skeleton key
    Ops,         \* the operations clients ask for
    Clients,     \* the devices they report
    RequestAge,  \* age at which, and interval in which, authentication requests
                 \* are cleaned (24 hours)
    MaxClock,    \* bound on the clock
    MaxTokens    \* bound on the number of tokens of an account

AllOps == {"RequestAuthToken", "ActivateAuthToken", "ReadStore", "WriteStore",
           "DeleteStore", "DeleteAccount", "Logout", "Revoke", "AccountInfo"}

(* Authenticate.Type of the endpoint an operation belongs to.               *)
AuthType(op) ==
    CASE op \in {"RequestAuthToken", "ActivateAuthToken"} -> ""
      [] op = "DeleteStore" -> "web"
      [] OTHER -> "universal"

ASSUME ServiceAssumption ==
    /\ Ops \subseteq AllOps /\ Clients \subseteq Devices
    /\ RequestAge \in Nat /\ MaxClock \in Nat /\ MaxTokens \in Nat
    /\ NoOne \notin Emails \cup Requests
    /\ Skeleton \notin Ids \cup {NoId}
    /\ NoAccount \notin Seq(Token) /\ NoAccount \notin Token
    /\ NoStore \notin Contents
    /\ NoCode \notin Codes
    /\ NoAuth \notin [type : Types \cup {"skeleton"}, id : Ids \cup {Skeleton},
                      device : Devices]

VARIABLES
    clock,        \* time.Now()
    accounts,     \* the "auth-accounts" storage
    stores,       \* the "data-stores" storage
    authRequests, \* the "auth-requests" storage
    holder,       \* who holds the mutex of an account
    pc,           \* where a request is
    req,          \* what it asks for
    auth,         \* the *AuthToken its handler was given
    acc,          \* its copy of the account's tokens
    ar,           \* its copy of an authentication request
    sweep,        \* what the cleaning job has still to look at
    owner,        \* the account a token was generated for
    links,        \* activation links and codes handed out
    exposed,      \* accounts touched without their lock, see ActGet, Cut
    gone          \* tokens a Logout or Revoke has ended

storage == <<accounts, stores, authRequests>>
local == <<req, auth, acc, ar>>
history == <<owner, links, exposed, gone>>
vars == <<clock, storage, holder, pc, local, sweep, history>>

-----------------------------------------------------------------------------
AuthRequest == [email : Emails, token : Token, code : Codes \cup {NoCode},
                created : Nat]

(* AuthRequest.Key: the link's token, else "email-code".                    *)
Key(a) == IF a.code = NoCode THEN <<a.token.id>> ELSE <<a.email, a.code>>

NewAuthRequest(email, id, type, device, code) ==
    [email |-> email, token |-> NewAuthToken(id, type, device, clock),
     code |-> code, created |-> clock]

Without(k) == {a \in authRequests : Key(a) # k}

Fresh == {i \in Ids : owner[i] = NoOne}

NoRequest == [op |-> "", email |-> NoOne, id |-> NoId, device |-> NoDevice,
              target |-> NoOne]
Blank == [email |-> NoOne]

Pcs == {"idle", "lock", "authGet", "authPut", "handle", "reqStore", "reqPut",
        "reqMail", "actGet", "actPut", "actDelete", "actLogin", "delAccount",
        "unlock"}

(* LockAccount holds the mutex of the email in the request's credentials.   *)
Holds(r, e) == req[r].email = e

Goto(r, l) == pc' = [pc EXCEPT ![r] = l]

(* The handler goes on, or returns: its variables go out of scope.          *)
Proceed(r, l) == Goto(r, l) /\ UNCHANGED local

Finish(r) ==
    /\ Goto(r, IF req[r].email = NoOne THEN "idle" ELSE "unlock")
    /\ req' = [req EXCEPT ![r] = [NoRequest EXCEPT !.email = req[r].email]]
    /\ auth' = [auth EXCEPT ![r] = NoAuth]
    /\ acc' = [acc EXCEPT ![r] = <<>>]
    /\ ar' = [ar EXCEPT ![r] = Blank]

StartTime == 2   \* so that "a minute ago" is not the zero time

Init ==
    /\ clock = StartTime
    /\ accounts = [e \in Emails |-> NoAccount]
    /\ stores = [e \in Emails |-> NoStore]
    /\ authRequests = {}
    /\ holder = [e \in Emails |-> NoOne]
    /\ pc = [r \in Requests |-> "idle"]
    /\ req = [r \in Requests |-> NoRequest]
    /\ auth = [r \in Requests |-> NoAuth]
    /\ acc = [r \in Requests |-> <<>>]
    /\ ar = [r \in Requests |-> Blank]
    /\ sweep = {}
    /\ owner = [i \in Ids |-> NoOne]
    /\ links = {}
    /\ exposed = [e \in Emails |-> FALSE]
    /\ gone = {}

-----------------------------------------------------------------------------
(* A client sends a request: with the credentials of a token it was given,  *)
(* with the skeleton key, or, to an endpoint that needs none, without.      *)
Arrive(r, op, email, id, device) ==
    /\ pc[r] = "idle"
    /\ \/ email \in Emails /\ id \in Ids /\ owner[id] = email
       \/ email \in Emails /\ id = Skeleton
       \/ id = NoId /\ email = NoOne /\ AuthType(op) = ""
    /\ req' = [req EXCEPT ![r] = [op |-> op, email |-> email, id |-> id,
                                  device |-> device, target |-> NoOne]]
    /\ Goto(r, IF email = NoOne THEN "handle" ELSE "lock")
    /\ UNCHANGED <<clock, storage, holder, auth, acc, ar, sweep, history>>

(* A mutant: the mutex is taken without waiting for it.                     *)
LockAccount_NoWait(r) ==
    /\ pc[r] = "lock"
    /\ holder' = [holder EXCEPT ![req[r].email] = r]
    /\ Goto(r, "authGet")
    /\ UNCHANGED <<clock, storage, local, sweep, history>>

LockAccount(r) ==
    /\ pc[r] = "lock"
    /\ holder[req[r].email] = NoOne
    /\ holder' = [holder EXCEPT ![req[r].email] = r]
    /\ Goto(r, "authGet")
    /\ UNCHANGED <<clock, storage, local, sweep, history>>

(* A mutant: the mutex is not unlocked.                                     *)
UnlockAccount_Forgotten(r) ==
    /\ pc[r] = "unlock"
    /\ Goto(r, "idle")
    /\ req' = [req EXCEPT ![r] = NoRequest]
    /\ UNCHANGED <<clock, storage, holder, auth, acc, ar, sweep, history>>

(* The deferred UnlockAccount and the end of the request.                   *)
UnlockAccount(r) ==
    /\ pc[r] = "unlock"
    /\ holder' = [e \in Emails |-> IF Holds(r, e) THEN NoOne ELSE holder[e]]
    /\ Goto(r, "idle")
    /\ req' = [req EXCEPT ![r] = NoRequest]
    /\ UNCHANGED <<clock, storage, auth, acc, ar, sweep, history>>

-----------------------------------------------------------------------------
(* Server.Authenticate: the tokens of the account once those idle for too   *)
(* long and those expired for too long have been filtered out.              *)
LiveTokens(s) == RemoveExpiredAuthTokens(ExpireUnusedAuthTokens(s, clock), clock)

(* The query made of what the Authorization header or the cookie says.      *)
Presented(r) == Query("", req[r].id, NoDevice)

Accepted(r, s) ==
    /\ Matching(s, Presented(r)) # {}
    /\ ~Expired(s[findAuthToken(s, Presented(r))], clock)

(* Without an auth token only an endpoint that needs none goes on.          *)
Unauthenticated(r) ==
    \/ /\ AuthType(req[r].op) = ""
       /\ Goto(r, "handle")
       /\ auth' = [auth EXCEPT ![r] = NoAuth]
       /\ acc' = [acc EXCEPT ![r] = <<>>]
       /\ UNCHANGED <<req, ar>>
    \/ AuthType(req[r].op) # "" /\ Finish(r)

(* No valid credentials.                                                    *)
AuthRefused(r) ==
    /\ pc[r] = "authGet"
    /\ accounts[req[r].email] # NoAccount
         => req[r].id # Skeleton /\ ~Accepted(r, LiveTokens(accounts[req[r].email]))
    /\ Unauthenticated(r)
    /\ UNCHANGED <<clock, storage, holder, sweep, history>>

(* The skeleton key is no token of the account: the list is only filtered.  *)
AuthSkeleton(r) ==
    /\ pc[r] = "authGet"
    /\ req[r].id = Skeleton
    /\ accounts[req[r].email] # NoAccount
    /\ acc' = [acc EXCEPT ![r] = LiveTokens(accounts[req[r].email])]
    /\ auth' = [auth EXCEPT ![r] = Query("skeleton", Skeleton, req[r].device)]
    /\ Goto(r, "authPut")
    /\ UNCHANGED <<clock, storage, holder, req, ar, sweep, history>>

(* The token becomes used now, and of the request's device if it had none.  *)
AuthAccepted(r) ==
    /\ pc[r] = "authGet"
    /\ req[r].id # Skeleton
    /\ accounts[req[r].email] # NoAccount
    /\ LET s == LiveTokens(accounts[req[r].email])
           t == s[findAuthToken(s, Presented(r))]
           u == [t EXCEPT !.lastUsed = clock,
                          !.device = IF @ = NoDevice THEN req[r].device ELSE @]
       IN  /\ Accepted(r, s)
           /\ acc' = [acc EXCEPT ![r] = UpdateAuthToken(s, u)]
           /\ auth' = [auth EXCEPT ![r] = Query(u.type, u.id, u.device)]
    /\ Goto(r, "authPut")
    /\ UNCHANGED <<clock, storage, holder, req, ar, sweep, history>>

(* A mutant: the account is locked for the authentication only.             *)
AuthPut_Unlocks(r) ==
    /\ pc[r] = "authPut"
    /\ accounts' = [accounts EXCEPT ![req[r].email] = acc[r]]
    /\ holder' = [holder EXCEPT ![req[r].email] = NoOne]
    /\ Proceed(r, "handle")
    /\ UNCHANGED <<clock, stores, authRequests, sweep, history>>

(* Storage.Put of the filtered and updated account, then the check that the *)
(* token is of the type the endpoint wants.                                 *)
AuthPut(r) ==
    /\ pc[r] = "authPut"
    /\ accounts' = [accounts EXCEPT ![req[r].email] = acc[r]]
    /\ IF \/ AuthType(req[r].op) \in {"", "universal", auth[r].type}
          \/ auth[r].type = "skeleton"
       THEN Proceed(r, "handle") ELSE Finish(r)
    /\ UNCHANGED <<clock, stores, authRequests, holder, sweep, history>>

(* A wrong version, a missing CSRF token, bad parameters, or a handler whose *)
(* first storage call fails.                                                *)
Reject(r) ==
    /\ pc[r] = "handle"
    /\ Finish(r)
    /\ UNCHANGED <<clock, storage, holder, sweep, history>>

Handling(r, op) == pc[r] = "handle" /\ req[r].op = op

-----------------------------------------------------------------------------
(* RequestAuthToken: POST creates accounts, PUT wants the account, or at    *)
(* least a data store, to exist.                                            *)
RequestAuthToken(r, e, create) ==
    /\ Handling(r, "RequestAuthToken")
    /\ req' = [req EXCEPT ![r].target = e]
    /\ Goto(r, IF create \/ accounts[e] # NoAccount THEN "reqPut" ELSE "reqStore")
    /\ UNCHANGED <<clock, storage, holder, auth, acc, ar, sweep, history>>

ReqStore(r) ==
    /\ pc[r] = "reqStore"
    /\ IF stores[req[r].target] # NoStore THEN Proceed(r, "reqPut") ELSE Finish(r)
    /\ UNCHANGED <<clock, storage, holder, sweep, history>>

(* The client already holds an api token of the same account.               *)
Preauth(r) ==
    /\ auth[r] # NoAuth
    /\ auth[r].type = "api"
    /\ req[r].email = req[r].target

(* The request is stored before anything is checked about rates.  Only a    *)
(* preauthenticated client gets the link, never the code, in the response.  *)
ReqPut(r, id, type, code) ==
    /\ pc[r] = "reqPut"
    /\ id \in Fresh
    /\ LET a == NewAuthRequest(req[r].target, id, type, req[r].device, code)
       IN  /\ authRequests' = Without(Key(a)) \cup {a}
           /\ \/ /\ Preauth(r)
                 /\ links' = IF code = NoCode THEN links \cup {Key(a)} ELSE links
                 /\ Finish(r)
              \/ /\ ~Preauth(r)
                 /\ ar' = [ar EXCEPT ![r] = a]
                 /\ Goto(r, "reqMail")
                 /\ UNCHANGED <<links, req, auth, acc>>
    /\ owner' = [owner EXCEPT ![id] = req[r].target]
    /\ UNCHANGED <<clock, accounts, stores, holder, sweep, exposed, gone>>

(* Below the rate limit the link is mailed.                                 *)
ReqMail(r) ==
    /\ pc[r] = "reqMail"
    /\ links' = links \cup {Key(ar[r])}
    /\ Finish(r)
    /\ UNCHANGED <<clock, storage, holder, sweep, owner, exposed, gone>>

(* Above it, the stored request stays behind.                               *)
ReqDenied(r) ==
    /\ pc[r] = "reqMail"
    /\ Finish(r)
    /\ UNCHANGED <<clock, storage, holder, sweep, history>>

-----------------------------------------------------------------------------
(* ActivateAuthToken: GetAuthRequest, then Activate, then Success.          *)
ActivateAuthToken(r, k) ==
    /\ Handling(r, "ActivateAuthToken")
    /\ k \in links
    /\ \/ Without(k) = authRequests /\ Finish(r)
       \/ \E a \in authRequests :
             /\ Key(a) = k
             /\ ar' = [ar EXCEPT ![r] = a]
             /\ Goto(r, "actGet")
             /\ UNCHANGED <<req, auth, acc>>
    /\ UNCHANGED <<clock, storage, holder, sweep, history>>

(* Activate reads the account whether the request holds its lock or not.    *)
ActGet(r) ==
    /\ pc[r] = "actGet"
    /\ LET e == ar[r].email
       IN  /\ acc' = [acc EXCEPT ![r] = IF accounts[e] = NoAccount THEN <<>>
                                                                   ELSE accounts[e]]
           /\ exposed' = [exposed EXCEPT ![e] = @ \/ ~Holds(r, e)]
    /\ Goto(r, "actPut")
    /\ UNCHANGED <<clock, storage, holder, req, auth, ar, sweep, owner, links, gone>>

(* A mutant: the device of the query lacks its UUID.                        *)
SameDevice_NoUUID(r) == Query(ar[r].token.type, NoId, NoUUID)

(* The tokens the new one replaces: those of the same type and device.      *)
SameDevice(r) ==
    Query(ar[r].token.type, NoId, ar[r].token.device)

(* One round of the loop that removes them.                                 *)
ActRemove(r) ==
    /\ pc[r] = "actPut"
    /\ Matching(acc[r], SameDevice(r)) # {}
    /\ acc' = [acc EXCEPT ![r] = RemoveAuthToken(@, SameDevice(r))]
    /\ UNCHANGED <<clock, storage, holder, pc, req, auth, ar, sweep, history>>

ActPut(r) ==
    /\ pc[r] = "actPut"
    /\ Matching(acc[r], SameDevice(r)) = {}
    /\ Len(acc[r]) < MaxTokens   \* bound
    /\ accounts' = [accounts EXCEPT ![ar[r].email] =
                                        AddAuthToken(acc[r], ar[r].token)]
    /\ acc' = [acc EXCEPT ![r] = <<>>]
    /\ Goto(r, "actDelete")
    /\ UNCHANGED <<clock, stores, authRequests, holder, req, auth, ar, sweep, history>>

(* A mutant: the request is not deleted.                                    *)
ActDelete_Kept(r) ==
    /\ pc[r] = "actDelete"
    /\ Finish(r)
    /\ UNCHANGED <<clock, storage, holder, sweep, history>>

(* Activating an api token by link also logs the browser in.                *)
ActDelete(r) ==
    /\ pc[r] = "actDelete"
    /\ authRequests' = Without(Key(ar[r]))
    /\ IF ar[r].token.type = "api" /\ ar[r].code = NoCode
       THEN Proceed(r, "actLogin") ELSE Finish(r)
    /\ UNCHANGED <<clock, accounts, stores, holder, sweep, history>>

(* The login token's request is activated at once and never stored.         *)
ActLogin(r, id) ==
    /\ pc[r] = "actLogin"
    /\ id \in Fresh
    /\ ar' = [ar EXCEPT ![r] =
                NewAuthRequest(@.email, id, "web", @.token.device, NoCode)]
    /\ owner' = [owner EXCEPT ![id] = ar[r].email]
    /\ Goto(r, "actGet")
    /\ UNCHANGED <<clock, storage, holder, req, auth, acc, sweep, links, exposed, gone>>

-----------------------------------------------------------------------------
(* ReadStore, AccountInfo and the Dashboard answer without changing a thing. *)
Read(r) ==
    /\ pc[r] = "handle"
    /\ req[r].op \in {"ReadStore", "AccountInfo"}
    /\ Finish(r)
    /\ UNCHANGED <<clock, storage, holder, sweep, history>>

WriteStore(r, content) ==
    /\ Handling(r, "WriteStore")
    /\ stores' = [stores EXCEPT ![req[r].email] = content]
    /\ Finish(r)
    /\ UNCHANGED <<clock, accounts, authRequests, holder, sweep, history>>

DeleteStore(r) ==
    /\ Handling(r, "DeleteStore")
    /\ stores' = [stores EXCEPT ![req[r].email] = NoStore]
    /\ Finish(r)
    /\ UNCHANGED <<clock, accounts, authRequests, holder, sweep, history>>

(* A mutant: the data store is left behind.                                 *)
DeleteAccount_StoreKept(r) ==
    /\ Handling(r, "DeleteAccount")
    /\ Proceed(r, "delAccount")
    /\ UNCHANGED <<clock, storage, holder, sweep, history>>

(* Server.DeleteAccount deletes the data store first, then the account.     *)
DeleteAccount(r) ==
    /\ Handling(r, "DeleteAccount")
    /\ stores' = [stores EXCEPT ![req[r].email] = NoStore]
    /\ Proceed(r, "delAccount")
    /\ UNCHANGED <<clock, accounts, authRequests, holder, sweep, history>>

DelAccount(r) ==
    /\ pc[r] = "delAccount"
    /\ accounts' = [accounts EXCEPT ![req[r].email] = NoAccount]
    /\ Finish(r)
    /\ UNCHANGED <<clock, stores, authRequests, holder, sweep, history>>

(* RemoveAuthToken looks for the token of this request and its device.      *)
Logout(r) ==
    /\ Handling(r, "Logout")
    /\ accounts' = [accounts EXCEPT ![req[r].email] =
                                        RemoveAuthToken(acc[r], auth[r])]
    /\ gone' = IF Matching(acc[r], auth[r]) = {} THEN gone
                                                ELSE gone \cup {auth[r].id}
    /\ Finish(r)
    /\ UNCHANGED <<clock, stores, authRequests, holder, sweep,
                   owner, links, exposed>>

(* A mutant: the token expires now, which is not yet.                       *)
Revoke_Now(r, id) ==
    /\ Handling(r, "Revoke")
    /\ LET q == Query("", id, NoDevice)
       IN  /\ Matching(acc[r], q) # {}
           /\ accounts' = [accounts EXCEPT ![req[r].email] =
                  [acc[r] EXCEPT ![findAuthToken(acc[r], q)].expires = clock]]
    /\ gone' = gone \cup {id}
    /\ Finish(r)
    /\ UNCHANGED <<clock, stores, authRequests, holder, sweep,
                   owner, links, exposed>>

(* Revoke expires a token of the account, named by its token or its id.     *)
Revoke(r, id) ==
    /\ Handling(r, "Revoke")
    /\ LET q == Query("", id, NoDevice)
           i == findAuthToken(acc[r], q)
       IN  /\ Matching(acc[r], q) # {}
           /\ accounts' = [accounts EXCEPT ![req[r].email] =
                              [acc[r] EXCEPT ![i].expires = clock - 1]]
    /\ gone' = gone \cup {id}
    /\ Finish(r)
    /\ UNCHANGED <<clock, stores, authRequests, holder, sweep,
                   owner, links, exposed>>

-----------------------------------------------------------------------------
(* Authentication fails on a storage error: as with wrong credentials, an   *)
(* endpoint that needs none goes on without.                                *)
AuthFail(r) ==
    /\ pc[r] \in {"authGet", "authPut"}
    /\ Unauthenticated(r)
    /\ UNCHANGED <<clock, storage, holder, sweep, history>>

(* The request r was activated, and is still there to be activated again.   *)
Cut(r) == pc[r] = "actDelete" /\ ar[r] \in authRequests

(* A storage call, or the generation of a token, returns an error.          *)
Fail(r) ==
    /\ pc[r] \in {"reqStore", "reqPut", "actGet", "actPut", "actDelete",
                  "actLogin", "delAccount"}
    /\ Finish(r)
    /\ exposed' = IF Cut(r) THEN [exposed EXCEPT ![ar[r].email] = TRUE]
                            ELSE exposed
    /\ UNCHANGED <<clock, storage, holder, sweep, owner, links, gone>>

(* The process dies and is started again: the storage is what is left.      *)
Crash ==
    /\ pc' = [r \in Requests |-> "idle"]
    /\ holder' = [e \in Emails |-> NoOne]
    /\ req' = [r \in Requests |-> NoRequest]
    /\ auth' = [r \in Requests |-> NoAuth]
    /\ acc' = [r \in Requests |-> <<>>]
    /\ ar' = [r \in Requests |-> Blank]
    /\ sweep' = {}
    /\ exposed' = [e \in Emails |->
                     exposed[e] \/ \E r \in Requests : Cut(r) /\ ar[r].email = e]
    /\ UNCHANGED <<clock, storage, owner, links, gone>>

-----------------------------------------------------------------------------
(* The cleanAuthRequests job walks over a snapshot of the requests and       *)
(* deletes the old ones; a deletion that fails is logged and skipped.  Its   *)
(* ticker first fires a day after the start.                                *)
CleanStart ==
    /\ sweep = {} /\ clock - StartTime >= RequestAge
    /\ sweep' = authRequests
    /\ UNCHANGED <<clock, storage, holder, pc, local, history>>

(* A mutant: as old as that is old enough.                                  *)
Old_OrEqual(a) == a.created <= clock - RequestAge

Old(a) == a.created < clock - RequestAge

CleanNext(a) ==
    /\ a \in sweep
    /\ sweep' = sweep \ {a}
    /\ \/ Old(a) /\ authRequests' = Without(Key(a))
       \/ UNCHANGED authRequests
    /\ UNCHANGED <<clock, accounts, stores, holder, pc, local, history>>

Tick ==
    /\ clock < MaxClock
    /\ clock' = clock + 1
    /\ UNCHANGED <<storage, holder, pc, local, sweep, history>>
-----------------------------------------------------------------------------
Keys == {<<i>> : i \in Ids} \cup (Emails \X Codes)

Arriving(r) ==
    \E op \in Ops, e \in Emails \cup {NoOne}, i \in Ids \cup {Skeleton, NoId},
       d \in Clients : Arrive(r, op, e, i, d)

Authenticating(r) ==
    AuthRefused(r) \/ AuthSkeleton(r) \/ AuthAccepted(r) \/ AuthPut(r)

Requesting(r) ==
    \/ \E e \in Emails, create \in BOOLEAN : RequestAuthToken(r, e, create)
    \/ ReqStore(r)
    \/ \E i \in Ids, t \in Types, c \in Codes \cup {NoCode} : ReqPut(r, i, t, c)
    \/ ReqMail(r)
    \/ ReqDenied(r)

Activating(r) ==
    \/ \E k \in links : ActivateAuthToken(r, k)
    \/ ActGet(r) \/ ActRemove(r) \/ ActPut(r) \/ ActDelete(r)
    \/ \E i \in Ids : ActLogin(r, i)

Using(r) ==
    \/ Read(r)
    \/ \E c \in Contents : WriteStore(r, c)
    \/ DeleteStore(r) \/ DeleteAccount(r) \/ DelAccount(r)
    \/ Logout(r)
    \/ \E i \in Ids : Revoke(r, i)

Serve(r) ==
    \/ LockAccount(r) \/ Authenticating(r) \/ Reject(r) \/ Requesting(r)
    \/ Activating(r) \/ Using(r) \/ UnlockAccount(r)

Next ==
    \/ \E r \in Requests : Arriving(r) \/ Serve(r) \/ AuthFail(r) \/ Fail(r)
    \/ Crash
    \/ CleanStart
    \/ \E a \in sweep : CleanNext(a)
    \/ Tick

Spec == Init /\ [][Next]_vars

(* A goroutine goes on running; Go's mutexes hand over to a waiter in the    *)
(* end (starvation mode), so a request that waits again and again gets in.   *)
Fair(r) ==
    /\ WF_vars(Serve(r) \/ AuthFail(r) \/ Fail(r))
    /\ SF_vars(LockAccount(r))

FairSpec == Spec /\ \A r \in Requests : Fair(r)

-----------------------------------------------------------------------------
AuthValue == [type : Types \cup {"skeleton"}, id : Ids \cup {Skeleton},
              device : Devices] \cup {NoAuth}

RequestValue == [op : AllOps \cup {""}, email : Emails \cup {NoOne},
                 id : Ids \cup {Skeleton, NoId}, device : Devices,
                 target : Emails \cup {NoOne}]

(* The parts of the type invariant.                                         *)
StorageOK ==
    /\ clock \in Nat /\ clock >= StartTime
    /\ accounts \in [Emails -> Seq(Token) \cup {NoAccount}]
    /\ stores \in [Emails -> Contents \cup {NoStore}]
    /\ authRequests \subseteq AuthRequest
    /\ sweep \subseteq AuthRequest

RequestsOK ==
    /\ pc \in [Requests -> Pcs]
    /\ req \in [Requests -> RequestValue]
    /\ auth \in [Requests -> AuthValue]
    /\ acc \in [Requests -> Seq(Token)]
    /\ ar \in [Requests -> AuthRequest \cup {Blank}]

HistoryOK ==
    /\ holder \in [Emails -> Requests \cup {NoOne}]
    /\ owner \in [Ids -> Emails \cup {NoOne}]
    /\ links \subseteq Keys
    /\ exposed \in [Emails -> BOOLEAN]
    /\ gone \subseteq Ids

(* auth.go:22-34, :167-176, :311-317: the storage, the requests and what is  *)
(* remembered about them hold values of their types.                        *)
TypeOK == StorageOK /\ RequestsOK /\ HistoryOK

(* The tokens on record for an account.                                     *)
Tokens(e) == IF accounts[e] = NoAccount THEN {}
             ELSE {accounts[e][i] : i \in DOMAIN accounts[e]}

(* handler.go:222 and :231: activating a token first removes those of the   *)
(* same type and device, "until no more tokens with the same UUID are       *)
(* found".  So an account never holds two tokens of one type for one        *)
(* device, whatever the requests that race on it.                           *)
OneTokenPerDevice ==
    \A e \in Emails : accounts[e] # NoAccount => UniqueDevices(accounts[e])

(* server.go:155: the data store is deleted before the account, and only a  *)
(* request that holds the account's lock writes it.  So no data is left     *)
(* behind without the account it belongs to, even when the process dies or  *)
(* the second deletion fails.                                               *)
NoOrphanStore ==
    \A e \in Emails : stores[e] # NoStore => accounts[e] # NoAccount

(* middleware.go:70: while a handler runs for an authenticated request, the *)
(* account it was handed is the stored one, unless an activation went past  *)
(* the lock: Logout and Revoke then overwrite nothing they have not read.   *)
CopyIsCurrent ==
    \A r \in Requests :
        pc[r] = "handle" /\ auth[r] # NoAuth /\ ~exposed[req[r].email]
            => accounts[req[r].email] = acc[r]

(* auth.go:173: the tokens of an account are "a set of api keys": none is   *)
(* listed twice as long as every activation ran under the account's lock    *)
(* and to its end.                                                          *)
TokensDistinct ==
    \A e \in Emails :
        accounts[e] # NoAccount /\ ~exposed[e] => Distinct(accounts[e])

(* What was ended and is still listed is expired.                           *)
Ended(e) == \A t \in Tokens(e) : t.id \in gone => Expired(t, clock)

(* server_test.go:727-730, auth.go:230: a token that was revoked or logged  *)
(* out is refused ever after, under the same condition.                     *)
GoneIsRefused == \A e \in Emails : ~exposed[e] => Ended(e)

(* Neither idle nor expired for too long.                                   *)
Good(t) == t.lastUsed > clock - MaxIdle /\ Retained(t, clock)

(* The step of r that takes the token t away.                               *)
Dismissed(r, e, t) ==
    \/ Handling(r, "Logout") /\ auth[r].id = t.id
    \/ pc[r] = "delAccount" /\ req[r].email = e
    \/ /\ pc[r] = "actPut" /\ ar[r].email = e
       /\ Matches(SameDevice(r), t)

(* server.go:192-227, handler.go:210-250: a token that is still good leaves *)
(* an account only by its own logout, by the activation of a token of the   *)
(* same type for the same device, or with the whole account; Authenticate,  *)
(* which rewrites the account for every request, never drops one.           *)
GoodTokensStay ==
    [][\A e \in Emails : \A t \in Tokens(e) :
          ~exposed[e] /\ Good(t) /\ t.id \notin {u.id : u \in Tokens(e)'}
              => \E r \in Requests : Dismissed(r, e, t)]_vars

(* handler.go:216: an account comes into being by an activation and in no   *)
(* other way: no request that was under way when the account was deleted    *)
(* writes it back.                                                          *)
OnlyActivationCreates ==
    [][\A e \in Emails : accounts[e] = NoAccount /\ accounts'[e] # NoAccount
          => \E r \in Requests : pc[r] = "actPut" /\ ar[r].email = e]_vars

(* server.go:555: the cleaning job deletes no request that a client may have *)
(* got a link for since it looked (a code can come up twice, a link cannot). *)
CleanedAreOld ==
    [][sweep' # sweep =>
          \A a \in authRequests \ authRequests' :
             a.code = NoCode => a.created < clock - RequestAge]_vars

(* middleware.go:78-79: LockAccount is released however a handler ends, so  *)
(* every request is answered, whoever it had to wait for.                   *)
EveryRequestEnds ==
    \A r \in Requests : pc[r] # "idle" ~> pc[r] = "idle"

-----------------------------------------------------------------------------
(* What comments and tests say of the program, and it does not keep.        *)

(* server_test.go:727-730: after /revoke/ the token is answered with        *)
(* ExpiredAuthToken.                                                        *)
RevokedIsRefused == \A e \in Emails : Ended(e)

(* server.go:226 "Save account info to persist last used data for auth      *)
(* tokens": what Authenticate is about to save has the accepted token used  *)
(* now.                                                                     *)
LastUsedSaved ==
    [][\A r \in Requests : AuthAccepted(r) =>
          \E i \in DOMAIN acc'[r] : /\ acc'[r][i].id = req[r].id
                                   /\ acc'[r][i].lastUsed = clock]_vars

-----------------------------------------------------------------------------
(* middleware.go:70-84: the account lock is taken here for the mutex that   *)
(* AccountLock implements, never broken.                                    *)
Mutex == INSTANCE AccountMutex WITH
    Users <- Requests, Accounts <- Emails,
    inside <- [e \in Emails |-> {holder[e]} \ {NoOne}], broken <- {}

UsesMutex == Mutex!MutexSpec

-----------------------------------------------------------------------------
(* What Accounts promises, of the accounts as sets of tokens and of the     *)
(* tokens of each that were ended; {NoAccount} is no set of tokens.         *)
TokenSets ==
    [e \in Emails |-> IF accounts[e] = NoAccount THEN {NoAccount}
                     ELSE {accounts[e][i] : i \in DOMAIN accounts[e]}]

EndedTokens == [e \in Emails |-> {i \in gone : owner[i] = e}]

Promise == INSTANCE Accounts WITH
    now <- clock, data <- stores, shared <- exposed,
    listed <- TokenSets, ended <- EndedTokens, NoAccount <- {NoAccount}

(* server.go:181-230, handler.go:210-250: whatever requests race on an       *)
(* account, each changes it as if it ran alone, on the account as it is at   *)
(* that moment: none works on tokens that another has added, used, replaced  *)
(* or ended meanwhile, until an activation has gone past the lock.           *)
KeepsPromise == Promise!AccountsSpec
=============================================================================
