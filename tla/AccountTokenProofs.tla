-------------------------- MODULE AccountTokenProofs --------------------------
(***************************************************************************)
(* What the token lists of the accounts hold, whatever requests race:      *)
(* never two tokens of one type for one device; and, as long as every      *)
(* activation runs under the account's lock and to its end, no token twice, *)
(* none that was ended and is not expired, and all that are still good.     *)
(***************************************************************************)
EXTENDS AccountServiceProofs

(* The handlers' copies are as good as the accounts.                        *)
CopiesUnique == \A r \in Requests : UniqueDevices(acc[r])

DeviceInv == TypeInv /\ OneTokenPerDevice /\ CopiesUnique

USE ServiceAssumption, AgesAssumption, NamesAssumption

-----------------------------------------------------------------------------
LEMMA EmptyUnique == UniqueDevices(<<>>)
BY DEF UniqueDevices

LEMMA LiveUnique ==
  ASSUME NEW s \in Seq(Token), UniqueDevices(s)
  PROVE  UniqueDevices(LiveTokens(s))
<1> DEFINE x == ExpireUnusedAuthTokens(s, clock)
<1>1. x \in Seq(Token) /\ UniqueDevices(x)
  BY KeepUnique DEF ExpireUnusedAuthTokens
<1> HIDE DEF x
<1>2. UniqueDevices(RemoveExpiredAuthTokens(x, clock))
  BY <1>1, KeepUnique DEF RemoveExpiredAuthTokens
<1>3. QED
  BY <1>2 DEF LiveTokens, x

(* A step that saves only such lists, and copies only such lists.           *)
LEMMA ListsKept ==
  ASSUME DeviceInv, TypeInv', NEW r \in Requests,
         \/ acc' = acc
         \/ \E z : acc' = [acc EXCEPT ![r] = z] /\ UniqueDevices(z),
         \/ accounts' = accounts
         \/ \E e, z : accounts' = [accounts EXCEPT ![e] = z] /\ UniqueDevices(z)
         \/ \E e : accounts' = [accounts EXCEPT ![e] = NoAccount]
  PROVE  DeviceInv'
<1>1. acc \in [Requests -> Seq(Token)]
      /\ accounts \in [Emails -> Seq(Token) \cup {NoAccount}]
  BY DEF DeviceInv, TypeInv, TypeOK, RequestsOK, StorageOK
<1>2. ASSUME NEW q \in Requests PROVE UniqueDevices(acc[q])'
  <2>1. UniqueDevices(acc[q])
    BY DEF DeviceInv, CopiesUnique
  <2>2. acc'[q] = acc[q] \/ UniqueDevices(acc'[q])
    BY <1>1
  <2>3. QED
    BY <2>1, <2>2
<1>3. ASSUME NEW e \in Emails, accounts'[e] # NoAccount
      PROVE  UniqueDevices(accounts'[e])
  <2>1. accounts[e] # NoAccount => UniqueDevices(accounts[e])
    BY DEF DeviceInv, OneTokenPerDevice
  <2>2. accounts'[e] = accounts[e] \/ UniqueDevices(accounts'[e])
    BY <1>1, <1>3
  <2>3. QED
    BY <1>3, <2>1, <2>2
<1>4. QED
  BY <1>2, <1>3 DEF DeviceInv, CopiesUnique, OneTokenPerDevice

-----------------------------------------------------------------------------
LEMMA InitDeviceInv == Init => DeviceInv
<1> SUFFICES ASSUME Init PROVE DeviceInv
  OBVIOUS
<1>1. CopiesUnique
  BY EmptyUnique DEF Init, CopiesUnique
<1>2. OneTokenPerDevice
  BY DEF Init, OneTokenPerDevice
<1>3. QED
  BY InitTypeInv, <1>1, <1>2 DEF DeviceInv

LEMMA NextDeviceInv == DeviceInv /\ [Next]_vars => DeviceInv'
<1> SUFFICES ASSUME DeviceInv, [Next]_vars PROVE DeviceInv'
  OBVIOUS
<1>a. TypeInv'
  BY NextTypeInv DEF DeviceInv
<1>b. LocalInv /\ TypeInv
  BY DEF DeviceInv, TypeInv, TypeOK, LocalInv
<1>c. \A r \in Requests : UniqueDevices(acc[r])
  BY DEF DeviceInv, CopiesUnique
<1>d. \A e \in Emails : accounts[e] # NoAccount =>
          accounts[e] \in Seq(Token) /\ UniqueDevices(accounts[e])
  BY DEF DeviceInv, TypeInv, TypeOK, StorageOK, OneTokenPerDevice
<1>1. ASSUME NEW r \in Requests, AuthSkeleton(r) PROVE DeviceInv'
  <2> DEFINE z == LiveTokens(accounts[req[r].email])
  <2>1. req[r].email \in Emails /\ accounts[req[r].email] # NoAccount
    BY <1>1, <1>b, Values DEF AuthSkeleton, ReachAt
  <2>2. UniqueDevices(z)
    BY <1>d, <2>1, LiveUnique
  <2>3. QED
    BY <1>1, <1>a, <2>2, ListsKept DEF AuthSkeleton, storage
<1>2. ASSUME NEW r \in Requests, AuthAccepted(r) PROVE DeviceInv'
  <2> DEFINE s == LiveTokens(accounts[req[r].email])
             z == UpdateAuthToken(s, Used(r))
  <2>1. /\ req[r].email \in Emails /\ accounts[req[r].email] # NoAccount
        /\ s \in Seq(Token) /\ Used(r) \in Token /\ acc' = [acc EXCEPT ![r] = z]
    BY <1>2, <1>b, UsedTyped
  <2>2. UniqueDevices(s)
    BY <1>d, <2>1, LiveUnique
  <2> HIDE DEF s
  <2>3. UniqueDevices(z)
    BY <2>1, <2>2, UpdateUnique
  <2>4. accounts' = accounts
    BY <1>2 DEF AuthAccepted, storage
  <2>5. QED
    BY <1>a, <2>1, <2>3, <2>4, ListsKept
<1>3. ASSUME NEW r \in Requests, AuthPut(r) PROVE DeviceInv'
  <2>1. acc' = acc \/ acc' = [acc EXCEPT ![r] = <<>>]
    BY <1>3 DEF AuthPut, Proceed, Finish, local
  <2>2. QED
    BY <1>3, <1>a, <1>c, <2>1, EmptyUnique, ListsKept DEF AuthPut
<1>4. ASSUME NEW r \in Requests, ActGet(r) PROVE DeviceInv'
  <2> DEFINE e == ar[r].email
             z == IF accounts[e] = NoAccount THEN <<>> ELSE accounts[e]
  <2>1. ar[r] \in AuthRequest
    BY <1>4, <1>b, Values DEF ActGet, ReachAt
  <2>2. UniqueDevices(z)
    BY <1>d, <2>1, EmptyUnique DEF AuthRequest
  <2>3. acc' = [acc EXCEPT ![r] = z] /\ accounts' = accounts
    BY <1>4 DEF ActGet, storage
  <2> HIDE DEF z
  <2>4. QED
    BY <1>a, <2>2, <2>3, ListsKept
<1>5. ASSUME NEW r \in Requests, ActRemove(r) PROVE DeviceInv'
  <2> DEFINE z == RemoveAuthToken(acc[r], SameDevice(r))
  <2>1. UniqueDevices(z)
    BY <1>b, <1>c, Values, RemoveUnique
  <2>2. acc' = [acc EXCEPT ![r] = z] /\ accounts' = accounts
    BY <1>5 DEF ActRemove, storage
  <2> HIDE DEF z
  <2>3. QED
    BY <1>a, <2>1, <2>2, ListsKept
<1>6. ASSUME NEW r \in Requests, ActPut(r) PROVE DeviceInv'
  <2> DEFINE z == AddAuthToken(acc[r], ar[r].token)
  <2>1. acc[r] \in Seq(Token) /\ ar[r].token \in Token
    BY <1>6, <1>b, Values DEF ActPut, ReachAt, AuthRequest
  <2>2. UniqueDevices(z)
    BY <1>6, <1>c, <2>1, AddUnique DEF ActPut, SameDevice
  <2>3. acc' = [acc EXCEPT ![r] = <<>>]
        /\ accounts' = [accounts EXCEPT ![ar[r].email] = z]
    BY <1>6 DEF ActPut
  <2> HIDE DEF z
  <2>4. QED
    BY <1>a, <2>2, <2>3, EmptyUnique, ListsKept
<1>7. ASSUME NEW r \in Requests, Logout(r) PROVE DeviceInv'
  <2> DEFINE z == RemoveAuthToken(acc[r], auth[r])
  <2>1. UniqueDevices(z)
    BY <1>b, <1>c, Values, RemoveUnique
  <2>2. acc' = [acc EXCEPT ![r] = <<>>]
        /\ accounts' = [accounts EXCEPT ![req[r].email] = z]
    BY <1>7 DEF Logout, Finish
  <2> HIDE DEF z
  <2>3. QED
    BY <1>a, <2>1, <2>2, EmptyUnique, ListsKept
<1>8. ASSUME NEW r \in Requests, NEW i \in Ids, Revoke(r, i) PROVE DeviceInv'
  <2> DEFINE k == findAuthToken(acc[r], Query("", i, NoDevice))
             z == [acc[r] EXCEPT ![k].expires = clock - 1]
  <2>1. acc[r] \in Seq(Token) /\ UniqueDevices(acc[r])
    BY <1>b, <1>c, Values
  <2>2. acc' = [acc EXCEPT ![r] = <<>>]
        /\ accounts' = [accounts EXCEPT ![req[r].email] = z]
    BY <1>8 DEF Revoke, Finish
  <2> HIDE DEF k
  <2>3. /\ DOMAIN z = DOMAIN acc[r]
        /\ \A j \in DOMAIN z : /\ z[j].type = acc[r][j].type
                               /\ z[j].device = acc[r][j].device
    <3>1. \A j \in DOMAIN acc[r] : acc[r][j] \in Token
      BY <2>1
    <3>2. QED
      BY <2>1, <3>1 DEF Token
  <2> HIDE DEF z
  <2>4. UniqueDevices(z)
    BY <2>1, <2>3 DEF UniqueDevices
  <2>5. QED
    BY <1>a, <2>2, <2>4, EmptyUnique, ListsKept
<1>9. ASSUME NEW r \in Requests, DelAccount(r) PROVE DeviceInv'
  BY <1>9, <1>a, EmptyUnique, ListsKept DEF DelAccount, Finish
<1>10. ASSUME NEW r \in Requests,
              \/ AuthRefused(r) \/ AuthFail(r) \/ Fail(r) \/ Reject(r) \/ Read(r)
              \/ Requesting(r) \/ DeleteStore(r) \/ DeleteAccount(r)
              \/ \E c \in Contents : WriteStore(r, c)
              \/ \E k \in links : ActivateAuthToken(r, k)
              \/ ActDelete(r) \/ \E i \in Ids : ActLogin(r, i)
              \/ Arriving(r) \/ LockAccount(r) \/ UnlockAccount(r)
       PROVE  DeviceInv'
  <2>1. acc' = acc \/ acc' = [acc EXCEPT ![r] = <<>>]
    BY <1>10 DEF AuthRefused, AuthFail, Unauthenticated, Fail, Reject, Read,
      Requesting, RequestAuthToken, ReqStore, ReqPut, ReqMail, ReqDenied,
      DeleteStore, DeleteAccount, WriteStore, ActivateAuthToken, ActDelete,
      ActLogin, Arriving, Arrive, LockAccount, UnlockAccount, Proceed, Finish, local
  <2>2. accounts' = accounts
    BY <1>10 DEF AuthRefused, AuthFail, Fail, Reject, Read,
      Requesting, RequestAuthToken, ReqStore, ReqPut, ReqMail, ReqDenied,
      DeleteStore, DeleteAccount, WriteStore, ActivateAuthToken, ActDelete,
      ActLogin, Arriving, Arrive, LockAccount, UnlockAccount, storage
  <2>3. QED
    BY <1>10, <1>a, <2>1, <2>2, EmptyUnique, ListsKept
<1>11. CASE Crash
  <2>1. accounts' = accounts /\ \A r \in Requests : acc'[r] = <<>>
    BY <1>11 DEF Crash, storage
  <2>2. QED
    BY <1>a, <2>1, EmptyUnique DEF DeviceInv, CopiesUnique, OneTokenPerDevice
<1>12. CASE \/ CleanStart \/ Tick \/ UNCHANGED vars
            \/ \E a \in sweep : CleanNext(a)
  <2>1. accounts' = accounts /\ acc' = acc
    BY <1>12 DEF CleanStart, CleanNext, Tick, vars, storage, local
  <2>2. QED
    BY <1>a, <2>1 DEF DeviceInv, CopiesUnique, OneTokenPerDevice
<1>13. QED
  BY <1>1, <1>2, <1>3, <1>4, <1>5, <1>6, <1>7, <1>8, <1>9, <1>10, <1>11, <1>12
     DEF Next, Serve, Authenticating, Activating, Using

(* handler.go:222 and :231: an account never holds two tokens of one type   *)
(* for one device.                                                          *)
THEOREM ServiceOneTokenPerDevice == Spec => []OneTokenPerDevice
<1>1. DeviceInv => OneTokenPerDevice
  BY DEF DeviceInv
<1>2. QED
  BY InitDeviceInv, NextDeviceInv, <1>1, PTL DEF Spec

-----------------------------------------------------------------------------
(* Whose a token is.  Every token, wherever it is listed, copied, waited    *)
(* for or ended, was generated for one account, by one request.             *)
Listed(e) == {t.id : t \in Tokens(e)}

Known == authRequests \cup sweep \cup {ar[r] : r \in {q \in Requests : ar[q] # Blank}}

OneRequest == \A a, b \in Known : a.token.id = b.token.id => a = b

RequestsOwned == \A a \in Known : owner[a.token.id] = a.email
ListsOwned == \A e \in Emails : \A i \in Listed(e) : owner[i] = e
GoneOwned == \A i \in gone : owner[i] \in Emails

(* The account that r has a copy of.                                        *)
CopyOf(r) == IF pc[r] = "actPut" THEN ar[r].email ELSE req[r].email

CopyOwned(r) ==
    /\ \A i \in IdsOf(acc[r]) : owner[i] = CopyOf(r) /\ owner[i] # NoOne
    /\ pc[r] \in {"idle", "lock", "authGet", "unlock", "actDelete", "actLogin"}
          => acc[r] = <<>>

OwnInv ==
    /\ SafeInv /\ OneRequest /\ RequestsOwned /\ ListsOwned /\ GoneOwned
    /\ \A r \in Requests : CopyOwned(r)

(* No token is generated, or the one of the request b.                      *)
Generated ==
    \/ owner' = owner /\ Known' \subseteq Known
    \/ \E b \in AuthRequest :
          /\ b.token.id \in Fresh
          /\ owner' = [owner EXCEPT ![b.token.id] = b.email]
          /\ Known' \subseteq Known \cup {b}

LEMMA KnownTyped == ASSUME TypeInv PROVE Known \subseteq AuthRequest
BY DEF TypeInv, TypeOK, StorageOK, RequestsOK, Known

LEMMA OwnersTyped ==
  ASSUME TypeInv
  PROVE  owner \in [Ids -> Emails \cup {NoOne}] /\ NoOne \notin Emails
BY DEF TypeInv, TypeOK, HistoryOK

LEMMA OwnedKept ==
  ASSUME OwnInv, SafeInv', Generated,
         \A e \in Emails : \A i \in Listed(e)' : owner[i] = e,
         \A i \in gone' : owner[i] \in Emails,
         \A q \in Requests :
            /\ \A i \in IdsOf(acc'[q]) : owner[i] = CopyOf(q)' /\ owner[i] # NoOne
            /\ pc'[q] \in {"idle", "lock", "authGet", "unlock", "actDelete", "actLogin"}
                  => acc'[q] = <<>>
  PROVE  OwnInv'
<1>a. /\ Known \subseteq AuthRequest /\ NoOne \notin Emails
      /\ owner \in [Ids -> Emails \cup {NoOne}]
  BY KnownTyped, OwnersTyped DEF OwnInv, SafeInv
<1>b. \A a \in AuthRequest : a.token.id \in Ids /\ a.email \in Emails
  BY DEF AuthRequest, Token
<1>c. OneRequest /\ RequestsOwned
  BY DEF OwnInv
<1>1. \A i \in Ids : owner[i] # NoOne => owner'[i] = owner[i]
  BY <1>a, <1>b DEF Generated, Fresh
<1>2. OneRequest' /\ RequestsOwned'
  <2>1. CASE owner' = owner /\ Known' \subseteq Known
    BY <1>c, <2>1 DEF OneRequest, RequestsOwned
  <2>2. CASE \E b \in AuthRequest :
               /\ b.token.id \in Fresh
               /\ owner' = [owner EXCEPT ![b.token.id] = b.email]
               /\ Known' \subseteq Known \cup {b}
    <3>1. PICK b \in AuthRequest :
               /\ b.token.id \in Fresh
               /\ owner' = [owner EXCEPT ![b.token.id] = b.email]
               /\ Known' \subseteq Known \cup {b}
      BY <2>2
    <3>2. \A a \in Known : a.token.id # b.token.id
      BY <1>a, <1>b, <1>c, <3>1 DEF RequestsOwned, Fresh
    <3>3. OneRequest'
      BY <1>c, <3>1, <3>2 DEF OneRequest
    <3>4. RequestsOwned'
      BY <1>a, <1>b, <1>c, <3>1, <3>2 DEF RequestsOwned
    <3>5. QED
      BY <3>3, <3>4
  <2>3. QED
    BY <2>1, <2>2 DEF Generated
<1>d. TypeInv'
  BY DEF SafeInv
<1>3. ListsOwned'
  <2>1. ASSUME NEW e \in Emails, NEW i \in Listed(e)' PROVE owner'[i] = e
    <3>1. accounts'[e] \in Seq(Token) \cup {NoAccount}
      BY <1>d DEF TypeInv, TypeOK, StorageOK
    <3>2. Tokens(e)' \subseteq Token
      BY <3>1 DEF Tokens
    <3>3. i \in Ids
      BY <2>1, <3>2 DEF Listed, Token
    <3>4. QED
      BY <1>1, <1>a, <2>1, <3>3
  <2>2. QED
    BY <2>1 DEF ListsOwned
<1>4. GoneOwned'
  <2>1. gone' \subseteq Ids
    BY <1>d DEF TypeInv, TypeOK, HistoryOK
  <2>2. QED
    BY <1>1, <1>a, <2>1 DEF GoneOwned
<1>5. ASSUME NEW q \in Requests PROVE CopyOwned(q)'
  <2>1. acc'[q] \in Seq(Token)
    BY <1>d DEF TypeInv, TypeOK, RequestsOK
  <2>2. ASSUME NEW i \in IdsOf(acc'[q])
        PROVE  owner'[i] = CopyOf(q)' /\ owner'[i] # NoOne
    <3>1. i \in Ids
      BY <2>1, <2>2, TypedElements DEF IdsOf
    <3>2. owner[i] = CopyOf(q)' /\ owner[i] # NoOne
      BY <2>2
    <3>3. QED
      BY <1>1, <3>1, <3>2
  <2>3. QED
    BY <2>2 DEF CopyOwned
<1>6. QED
  BY <1>2, <1>3, <1>4, <1>5 DEF OwnInv

(* What each step of a handler does to the names of tokens.                 *)
LEMMA FinishEffect ==
  ASSUME TypeInv, NEW r \in Requests, Finish(r)
  PROVE  pc'[r] \in {"idle", "unlock"} /\ acc'[r] = <<>> /\ ar'[r] = Blank
BY DEF Finish, Goto, TypeInv, TypeOK, RequestsOK

LEMMA KnownStep ==
  ASSUME NEW r \in Requests, Frame(r), TypeInv, NEW B,
         authRequests' \subseteq Known \cup B, sweep' \subseteq Known \cup B,
         ar'[r] \in Known \cup B \cup {Blank}
  PROVE  Known' \subseteq Known \cup B
<1>1. ASSUME NEW q \in Requests, ar'[q] # Blank PROVE ar'[q] \in Known \cup B
  BY <1>1 DEF Frame, Known
<1>2. QED
  BY <1>1 DEF Known

(* Steps that list, end and generate no token.                              *)
Quiet(r) ==
    \/ AuthRefused(r) \/ AuthFail(r) \/ Fail(r) \/ Reject(r) \/ Read(r)
    \/ \E e \in Emails, create \in BOOLEAN : RequestAuthToken(r, e, create)
    \/ ReqStore(r) \/ ReqMail(r) \/ ReqDenied(r)
    \/ DeleteStore(r) \/ DeleteAccount(r) \/ \E c \in Contents : WriteStore(r, c)
    \/ ActDelete(r)

QuietStep(r) ==
    /\ UNCHANGED <<accounts, owner, gone, sweep, clock>>
    /\ authRequests' \subseteq authRequests
    /\ ar'[r] \in {ar[r], Blank}
    /\ \/ acc'[r] = <<>>
       \/ /\ acc'[r] = acc[r] /\ pc[r] \in {"handle", "reqStore"}
          /\ pc'[r] \in {"handle", "reqStore", "reqPut", "delAccount"}
    /\ pc'[r] \notin {"authPut", "actGet", "actPut", "actDelete"}
    /\ pc[r] = "actDelete" => ar[r] \notin authRequests' \/ exposed'[ar[r].email]

LEMMA QuietSteps ==
  ASSUME OwnInv, NEW r \in Requests, Quiet(r)
  PROVE  QuietStep(r)
<1>a. TypeInv /\ RequestsOK /\ HistoryOK
  BY DEF OwnInv, SafeInv, TypeInv, TypeOK
<1>b. pc[r] = "actDelete" => acc[r] = <<>> /\ ar[r].email \in Emails
  <2>1. CopyOwned(r)
    BY DEF OwnInv
  <2>2. pc[r] = "actDelete" => ar[r] \in AuthRequest
    BY <1>a, Typed DEF ReachAt
  <2>3. QED
    BY <2>1, <2>2 DEF CopyOwned, AuthRequest
<1>1. ASSUME \/ AuthRefused(r) \/ AuthFail(r) \/ Reject(r) \/ Read(r)
             \/ ReqMail(r) \/ ReqDenied(r)
             \/ DeleteStore(r) \/ \E c \in Contents : WriteStore(r, c)
      PROVE  QuietStep(r)
  <2>1. /\ UNCHANGED <<accounts, owner, gone, sweep, clock, authRequests>>
        /\ pc[r] # "actDelete"
    BY <1>1 DEF AuthRefused, AuthFail, Reject, Read, ReqMail, ReqDenied, DeleteStore,
                WriteStore, Handling, storage, history
  <2>2. \/ Finish(r)
        \/ pc'[r] = "handle" /\ acc'[r] = <<>> /\ ar'[r] = ar[r]
    BY <1>1, <1>a DEF AuthRefused, AuthFail, Unauthenticated, Goto, Reject, Read,
                ReqMail, ReqDenied, DeleteStore, WriteStore, RequestsOK
  <2>3. QED
    BY <1>a, <2>1, <2>2, FinishEffect DEF QuietStep
<1>2. ASSUME \/ \E e \in Emails, create \in BOOLEAN : RequestAuthToken(r, e, create)
             \/ ReqStore(r) \/ DeleteAccount(r)
      PROVE  QuietStep(r)
  <2>1. /\ UNCHANGED <<accounts, owner, gone, sweep, clock, authRequests>>
        /\ pc[r] \in {"handle", "reqStore"}
    BY <1>2 DEF RequestAuthToken, ReqStore, DeleteAccount, Handling, storage, history
  <2>2. \/ Finish(r)
        \/ /\ pc'[r] \in {"reqStore", "reqPut", "delAccount"}
           /\ acc'[r] = acc[r] /\ ar'[r] = ar[r]
    BY <1>2, <1>a DEF RequestAuthToken, ReqStore, DeleteAccount, Proceed, Goto, local,
                RequestsOK
  <2>3. QED
    BY <1>a, <2>1, <2>2, FinishEffect DEF QuietStep
<1>3. ASSUME Fail(r) PROVE QuietStep(r)
  <2>1. UNCHANGED <<accounts, owner, gone, sweep, clock, authRequests>> /\ Finish(r)
    BY <1>3 DEF Fail, storage
  <2>2. pc[r] = "actDelete" => ar[r] \notin authRequests' \/ exposed'[ar[r].email]
    BY <1>3, <1>a, <1>b, <2>1 DEF Fail, Cut, HistoryOK
  <2>3. QED
    BY <1>a, <2>1, <2>2, FinishEffect DEF QuietStep
<1>4. ASSUME ActDelete(r) PROVE QuietStep(r)
  <2>1. /\ UNCHANGED <<accounts, owner, gone, sweep, clock>>
        /\ authRequests' = Without(Key(ar[r])) /\ pc[r] = "actDelete"
    BY <1>4 DEF ActDelete, history
  <2>2. authRequests' \subseteq authRequests /\ ar[r] \notin authRequests'
    BY <2>1 DEF Without
  <2>3. \/ Finish(r)
        \/ pc'[r] = "actLogin" /\ acc'[r] = acc[r] /\ ar'[r] = ar[r]
    BY <1>4, <1>a DEF ActDelete, Proceed, Goto, local, RequestsOK
  <2>4. QED
    BY <1>a, <1>b, <2>1, <2>2, <2>3, FinishEffect DEF QuietStep
<1>5. QED
  BY <1>1, <1>2, <1>3, <1>4 DEF Quiet

LEMMA ListedIds ==
  ASSUME NEW e \in Emails
  PROVE  Listed(e) = IF accounts[e] = NoAccount THEN {} ELSE IdsOf(accounts[e])
BY DEF Listed, Tokens, IdsOf, Elements

(* An account is written.                                                   *)
LEMMA ListWritten ==
  ASSUME OwnInv, NEW f, NEW z, accounts' = [accounts EXCEPT ![f] = z],
         z # NoAccount => \A i \in IdsOf(z) : owner[i] = f
  PROVE  \A e \in Emails : \A i \in Listed(e)' : owner[i] = e
<1>1. accounts \in [Emails -> Seq(Token) \cup {NoAccount}]
  BY DEF OwnInv, SafeInv, TypeInv, TypeOK, StorageOK
<1>2. ASSUME NEW e \in Emails, NEW i \in Listed(e)' PROVE owner[i] = e
  <2>1. accounts'[e] # NoAccount /\ i \in IdsOf(accounts'[e])
    BY <1>2 DEF Listed, Tokens, IdsOf, Elements
  <2>2. CASE e = f
    BY <1>1, <2>1, <2>2
  <2>3. CASE e # f
    <3>1. accounts'[e] = accounts[e]
      BY <1>1, <2>3
    <3>2. i \in Listed(e)
      BY <2>1, <3>1, ListedIds
    <3>3. QED
      BY <3>2 DEF OwnInv, ListsOwned
  <2>4. QED
    BY <2>2, <2>3
<1>3. QED
  BY <1>2

LEMMA ListsSame ==
  ASSUME OwnInv, accounts' = accounts
  PROVE  \A e \in Emails : \A i \in Listed(e)' : owner[i] = e
<1>1. ASSUME NEW e \in Emails PROVE Listed(e)' = Listed(e)
  BY DEF Listed, Tokens
<1>2. QED
  BY <1>1 DEF OwnInv, ListsOwned

LEMMA FramedOwned ==
  ASSUME OwnInv, SafeInv', NEW r \in Requests, Frame(r), Generated,
         \A e \in Emails : \A i \in Listed(e)' : owner[i] = e,
         \A i \in gone' : owner[i] \in Emails,
         \A i \in IdsOf(acc'[r]) : owner[i] = CopyOf(r)' /\ owner[i] # NoOne,
         pc'[r] \in {"idle", "lock", "authGet", "unlock", "actDelete", "actLogin"}
            => acc'[r] = <<>>
  PROVE  OwnInv'
<1>1. ASSUME NEW q \in Requests
      PROVE  /\ \A i \in IdsOf(acc'[q]) : owner[i] = CopyOf(q)' /\ owner[i] # NoOne
             /\ pc'[q] \in {"idle", "lock", "authGet", "unlock", "actDelete", "actLogin"}
                   => acc'[q] = <<>>
  <2>1. CASE q = r
    BY <2>1
  <2>2. CASE q # r
    <3>1. CopyOwned(q)
      BY DEF OwnInv
    <3>2. pc'[q] = pc[q] /\ req'[q] = req[q] /\ acc'[q] = acc[q] /\ ar'[q] = ar[q]
      BY <2>2 DEF Frame
    <3>3. CopyOf(q)' = CopyOf(q)
      BY <3>2 DEF CopyOf
    <3>4. QED
      BY <3>1, <3>2, <3>3 DEF CopyOwned
  <2>3. QED
    BY <2>1, <2>2
<1>2. QED
  BY <1>1, OwnedKept

(* A handler's step, framed.                                                *)
LEMMA ActingSafe ==
  ASSUME SafeInv, NEW r \in Requests, Acting(r)
  PROVE  Frame(r) /\ SafeInv' /\ TypeInv /\ TypeInv'
<1>1. Next
  BY DEF Acting, Next, Serve
<1>2. SafeInv'
  BY <1>1, NextSafeInv
<1>3. QED
  BY <1>2, Acts DEF SafeInv

(* What a request knows of itself.                                          *)
LEMMA OwnFacts ==
  ASSUME OwnInv, NEW r \in Requests
  PROVE  /\ acc[r] \in Seq(Token)
         /\ \A i \in IdsOf(acc[r]) : owner[i] = CopyOf(r) /\ owner[i] # NoOne
         /\ pc[r] \in {"reqMail", "actGet", "actPut", "actDelete", "actLogin"} =>
              /\ ar[r] \in AuthRequest /\ ar[r] \in Known
              /\ ar[r].email \in Emails /\ ar[r].token \in Token
              /\ owner[ar[r].token.id] = ar[r].email
         /\ pc[r] \in {"authPut", "delAccount"} => req[r].email \in Emails
         /\ pc[r] = "handle" /\ auth[r] # NoAuth => req[r].email \in Emails
<1>1. TypeInv
  BY DEF OwnInv, SafeInv
<1>2. acc[r] \in Seq(Token) /\ ReachAt(pc[r], req[r], auth[r], ar[r])
  BY <1>1, Typed
<1>3. \A i \in IdsOf(acc[r]) : owner[i] = CopyOf(r) /\ owner[i] # NoOne
  BY DEF OwnInv, CopyOwned
<1>4. ASSUME pc[r] \in {"reqMail", "actGet", "actPut", "actDelete", "actLogin"}
      PROVE  /\ ar[r] \in AuthRequest /\ ar[r] \in Known
             /\ ar[r].email \in Emails /\ ar[r].token \in Token
             /\ owner[ar[r].token.id] = ar[r].email
  <2>1. ar[r] \in AuthRequest
    BY <1>2, <1>4 DEF ReachAt
  <2>2. ar[r] # Blank
    BY <2>1 DEF AuthRequest, Blank
  <2>3. ar[r] \in Known
    BY <2>2 DEF Known
  <2>4. QED
    BY <2>1, <2>3 DEF OwnInv, RequestsOwned, AuthRequest
<1>5. QED
  BY <1>2, <1>3, <1>4 DEF ReachAt

(* A list that Authenticate, Logout and Revoke take from an account.        *)
LEMMA LiveElements ==
  ASSUME NEW s \in Seq(Token)
  PROVE  /\ LiveTokens(s) \in Seq(Token)
         /\ Elements(LiveTokens(s)) = {t \in Elements(s) : Good(t)}
         /\ IdsOf(LiveTokens(s)) \subseteq IdsOf(s)
         /\ Distinct(s) => Distinct(LiveTokens(s))
<1> DEFINE x == ExpireUnusedAuthTokens(s, clock)
           y == RemoveExpiredAuthTokens(x, clock)
<1>1. /\ x \in Seq(Token) /\ (Distinct(s) => Distinct(x))
      /\ Elements(x) = {t \in Elements(s) : t.lastUsed > clock - MaxIdle}
  BY UsedElements
<1> HIDE DEF x
<1>2. /\ y \in Seq(Token) /\ (Distinct(x) => Distinct(y))
      /\ Elements(y) = {t \in Elements(x) : Retained(t, clock)}
  BY <1>1, RetainedElements
<1>3. LiveTokens(s) = y
  BY DEF LiveTokens, x
<1> HIDE DEF y
<1>4. Elements(y) = {t \in Elements(s) : Good(t)}
  BY <1>1, <1>2 DEF Good
<1>5. IdsOf(y) \subseteq IdsOf(s)
  BY <1>4 DEF IdsOf
<1>6. QED
  BY <1>1, <1>2, <1>3, <1>4, <1>5

(* The token a request is accepted by is listed and not expired; it becomes *)
(* used now, and keeps name and expiry.                                     *)
LEMMA UsedListed ==
  ASSUME TypeInv, NEW r \in Requests, AuthAccepted(r)
  PROVE  LET s == LiveTokens(accounts[req[r].email]) IN
         \E t \in Elements(s) :
            /\ Used(r).id = t.id /\ Used(r).expires = t.expires
            /\ ~Expired(t, clock)
            /\ Used(r) = [t EXCEPT !.lastUsed = clock,
                             !.device = IF @ = NoDevice THEN req[r].device ELSE @]
<1> DEFINE s == LiveTokens(accounts[req[r].email])
           i == findAuthToken(s, Presented(r))
<1>1. s \in Seq(Token)
  BY UsedTyped
<1>2. Matching(s, Presented(r)) # {}
  BY DEF AuthAccepted, Accepted
<1>3. i \in DOMAIN s
  BY <1>1, <1>2, FindInDomain
<1>4. Used(r) = [s[i] EXCEPT !.lastUsed = clock,
                    !.device = IF @ = NoDevice THEN req[r].device ELSE @]
  BY DEF Used
<1>5. ~Expired(s[i], clock)
  BY DEF AuthAccepted, Accepted
<1> HIDE DEF s, i
<1>6. s[i] \in Token
  BY <1>1, <1>3
<1>7. Used(r).id = s[i].id /\ Used(r).expires = s[i].expires
  BY <1>4, <1>6 DEF Token
<1>8. s[i] \in Elements(s)
  BY <1>3 DEF Elements
<1>9. QED
  BY <1>4, <1>5, <1>7, <1>8 DEF s

(* Logout ends a token of the list, if any.                                 *)
LEMMA LogoutEnds ==
  ASSUME OwnInv, NEW r \in Requests, Logout(r)
  PROVE  /\ auth[r] # NoAuth /\ auth[r].id # NoId /\ req[r].email \in Emails
         /\ Matching(acc[r], auth[r]) # {} => auth[r].id \in IdsOf(acc[r])
<1>1. TypeInv
  BY DEF OwnInv, SafeInv
<1>2. auth[r] # NoAuth
  BY <1>1, Typed, Closed DEF Logout, Handling, ReachAt
<1>3. auth[r].id # NoId
  BY <1>1, <1>2, Typed DEF AuthValue
<1>4. QED
  BY <1>2, <1>3, OwnFacts, FoundByName DEF Logout, Handling

(* Revoke ends the token of a name, and changes nothing but its expiry.     *)
LEMMA RevokeEnds ==
  ASSUME OwnInv, NEW r \in Requests, NEW i \in Ids, Revoke(r, i)
  PROVE  /\ auth[r] # NoAuth /\ req[r].email \in Emails /\ i \in IdsOf(acc[r])
         /\ accounts' = [accounts EXCEPT ![req[r].email] = Revoked(r, i)]
         /\ Revoked(r, i) \in Seq(Token) /\ DOMAIN Revoked(r, i) = DOMAIN acc[r]
         /\ \A k \in DOMAIN acc[r] :
              /\ Revoked(r, i)[k].id = acc[r][k].id
              /\ acc[r][k].id # i => Revoked(r, i)[k] = acc[r][k]
         /\ \E k \in DOMAIN acc[r] :
              /\ acc[r][k].id = i /\ Expired(Revoked(r, i)[k], clock)
              /\ Revoked(r, i)[k] = [acc[r][k] EXCEPT !.expires = clock - 1]
              /\ \A j \in DOMAIN acc[r] : j # k => Revoked(r, i)[j] = acc[r][j]
<1> DEFINE q == Query("", i, NoDevice)
           k == findAuthToken(acc[r], q)
<1>1. TypeInv /\ clock \in Nat /\ clock >= 2 /\ acc[r] \in Seq(Token)
  BY OwnFacts DEF OwnInv, SafeInv, TypeInv, TypeOK, StorageOK, StartTime
<1>2. Matching(acc[r], q) # {} /\ q.id = i /\ i # NoId
  BY DEF Revoke, Query
<1>3. k \in DOMAIN acc[r] /\ acc[r][k].id = i /\ i \in IdsOf(acc[r])
  BY <1>1, <1>2, FoundByName
<1>4. auth[r] # NoAuth /\ req[r].email \in Emails
  BY <1>1, Typed, Closed DEF Revoke, Handling, ReachAt
<1>5. Revoked(r, i) = [acc[r] EXCEPT ![k].expires = clock - 1]
  BY DEF Revoked
<1>6. accounts' = [accounts EXCEPT ![req[r].email] = Revoked(r, i)]
  BY DEF Revoke, Revoked
<1>7. Revoked(r, i) \in Seq(Token)
  BY <1>1, RevokeTyped
<1> HIDE DEF k
<1>8. acc[r][k] \in Token
  BY <1>1, <1>3
<1>9. /\ DOMAIN Revoked(r, i) = DOMAIN acc[r]
      /\ \A j \in DOMAIN acc[r] : j # k => Revoked(r, i)[j] = acc[r][j]
      /\ Revoked(r, i)[k] = [acc[r][k] EXCEPT !.expires = clock - 1]
  BY <1>1, <1>3, <1>5
<1>10. Revoked(r, i)[k].id = acc[r][k].id /\ Revoked(r, i)[k].expires = clock - 1
  BY <1>8, <1>9 DEF Token
<1>11. Expired(Revoked(r, i)[k], clock)
  BY <1>1, <1>10 DEF Expired, Never
<1>12. QED
  BY <1>3, <1>4, <1>6, <1>7, <1>9, <1>10, <1>11

(* Each step of a handler keeps whose the tokens are.                       *)
LEMMA ActingOwned ==
  ASSUME OwnInv, NEW r \in Requests, Acting(r)
  PROVE  OwnInv'
<1>a. SafeInv /\ Frame(r) /\ SafeInv' /\ TypeInv
  BY ActingSafe DEF OwnInv
<1>b. RequestsOK /\ HistoryOK /\ StorageOK
  BY <1>a DEF TypeInv, TypeOK
<1>c. \A i \in gone : owner[i] \in Emails
  BY DEF OwnInv, GoneOwned
<1>d. /\ acc[r] \in Seq(Token)
      /\ \A i \in IdsOf(acc[r]) : owner[i] = CopyOf(r) /\ owner[i] # NoOne
  BY OwnFacts
<1>e. ar[r] = Blank \/ ar[r] \in Known
  BY DEF Known
<1>f. authRequests \subseteq Known /\ sweep \subseteq Known
  BY DEF Known
<1>g. req'[r].email = req[r].email
  BY <1>a DEF Frame, Emailed
<1>h. IdsOf(<<>>) = {}
  BY EmptyElements
<1>i. ASSUME authRequests' \subseteq authRequests, sweep' = sweep, owner' = owner,
             ar'[r] \in {ar[r], Blank}
      PROVE  Generated
  <2>1. Known' \subseteq Known \cup {}
    BY <1>a, <1>e, <1>f, <1>i, KnownStep
  <2>2. QED
    BY <1>i, <2>1 DEF Generated
<1>j. ASSUME accounts' = accounts PROVE \A e \in Emails : \A i \in Listed(e)' : owner[i] = e
  BY <1>j, ListsSame
<1>1. ASSUME Quiet(r) PROVE OwnInv'
  <2>1. QuietStep(r)
    BY <1>1, QuietSteps
  <2>2. \A i \in IdsOf(acc'[r]) : owner[i] = CopyOf(r)' /\ owner[i] # NoOne
    BY <1>d, <1>g, <1>h, <2>1 DEF QuietStep, CopyOf
  <2>3. QED
    BY <1>a, <1>c, <1>i, <1>j, <2>1, <2>2, FramedOwned DEF QuietStep
<1>2. ASSUME AuthSkeleton(r) \/ AuthAccepted(r) PROVE OwnInv'
  <2> DEFINE e == req[r].email
             s == LiveTokens(accounts[e])
  <2>1. /\ UNCHANGED <<accounts, authRequests, sweep, owner, gone, ar, req>>
        /\ pc' = [pc EXCEPT ![r] = "authPut"] /\ pc[r] = "authGet"
        /\ accounts[e] # NoAccount
    BY <1>2 DEF AuthSkeleton, AuthAccepted, storage, history, Goto
  <2>2. e \in Emails
    BY <1>a, <2>1, Typed DEF ReachAt
  <2>3. accounts[e] \in Seq(Token) /\ Listed(e) = IdsOf(accounts[e])
    BY <1>b, <2>1, <2>2, ListedIds DEF StorageOK
  <2>4. s \in Seq(Token) /\ IdsOf(s) \subseteq Listed(e)
    BY <2>3, LiveElements
  <2>5. IdsOf(acc'[r]) = IdsOf(s)
    <3>1. CASE AuthSkeleton(r)
      BY <1>b, <3>1 DEF AuthSkeleton, RequestsOK
    <3>2. CASE AuthAccepted(r)
      <4>1. /\ acc' = [acc EXCEPT ![r] = UpdateAuthToken(s, Used(r))]
            /\ Used(r) \in Token
        BY <1>a, <3>2, UsedTyped
      <4> HIDE DEF s
      <4>2. acc'[r] = UpdateAuthToken(s, Used(r))
        BY <1>b, <4>1 DEF RequestsOK
      <4>3. QED
        BY <2>4, <4>1, <4>2, UpdatedElements
    <3>3. QED
      BY <1>2, <3>1, <3>2
  <2>6. pc'[r] = "authPut" /\ CopyOf(r)' = e
    BY <1>b, <1>g, <2>1 DEF RequestsOK, CopyOf
  <2>7. \A i \in IdsOf(acc'[r]) : owner[i] = CopyOf(r)' /\ owner[i] # NoOne
    <3>1. \A i \in Listed(e) : owner[i] = e /\ e # NoOne
      BY <2>2 DEF OwnInv, ListsOwned
    <3>2. QED
      BY <2>4, <2>5, <2>6, <3>1
  <2>8. QED
    BY <1>a, <1>c, <1>i, <1>j, <2>1, <2>6, <2>7, FramedOwned
<1>3. ASSUME AuthPut(r) PROVE OwnInv'
  <2>1. /\ UNCHANGED <<authRequests, sweep, owner, gone>>
        /\ accounts' = [accounts EXCEPT ![req[r].email] = acc[r]] /\ pc[r] = "authPut"
        /\ \/ Finish(r)
           \/ pc'[r] = "handle" /\ acc'[r] = acc[r] /\ ar'[r] = ar[r]
    BY <1>3, <1>b DEF AuthPut, history, Proceed, Goto, local, RequestsOK
  <2>2. CopyOf(r) = req[r].email
    BY <2>1 DEF CopyOf
  <2>3. \A f \in Emails : \A i \in Listed(f)' : owner[i] = f
    BY <1>d, <2>1, <2>2, ListWritten
  <2>4. ar'[r] \in {ar[r], Blank} /\ pc'[r] \in {"handle", "idle", "unlock"}
        /\ (acc'[r] = <<>> \/ (pc'[r] = "handle" /\ acc'[r] = acc[r]))
    BY <1>a, <2>1, FinishEffect
  <2>5. \A i \in IdsOf(acc'[r]) : owner[i] = CopyOf(r)' /\ owner[i] # NoOne
    BY <1>d, <1>g, <1>h, <2>2, <2>4 DEF CopyOf
  <2>6. QED
    BY <1>a, <1>c, <1>i, <2>1, <2>3, <2>4, <2>5, FramedOwned
<1>4. ASSUME NEW i \in Ids, NEW t \in Types, NEW c \in Codes \cup {NoCode}, ReqPut(r, i, t, c)
      PROVE  OwnInv'
  <2> DEFINE b == Mail(r, i, t, c)
  <2>1. /\ UNCHANGED <<accounts, sweep, gone>> /\ pc[r] = "reqPut" /\ i \in Fresh
        /\ authRequests' = Without(Key(b)) \cup {b}
        /\ owner' = [owner EXCEPT ![i] = req[r].target]
        /\ \/ Finish(r)
           \/ pc'[r] = "reqMail" /\ acc'[r] = acc[r] /\ ar'[r] = b
    BY <1>4, <1>b DEF ReqPut, Mail, Goto, RequestsOK
  <2>2. b \in AuthRequest /\ b.token.id = i /\ b.email = req[r].target
    BY <1>a, <2>1, MailTyped DEF Mail, NewAuthRequest, NewAuthToken
  <2> HIDE DEF b
  <2>3. ar'[r] \in {b, Blank} /\ pc'[r] \in {"reqMail", "idle", "unlock"}
        /\ (acc'[r] = <<>> \/ (pc'[r] = "reqMail" /\ acc'[r] = acc[r]))
    BY <1>a, <2>1, FinishEffect
  <2>4. Known' \subseteq Known \cup {b}
    <3>1. authRequests' \subseteq Known \cup {b} /\ sweep' \subseteq Known \cup {b}
      BY <1>f, <2>1 DEF Without
    <3>2. QED
      BY <1>a, <2>3, <3>1, KnownStep
  <2>5. Generated
    BY <2>1, <2>2, <2>4 DEF Generated
  <2>6. \A j \in IdsOf(acc'[r]) : owner[j] = CopyOf(r)' /\ owner[j] # NoOne
    BY <1>d, <1>g, <1>h, <2>1, <2>3 DEF CopyOf
  <2>7. QED
    BY <1>a, <1>c, <1>j, <2>1, <2>3, <2>5, <2>6, FramedOwned
<1>5. ASSUME NEW k \in links, ActivateAuthToken(r, k) PROVE OwnInv'
  <2>1. /\ UNCHANGED <<accounts, authRequests, sweep, owner, gone>> /\ pc[r] = "handle"
        /\ \/ Finish(r)
           \/ /\ pc'[r] = "actGet" /\ acc'[r] = acc[r]
              /\ \E a \in authRequests : ar'[r] = a
    BY <1>5, <1>b DEF ActivateAuthToken, Handling, storage, history, Goto, RequestsOK
  <2>2. ar'[r] \in Known \cup {} \cup {Blank} /\ pc'[r] \in {"actGet", "idle", "unlock"}
        /\ (acc'[r] = <<>> \/ (pc'[r] = "actGet" /\ acc'[r] = acc[r]))
    BY <1>a, <1>f, <2>1, FinishEffect
  <2>3. Known' \subseteq Known \cup {}
    BY <1>a, <1>f, <2>1, <2>2, KnownStep
  <2>4. Generated
    BY <2>1, <2>3 DEF Generated
  <2>5. \A i \in IdsOf(acc'[r]) : owner[i] = CopyOf(r)' /\ owner[i] # NoOne
    BY <1>d, <1>g, <1>h, <2>1, <2>2 DEF CopyOf
  <2>6. QED
    BY <1>a, <1>c, <1>j, <2>1, <2>2, <2>4, <2>5, FramedOwned
<1>6. ASSUME ActGet(r) PROVE OwnInv'
  <2> DEFINE e == ar[r].email
             z == IF accounts[e] = NoAccount THEN <<>> ELSE accounts[e]
  <2>1. /\ UNCHANGED <<accounts, authRequests, sweep, owner, gone, ar>> /\ pc[r] = "actGet"
        /\ pc'[r] = "actPut" /\ acc'[r] = z
    BY <1>6, <1>b DEF ActGet, storage, Goto, RequestsOK
  <2>2. e \in Emails
    BY <2>1, OwnFacts
  <2>3. IdsOf(z) = Listed(e)
    BY <1>h, <2>2, ListedIds
  <2>4. CopyOf(r)' = e
    BY <2>1 DEF CopyOf
  <2> HIDE DEF z, e
  <2>5. \A i \in IdsOf(acc'[r]) : owner[i] = CopyOf(r)' /\ owner[i] # NoOne
    BY <2>1, <2>2, <2>3, <2>4 DEF OwnInv, ListsOwned
  <2>6. QED
    BY <1>a, <1>c, <1>i, <1>j, <2>1, <2>5, FramedOwned
<1>7. ASSUME ActRemove(r) PROVE OwnInv'
  <2> DEFINE z == RemoveAuthToken(acc[r], SameDevice(r))
  <2>1. /\ UNCHANGED <<accounts, authRequests, sweep, owner, gone, ar, pc>>
        /\ pc[r] = "actPut" /\ acc'[r] = z
    BY <1>7, <1>b DEF ActRemove, storage, history, RequestsOK
  <2>2. IdsOf(z) \subseteq IdsOf(acc[r])
    <3>1. Elements(z) \subseteq Elements(acc[r])
      BY <1>d, RemovedElements
    <3>2. QED
      BY <3>1 DEF IdsOf
  <2>3. CopyOf(r)' = CopyOf(r)
    BY <2>1 DEF CopyOf
  <2> HIDE DEF z
  <2>4. \A i \in IdsOf(acc'[r]) : owner[i] = CopyOf(r)' /\ owner[i] # NoOne
    BY <1>d, <2>1, <2>2, <2>3
  <2>5. QED
    BY <1>a, <1>c, <1>i, <1>j, <2>1, <2>4, FramedOwned
<1>8. ASSUME ActPut(r) PROVE OwnInv'
  <2> DEFINE z == AddAuthToken(acc[r], ar[r].token)
  <2>1. /\ UNCHANGED <<authRequests, sweep, owner, gone, ar>> /\ pc[r] = "actPut"
        /\ accounts' = [accounts EXCEPT ![ar[r].email] = z]
        /\ pc'[r] = "actDelete" /\ acc'[r] = <<>>
    BY <1>8, <1>b DEF ActPut, history, Goto, RequestsOK
  <2>2. ar[r].token \in Token /\ owner[ar[r].token.id] = ar[r].email
    BY <2>1, OwnFacts
  <2>3. IdsOf(z) = IdsOf(acc[r]) \cup {ar[r].token.id}
    <3>1. Elements(z) = Elements(acc[r]) \cup {ar[r].token}
      BY <1>d, <2>2, AddedElements
    <3>2. QED
      BY <3>1 DEF IdsOf
  <2> HIDE DEF z
  <2>4. \A i \in IdsOf(z) : owner[i] = ar[r].email
    BY <1>d, <2>1, <2>2, <2>3 DEF CopyOf
  <2>5. \A f \in Emails : \A i \in Listed(f)' : owner[i] = f
    BY <2>1, <2>4, ListWritten
  <2>6. QED
    BY <1>a, <1>c, <1>h, <1>i, <2>1, <2>5, FramedOwned
<1>9. ASSUME NEW i \in Ids, ActLogin(r, i) PROVE OwnInv'
  <2> DEFINE b == NewAuthRequest(ar[r].email, i, "web", ar[r].token.device, NoCode)
  <2>1. /\ UNCHANGED <<accounts, authRequests, sweep, gone>> /\ pc[r] = "actLogin"
        /\ i \in Fresh /\ owner' = [owner EXCEPT ![i] = ar[r].email]
        /\ pc'[r] = "actGet" /\ acc'[r] = acc[r] /\ ar'[r] = b
    BY <1>9, <1>b DEF ActLogin, storage, Goto, RequestsOK
  <2>2. b \in AuthRequest /\ b.token.id = i /\ b.email = ar[r].email
    BY <1>a, <2>1, LoginTyped DEF NewAuthRequest, NewAuthToken
  <2> HIDE DEF b
  <2>3. Known' \subseteq Known \cup {b}
    BY <1>a, <1>f, <2>1, KnownStep
  <2>4. Generated
    BY <2>1, <2>2, <2>3 DEF Generated
  <2>5. \A j \in IdsOf(acc'[r]) : owner[j] = CopyOf(r)' /\ owner[j] # NoOne
    BY <1>d, <1>g, <2>1 DEF CopyOf
  <2>6. QED
    BY <1>a, <1>c, <1>j, <2>1, <2>4, <2>5, FramedOwned
<1>10. ASSUME DelAccount(r) PROVE OwnInv'
  <2>1. /\ UNCHANGED <<authRequests, sweep, owner, gone>> /\ Finish(r)
        /\ accounts' = [accounts EXCEPT ![req[r].email] = NoAccount]
    BY <1>10 DEF DelAccount, history
  <2>2. \A f \in Emails : \A i \in Listed(f)' : owner[i] = f
    BY <2>1, ListWritten
  <2>3. QED
    BY <1>a, <1>c, <1>h, <1>i, <2>1, <2>2, FinishEffect, FramedOwned
<1>11. ASSUME Logout(r) PROVE OwnInv'
  <2> DEFINE z == RemoveAuthToken(acc[r], auth[r])
  <2>1. /\ UNCHANGED <<authRequests, sweep, owner>> /\ Finish(r) /\ pc[r] = "handle"
        /\ accounts' = [accounts EXCEPT ![req[r].email] = z]
        /\ gone' = IF Matching(acc[r], auth[r]) = {} THEN gone
                                                    ELSE gone \cup {auth[r].id}
    BY <1>11 DEF Logout, Handling
  <2>2. CopyOf(r) = req[r].email
    BY <2>1 DEF CopyOf
  <2>3. IdsOf(z) \subseteq IdsOf(acc[r])
    <3>1. Elements(z) \subseteq Elements(acc[r])
      BY <1>d, RemovedElements
    <3>2. QED
      BY <3>1 DEF IdsOf
  <2> HIDE DEF z
  <2>4. \A f \in Emails : \A i \in Listed(f)' : owner[i] = f
    BY <1>d, <2>1, <2>2, <2>3, ListWritten
  <2>5. \A i \in gone' : owner[i] \in Emails
    BY <1>c, <1>d, <1>11, <2>1, <2>2, LogoutEnds
  <2>6. QED
    BY <1>a, <1>h, <1>i, <2>1, <2>4, <2>5, FinishEffect, FramedOwned
<1>12. ASSUME NEW i \in Ids, Revoke(r, i) PROVE OwnInv'
  <2> DEFINE z == Revoked(r, i)
  <2>1. /\ UNCHANGED <<authRequests, sweep, owner>> /\ Finish(r) /\ pc[r] = "handle"
        /\ gone' = gone \cup {i}
    BY <1>12 DEF Revoke, Handling
  <2>2. CopyOf(r) = req[r].email
    BY <2>1 DEF CopyOf
  <2>3. /\ accounts' = [accounts EXCEPT ![req[r].email] = z] /\ i \in IdsOf(acc[r])
        /\ req[r].email \in Emails
        /\ DOMAIN z = DOMAIN acc[r] /\ \A k \in DOMAIN acc[r] : z[k].id = acc[r][k].id
    BY <1>12, RevokeEnds
  <2> HIDE DEF z
  <2>4. IdsOf(z) \subseteq IdsOf(acc[r])
    BY <2>3 DEF IdsOf, Elements
  <2>5. \A f \in Emails : \A j \in Listed(f)' : owner[j] = f
    BY <1>d, <2>2, <2>3, <2>4, ListWritten
  <2>6. \A j \in gone' : owner[j] \in Emails
    BY <1>c, <1>d, <2>1, <2>2, <2>3
  <2>7. QED
    BY <1>a, <1>h, <1>i, <2>1, <2>5, <2>6, FinishEffect, FramedOwned
<1>13. QED
  BY <1>1, <1>2, <1>3, <1>4, <1>5, <1>6, <1>7, <1>8, <1>9, <1>10, <1>11, <1>12
     DEF Acting, Quiet, Authenticating, Requesting, Activating, Using

LEMMA InitOwned == Init => OwnInv
<1> SUFFICES ASSUME Init PROVE OwnInv
  OBVIOUS
<1>1. SafeInv
  BY InitSafeInv
<1>2. Known = {}
  BY DEF Init, Known
<1>3. ListsOwned /\ GoneOwned
  BY DEF Init, ListsOwned, GoneOwned, Listed, Tokens
<1>4. \A r \in Requests : CopyOwned(r)
  BY EmptyElements DEF Init, CopyOwned
<1>5. QED
  BY <1>1, <1>2, <1>3, <1>4 DEF OwnInv, OneRequest, RequestsOwned

LEMMA NextOwned == OwnInv /\ [Next]_vars => OwnInv'
<1> SUFFICES ASSUME OwnInv, [Next]_vars PROVE OwnInv'
  OBVIOUS
<1>a. SafeInv' /\ TypeInv
  BY NextSafeInv DEF OwnInv, SafeInv
<1>b. RequestsOK
  BY <1>a DEF TypeInv, TypeOK
<1>c. \A i \in gone : owner[i] \in Emails
  BY DEF OwnInv, GoneOwned
<1>d. ASSUME accounts' = accounts PROVE \A e \in Emails : \A i \in Listed(e)' : owner[i] = e
  BY <1>d, ListsSame
<1>e. IdsOf(<<>>) = {}
  BY EmptyElements
<1>1. ASSUME NEW r \in Requests, Acting(r) PROVE OwnInv'
  BY <1>1, ActingOwned
<1>2. ASSUME NEW r \in Requests, Arriving(r) \/ LockAccount(r) \/ UnlockAccount(r)
      PROVE  OwnInv'
  <2>1. /\ UNCHANGED <<accounts, authRequests, sweep, ar, acc, owner, gone>>
        /\ \A q \in Requests \ {r} : pc'[q] = pc[q] /\ req'[q] = req[q]
        /\ pc[r] \in {"idle", "lock", "unlock"}
    BY <1>2, <1>b DEF Arriving, Arrive, LockAccount, UnlockAccount, Goto, RequestsOK,
                      storage, local, history
  <2>2. acc[r] = <<>> /\ acc'[r] = <<>>
    BY <2>1 DEF OwnInv, CopyOwned
  <2>3. Generated
    BY <2>1 DEF Generated, Known
  <2>4. ASSUME NEW q \in Requests
        PROVE  /\ \A i \in IdsOf(acc'[q]) : owner[i] = CopyOf(q)' /\ owner[i] # NoOne
               /\ pc'[q] \in {"idle", "lock", "authGet", "unlock", "actDelete", "actLogin"}
                     => acc'[q] = <<>>
    <3>1. CASE q = r
      BY <1>e, <2>2, <3>1
    <3>2. CASE q # r
      <4>1. CopyOwned(q) /\ CopyOf(q)' = CopyOf(q)
        BY <2>1, <3>2 DEF OwnInv, CopyOf
      <4>2. QED
        BY <2>1, <3>2, <4>1 DEF CopyOwned
    <3>3. QED
      BY <3>1, <3>2
  <2>5. QED
    BY <1>a, <1>c, <1>d, <2>1, <2>3, <2>4, OwnedKept
<1>3. ASSUME Crash PROVE OwnInv'
  <2>1. /\ UNCHANGED <<accounts, authRequests, owner, gone>> /\ sweep' = {}
        /\ \A q \in Requests : ar'[q] = Blank /\ acc'[q] = <<>>
    BY <1>3 DEF Crash, storage
  <2>2. Generated
    BY <2>1 DEF Generated, Known
  <2>3. QED
    BY <1>a, <1>c, <1>d, <1>e, <2>1, <2>2, OwnedKept
<1>4. ASSUME \/ CleanStart \/ Tick \/ UNCHANGED vars
             \/ \E a \in sweep : CleanNext(a)
      PROVE  OwnInv'
  <2>1. /\ UNCHANGED <<accounts, pc, req, acc, ar, owner, gone>>
        /\ authRequests' \subseteq authRequests
        /\ sweep' \subseteq sweep \cup authRequests
    BY <1>4 DEF CleanStart, CleanNext, Tick, vars, storage, local, history, Without
  <2>2. Generated
    BY <2>1 DEF Generated, Known
  <2>3. ASSUME NEW q \in Requests
        PROVE  /\ \A i \in IdsOf(acc'[q]) : owner[i] = CopyOf(q)' /\ owner[i] # NoOne
               /\ pc'[q] \in {"idle", "lock", "authGet", "unlock", "actDelete", "actLogin"}
                     => acc'[q] = <<>>
    <3>1. CopyOwned(q) /\ CopyOf(q)' = CopyOf(q)
      BY <2>1 DEF OwnInv, CopyOf
    <3>2. QED
      BY <2>1, <3>1 DEF CopyOwned
  <2>4. QED
    BY <1>a, <1>c, <1>d, <2>1, <2>2, <2>3, OwnedKept
<1>5. QED
  BY <1>1, <1>2, <1>3, <1>4 DEF Next, Serve, Acting

LEMMA Owned == Spec => []OwnInv
  BY InitOwned, NextOwned, PTL DEF Spec

(* server.go:555: the cleaning job, which works on what it saw a while ago,  *)
(* deletes no link that is not old: no later request has the same key.      *)
THEOREM ServiceCleanedAreOld == Spec => CleanedAreOld
<1> DEFINE Clean == sweep' # sweep =>
                      \A a \in authRequests \ authRequests' :
                         a.code = NoCode => a.created < clock - RequestAge
<1>1. ASSUME OwnInv, [Next]_vars PROVE Clean
  <2>1. ASSUME NEW a \in sweep, CleanNext(a) PROVE Clean
    <3>1. ASSUME NEW b \in authRequests \ authRequests', b.code = NoCode
          PROVE  b.created < clock - RequestAge
      <4>1. Old(a) /\ Key(b) = Key(a)
        BY <2>1, <3>1 DEF CleanNext, Without
      <4>2. a \in AuthRequest /\ b \in AuthRequest
        BY <1>1, <2>1, <3>1 DEF OwnInv, SafeInv, TypeInv, TypeOK, StorageOK
      <4>3. Key(b) = <<b.token.id>>
        BY <3>1 DEF Key
      <4>4. a.token.id = b.token.id
        <5>1. Len(Key(a)) = 1 /\ Key(a)[1] = b.token.id
          BY <4>1, <4>3
        <5>2. CASE a.code = NoCode
          BY <5>1, <5>2 DEF Key
        <5>3. CASE a.code # NoCode
          <6>1. Len(Key(a)) = 2
            BY <5>3 DEF Key
          <6>2. QED
            BY <5>1, <6>1
        <5>4. QED
          BY <5>2, <5>3
      <4>5. a = b
        BY <1>1, <2>1, <3>1, <4>4 DEF OwnInv, OneRequest, Known
      <4>6. QED
        BY <4>1, <4>5 DEF Old
    <3>2. QED
      BY <3>1
  <2>2. ASSUME CleanStart \/ Crash PROVE authRequests' = authRequests
    BY <2>2 DEF CleanStart, Crash, storage
  <2>3. ASSUME ~CleanStart, ~Crash, ~\E a \in sweep : CleanNext(a)
        PROVE  sweep' = sweep
    <3>1. ASSUME NEW r \in Requests, Acting(r) PROVE sweep' = sweep
      BY <3>1 DEF Acting, Authenticating, Requesting, Activating, Using,
        AuthRefused, AuthSkeleton, AuthAccepted, AuthPut, Reject, RequestAuthToken,
        ReqStore, ReqPut, ReqMail, ReqDenied, ActivateAuthToken, ActGet, ActRemove,
        ActPut, ActDelete, ActLogin, Read, WriteStore, DeleteStore, DeleteAccount,
        DelAccount, Logout, Revoke, AuthFail, Fail
    <3>2. ASSUME NEW r \in Requests, Arriving(r) \/ LockAccount(r) \/ UnlockAccount(r)
          PROVE  sweep' = sweep
      BY <3>2 DEF Arriving, Arrive, LockAccount, UnlockAccount
    <3>3. ASSUME Tick \/ UNCHANGED vars PROVE sweep' = sweep
      BY <3>3 DEF Tick, vars
    <3>4. QED
      BY <1>1, <2>3, <3>1, <3>2, <3>3 DEF Next, Serve, Acting
  <2>4. QED
    BY <2>1, <2>2, <2>3
<1>2. OwnInv /\ [Next]_vars => [Clean]_vars
  BY <1>1
<1>3. QED
  BY Owned, <1>2, PTL DEF Spec, CleanedAreOld

-----------------------------------------------------------------------------
(* What an account that no activation has touched without its lock, or left *)
(* halfway, keeps to.  A name is spent once it was listed or ended: its     *)
(* request is gone then, or about to be deleted.                            *)
Spent(e) == Listed(e) \cup gone

Undone(e) ==
    \A a \in authRequests :
        a.email = e /\ a.token.id \in Spent(e)
            => \E r \in Requests : pc[r] = "actDelete" /\ ar[r] = a

Sound(e) ==
    /\ accounts[e] # NoAccount => Distinct(accounts[e])
    /\ Ended(e)

(* An activation of another account than the locked one exposes it.         *)
Aside(r) ==
    pc[r] \in {"actPut", "actDelete"} /\ ar[r].email # req[r].email
        => exposed[ar[r].email]

(* What the request that holds the lock of e is about to save.              *)
InAuth(r, e) ==
    pc[r] = "authPut" =>
        /\ Distinct(acc[r])
        /\ IdsOf(acc[r]) \subseteq Listed(e)
        /\ \A t \in Elements(acc[r]) : t.id \in gone => Expired(t, clock)
        /\ \A t \in Tokens(e) : Good(t) => t.id \in IdsOf(acc[r])
        /\ \E at \in 0 .. clock : Elements(acc[r]) \in Promise!Authenticated(Tokens(e), at)

InAct(r, e) ==
    ar[r].email = e =>
        /\ pc[r] \in {"actGet", "actPut"} => ar[r].token.id \notin Spent(e)
        /\ pc[r] = "actPut" =>
             /\ Distinct(acc[r])
             /\ Elements(acc[r]) \subseteq Tokens(e)
             /\ \A t \in Tokens(e) :
                    t \in Elements(acc[r]) \/ Promise!Replaces(ar[r].token, t)

Kept(e) ==
    ~exposed[e] =>
        /\ Sound(e) /\ Undone(e)
        /\ \A r \in Requests : req[r].email = e => InAuth(r, e) /\ InAct(r, e)

KeptInv == OwnInv /\ (\A r \in Requests : Aside(r)) /\ \A e \in Emails : Kept(e)

(* What a handler's step ends and generates.                                *)
Effects(r) ==
    /\ clock' = clock
    /\ \A i \in gone' \ gone :
          /\ pc[r] = "handle" /\ auth[r] # NoAuth /\ i \in IdsOf(acc[r])
          /\ owner[i] = req[r].email /\ req[r].email \in Emails
    /\ \A b \in authRequests' \ authRequests : b.token.id \in Fresh
    /\ pc[r] = "actDelete" => ar[r] \notin authRequests' \/ exposed'[ar[r].email]

LEMMA ActingEffects ==
  ASSUME OwnInv, NEW r \in Requests, Acting(r)
  PROVE  Effects(r)
<1>a. TypeInv
  BY DEF OwnInv, SafeInv
<1>b. pc[r] = "handle" => \A i \in IdsOf(acc[r]) : owner[i] = req[r].email
  BY OwnFacts DEF CopyOf
<1>1. CASE Quiet(r)
  BY <1>1, QuietSteps DEF QuietStep, Effects
<1>2. ASSUME NEW i \in Ids, NEW t \in Types, NEW c \in Codes \cup {NoCode}, ReqPut(r, i, t, c)
      PROVE  Effects(r)
  <2> DEFINE b == NewAuthRequest(req[r].target, i, t, req[r].device, c)
  <2>1. /\ UNCHANGED <<clock, gone>> /\ pc[r] = "reqPut" /\ i \in Fresh
        /\ authRequests' = Without(Key(b)) \cup {b}
    BY <1>2 DEF ReqPut
  <2>2. b.token.id = i
    BY DEF NewAuthRequest, NewAuthToken
  <2> HIDE DEF b
  <2>3. QED
    BY <2>1, <2>2 DEF Without, Effects
<1>3. CASE \/ AuthSkeleton(r) \/ AuthAccepted(r) \/ AuthPut(r)
           \/ \E k \in links : ActivateAuthToken(r, k)
           \/ ActGet(r) \/ ActRemove(r) \/ ActPut(r)
           \/ (\E i \in Ids : ActLogin(r, i)) \/ DelAccount(r)
  <2>1. UNCHANGED <<clock, gone, authRequests>> /\ pc[r] # "actDelete"
    BY <1>3 DEF AuthSkeleton, AuthAccepted, AuthPut, ActivateAuthToken, ActGet, ActRemove,
                ActPut, ActLogin, DelAccount, Handling, storage, history
  <2>2. QED
    BY <2>1 DEF Effects
<1>4. ASSUME Logout(r) PROVE Effects(r)
  <2>1. /\ UNCHANGED <<clock, authRequests>> /\ pc[r] = "handle"
        /\ gone' = IF Matching(acc[r], auth[r]) = {} THEN gone
                                                    ELSE gone \cup {auth[r].id}
    BY <1>4 DEF Logout, Handling
  <2>2. QED
    BY <1>b, <1>4, <2>1, LogoutEnds DEF Effects
<1>5. ASSUME NEW i \in Ids, Revoke(r, i) PROVE Effects(r)
  <2>1. UNCHANGED <<clock, authRequests>> /\ pc[r] = "handle" /\ gone' = gone \cup {i}
    BY <1>5 DEF Revoke, Handling
  <2>2. QED
    BY <1>b, <1>5, <2>1, RevokeEnds DEF Effects
<1>6. QED
  BY <1>1, <1>2, <1>3, <1>4, <1>5
     DEF Acting, Quiet, Authenticating, Requesting, Activating, Using

(* Other accounts than those a request has locked or exposed it leaves be.  *)
LEMMA AwayUnwritten ==
  ASSUME KeptInv, NEW r \in Requests, Acting(r),
         NEW e \in Emails, ~exposed'[e], req[r].email # e
  PROVE  accounts'[e] = accounts[e]
<1>1. Frame(r)
  BY ActingSafe DEF KeptInv, OwnInv
<1>2. ~exposed[e] /\ Writes(r, e)
  BY <1>1 DEF Frame
<1>3. ~(pc[r] = "actPut" /\ ar[r].email = e)
  BY <1>2 DEF KeptInv, Aside
<1>4. QED
  BY <1>2, <1>3 DEF Writes, Emailed

LEMMA AccountSame ==
  ASSUME NEW e \in Emails, accounts'[e] = accounts[e]
  PROVE  Tokens(e)' = Tokens(e) /\ Listed(e)' = Listed(e)
<1>1. Tokens(e)' = Tokens(e)
  BY DEF Tokens
<1>2. QED
  BY <1>1 DEF Listed

(* The requests of the same account wait for its lock, those of another do  *)
(* not notice.                                                              *)
LEMMA OthersUndisturbed ==
  ASSUME KeptInv, NEW r \in Requests, Acting(r),
         NEW e \in Emails, ~exposed'[e], NEW q \in Requests, q # r, req'[q].email = e
  PROVE  InAuth(q, e)' /\ InAct(q, e)'
<1>a. SafeInv /\ OwnInv /\ Frame(r) /\ Effects(r)
  BY ActingSafe, ActingEffects DEF KeptInv, OwnInv
<1>b. /\ pc'[q] = pc[q] /\ req'[q] = req[q] /\ acc'[q] = acc[q] /\ ar'[q] = ar[q]
      /\ ~exposed[e] /\ pc[r] \notin {"idle", "lock"}
  BY <1>a DEF Frame
<1>c. InAuth(q, e) /\ InAct(q, e)
  BY <1>b DEF KeptInv, Kept
<1>1. CASE req[r].email = e
  <2>1. pc[q] \in {"idle", "lock"}
    BY <1>a, <1>b, <1>1, Apart DEF Emailed
  <2>2. QED
    BY <1>b, <2>1 DEF InAuth, InAct
<1>2. CASE req[r].email # e
  <2>1. Tokens(e)' = Tokens(e) /\ Listed(e)' = Listed(e)
    BY <1>2, AwayUnwritten, AccountSame
  <2>2. \A i \in gone' : owner[i] = e => i \in gone
    BY <1>a, <1>2 DEF Effects
  <2>3. InAuth(q, e)'
    <3>1. pc[q] = "authPut" => \A i \in IdsOf(acc[q]) : owner[i] = e
      BY <1>a, <1>b, OwnFacts DEF CopyOf
    <3>2. \A t \in Elements(acc[q]) : t.id \in IdsOf(acc[q])
      BY DEF IdsOf
    <3>3. clock' = clock
      BY <1>a DEF Effects
    <3>4. QED
      BY <1>b, <1>c, <2>1, <2>2, <3>1, <3>2, <3>3 DEF InAuth, Good
  <2>4. InAct(q, e)'
    <3>1. pc[q] \in {"actGet", "actPut"} /\ ar[q].email = e => owner[ar[q].token.id] = e
      BY <1>a, OwnFacts
    <3>2. Spent(e)' \subseteq Spent(e) \cup (gone' \ gone)
      BY <2>1 DEF Spent
    <3>3. SameDevice(q)' = SameDevice(q)
      BY <1>b DEF SameDevice
    <3>4. QED
      BY <1>b, <1>c, <2>1, <2>2, <3>1, <3>2, <3>3 DEF InAct
  <2>5. QED
    BY <2>3, <2>4
<1>3. QED
  BY <1>1, <1>2

(* A request is there to be activated as long as its token is not spent.    *)
LEMMA UndoneKept ==
  ASSUME KeptInv, NEW r \in Requests, Acting(r), NEW e \in Emails, ~exposed'[e],
         \A a \in authRequests' :
            a.email = e /\ a.token.id \in Spent(e)' =>
               \/ a.token.id \in Spent(e)
               \/ pc'[r] = "actDelete" /\ ar'[r] = a
  PROVE  Undone(e)'
<1>a. SafeInv /\ OwnInv /\ Frame(r) /\ Effects(r) /\ TypeInv /\ TypeInv'
  BY ActingSafe, ActingEffects DEF KeptInv, OwnInv
<1>b. Undone(e)
  BY <1>a DEF KeptInv, Kept, Frame
<1>c. owner \in [Ids -> Emails \cup {NoOne}] /\ NoOne \notin Emails
  BY <1>a, OwnersTyped
<1>1. \A i \in Spent(e) : owner[i] # NoOne
  BY <1>a, <1>c DEF Spent, OwnInv, ListsOwned, GoneOwned
<1>2. ASSUME NEW a \in authRequests', a.email = e, a.token.id \in Spent(e)'
      PROVE  \E q \in Requests : pc'[q] = "actDelete" /\ ar'[q] = a
  <2>1. CASE pc'[r] = "actDelete" /\ ar'[r] = a
    BY <2>1
  <2>2. CASE a.token.id \in Spent(e)
    <3>1. a \in authRequests
      BY <1>a, <1>1, <2>2 DEF Effects, Fresh
    <3>2. PICK q \in Requests : pc[q] = "actDelete" /\ ar[q] = a
      BY <1>b, <1>2, <2>2, <3>1 DEF Undone
    <3>3. q # r
      BY <1>a, <1>2, <3>2 DEF Effects
    <3>4. pc'[q] = "actDelete" /\ ar'[q] = a
      BY <1>a, <3>2, <3>3 DEF Frame
    <3>5. QED
      BY <3>4
  <2>3. QED
    BY <1>2, <2>1, <2>2
<1>3. QED
  BY <1>2 DEF Undone

(* An account that a step of r does not concern.                            *)
LEMMA AwayKept ==
  ASSUME KeptInv, NEW r \in Requests, Acting(r), NEW e \in Emails, req[r].email # e
  PROVE  Kept(e)'
<1> SUFFICES ASSUME ~exposed'[e] PROVE Kept(e)'
  BY DEF Kept
<1>a. SafeInv /\ OwnInv /\ OwnInv' /\ Frame(r) /\ Effects(r)
  BY ActingSafe, ActingEffects, ActingOwned DEF KeptInv, OwnInv
<1>b. ~exposed[e] /\ req'[r].email = req[r].email
  BY <1>a DEF Frame, Emailed
<1>c. accounts'[e] = accounts[e] /\ Tokens(e)' = Tokens(e) /\ Listed(e)' = Listed(e)
  BY AwayUnwritten, AccountSame
<1>d. \A i \in gone' : owner[i] = e => i \in gone
  BY <1>a DEF Effects
<1>1. Sound(e)'
  <2>1. Sound(e)
    BY <1>b DEF KeptInv, Kept
  <2>2. \A t \in Tokens(e) : owner[t.id] = e
    BY <1>a DEF OwnInv, ListsOwned, Listed
  <2>3. clock' = clock
    BY <1>a DEF Effects
  <2>4. Ended(e)'
    BY <1>c, <1>d, <2>1, <2>2, <2>3 DEF Sound, Ended
  <2>5. QED
    BY <1>c, <2>1, <2>4 DEF Sound
<1>2. Undone(e)'
  <2>1. ASSUME NEW a \in authRequests', a.email = e, a.token.id \in Spent(e)'
        PROVE  a.token.id \in Spent(e)
    <3>1. a.token.id \in Listed(e) \/ a.token.id \in gone'
      BY <1>c, <2>1 DEF Spent
    <3>2. a \in authRequests \/ a.token.id \in Fresh
      BY <1>a, <2>1 DEF Effects
    <3>3. CASE a \in authRequests
      <4>1. owner[a.token.id] = e
        BY <1>a, <2>1, <3>3 DEF OwnInv, RequestsOwned, Known
      <4>2. QED
        BY <1>d, <3>1, <4>1 DEF Spent
    <3>4. CASE a.token.id \in Fresh
      <4>1. owner[a.token.id] = NoOne /\ NoOne \notin Emails
        BY <3>4 DEF Fresh
      <4>2. a.token.id \notin gone' \ gone
        BY <1>a, <4>1 DEF Effects
      <4>3. QED
        BY <3>1, <4>2 DEF Spent
    <3>5. QED
      BY <3>2, <3>3, <3>4
  <2>2. QED
    BY <2>1, UndoneKept
<1>3. ASSUME NEW q \in Requests, req'[q].email = e
      PROVE  InAuth(q, e)' /\ InAct(q, e)'
  <2>1. q # r
    BY <1>b, <1>3
  <2>2. QED
    BY <1>3, <2>1, OthersUndisturbed
<1>4. QED
  BY <1>1, <1>2, <1>3 DEF Kept

(* What a step of r has to keep of the account it is of.                    *)
Keeps(r, e) ==
    /\ Sound(e)'
    /\ \A a \in authRequests' :
          a.email = e /\ a.token.id \in Spent(e)' =>
             \/ a.token.id \in Spent(e)
             \/ pc'[r] = "actDelete" /\ ar'[r] = a
    /\ InAuth(r, e)' /\ InAct(r, e)'

LEMMA HereKept ==
  ASSUME KeptInv, NEW r \in Requests, Acting(r), NEW e \in Emails, req[r].email = e,
         ~exposed'[e] => Keeps(r, e)
  PROVE  Kept(e)'
<1> SUFFICES ASSUME ~exposed'[e] PROVE Kept(e)'
  BY DEF Kept
<1>1. Undone(e)'
  BY UndoneKept DEF Keeps
<1>2. ASSUME NEW q \in Requests, req'[q].email = e
      PROVE  InAuth(q, e)' /\ InAct(q, e)'
  BY <1>2, OthersUndisturbed DEF Keeps
<1>3. QED
  BY <1>1, <1>2 DEF Kept, Keeps

(* A step that writes no account and ends no token.                         *)
LEMMA UnwrittenKeeps ==
  ASSUME NEW r \in Requests, NEW e \in Emails, Sound(e),
         UNCHANGED <<accounts, gone, clock>>, InAuth(r, e)', InAct(r, e)'
  PROVE  Keeps(r, e)
<1>1. Tokens(e)' = Tokens(e) /\ Listed(e)' = Listed(e)
  BY AccountSame
<1>2. Sound(e)' /\ Spent(e)' = Spent(e)
  BY <1>1 DEF Sound, Ended, Spent
<1>3. QED
  BY <1>2 DEF Keeps

(* A step that writes the list z, without new names, and ends the handler   *)
(* or goes on to one that has read the account.                             *)
LEMMA WrittenKeeps ==
  ASSUME TypeInv, NEW r \in Requests, NEW e \in Emails, NEW z \in Seq(Token), Distinct(z),
         accounts' = [accounts EXCEPT ![e] = z],
         IdsOf(z) \subseteq Spent(e), gone' \subseteq Spent(e),
         \A t \in Elements(z) : t.id \in gone' => Expired(t, clock),
         clock' = clock, pc'[r] \in {"idle", "unlock", "handle"}
  PROVE  Keeps(r, e)
<1>1. accounts'[e] = z /\ z # NoAccount
  BY DEF TypeInv, TypeOK, StorageOK
<1>2. Tokens(e)' = Elements(z) /\ Listed(e)' = IdsOf(z)
  BY <1>1 DEF Tokens, Elements, Listed, IdsOf
<1>3. Sound(e)'
  BY <1>1, <1>2 DEF Sound, Ended
<1>4. Spent(e)' \subseteq Spent(e)
  BY <1>2 DEF Spent
<1>5. InAuth(r, e)' /\ InAct(r, e)'
  BY DEF InAuth, InAct
<1>6. QED
  BY <1>3, <1>4, <1>5 DEF Keeps

(* The tokens that are listed have been generated.                          *)
LEMMA SpentOwned ==
  ASSUME OwnInv, NEW e \in Emails, NEW i \in Spent(e)
  PROVE  owner[i] \in Emails
BY DEF OwnInv, ListsOwned, GoneOwned, Spent

LEMMA AccountElements ==
  ASSUME TypeInv, NEW e \in Emails, accounts[e] # NoAccount
  PROVE  /\ accounts[e] \in Seq(Token)
         /\ Tokens(e) = Elements(accounts[e]) /\ Listed(e) = IdsOf(accounts[e])
<1>1. accounts[e] \in Seq(Token)
  BY Stored
<1>2. QED
  BY <1>1 DEF Tokens, Elements, Listed, IdsOf

(* The tokens that are good now are those that last.                        *)
LEMMA GoodLasts ==
  ASSUME NEW S
  PROVE  {t \in S : Good(t)} = Promise!Lasting(S, clock)
BY DEF Good, Promise!Lasting, Retained, Promise!Retained, Never, Promise!Never

(* A token that lasts and is used: the list says so, or is only filtered.   *)
LEMMA UpdatedAuthenticated ==
  ASSUME NEW at, NEW S, NEW s \in Seq(Token), Distinct(s),
         Elements(s) = Promise!Lasting(S, at),
         NEW t \in Elements(s), ~Expired(t, at), NEW d \in Devices,
         NEW u \in Token,
         u = [t EXCEPT !.lastUsed = at, !.device = IF @ = NoDevice THEN d ELSE @]
  PROVE  Elements(UpdateAuthToken(s, u)) \in Promise!Authenticated(S, at)
<1> DEFINE r == UpdateAuthToken(s, u)
           i == findAuthToken(s, u)
<1>a. t \in Token
  BY DEF Elements
<1>b. /\ u.id = t.id /\ u.device = (IF t.device = NoDevice THEN d ELSE t.device)
      /\ u = [t EXCEPT !.lastUsed = at, !.device = u.device]
  BY <1>a DEF Token
<1>1. CASE Matching(s, u) = {}
  <2>1. r = s
    BY <1>1 DEF UpdateAuthToken
  <2>2. QED
    BY <2>1 DEF Promise!Authenticated
<1>2. CASE Matching(s, u) # {}
  <2>1. i \in DOMAIN s /\ Matches(u, s[i])
    BY <1>2, FindMatches DEF Matching
  <2>2. r = [s EXCEPT ![i] = u]
    BY <1>2 DEF UpdateAuthToken
  <2> HIDE DEF r, i
  <2>3. s[i].id = t.id
    BY <1>b, <2>1, NamesAssumption DEF Matches, Token
  <2>4. PICK j \in DOMAIN s : t = s[j]
    BY DEF Elements
  <2>5. t = s[i]
    BY <2>1, <2>3, <2>4 DEF Distinct
  <2>6. u.device \in Promise!SetDevice(t.device)
    BY <1>b, <2>1, <2>5 DEF Matches, Promise!SetDevice
  <2>7. Elements(r) = (Elements(s) \ {t}) \cup {u}
    <3>1. /\ DOMAIN r = DOMAIN s /\ r[i] = u
          /\ \A k \in DOMAIN s : k # i => r[k] = s[k] /\ s[k] # t
      BY <2>1, <2>2, <2>5 DEF Distinct
    <3>2. QED
      BY <2>1, <2>5, <3>1 DEF Elements
  <2>8. t \in {x \in Promise!Lasting(S, at) : ~Promise!Expired(x, at)}
    BY DEF Expired, Promise!Expired, Never, Promise!Never
  <2> DEFINE Used_t == {(Promise!Lasting(S, at) \ {t})
                          \cup {[t EXCEPT !.lastUsed = at, !.device = x]}
                        : x \in Promise!SetDevice(t.device)}
  <2>9. Elements(r) \in Used_t
    BY <1>b, <2>6, <2>7
  <2>10. Used_t \in {{(Promise!Lasting(S, at) \ {y})
                          \cup {[y EXCEPT !.lastUsed = at, !.device = x]}
                        : x \in Promise!SetDevice(y.device)}
                      : y \in {x \in Promise!Lasting(S, at) : ~Promise!Expired(x, at)}}
    BY <2>8
  <2> HIDE DEF Used_t
  <2>11. QED
    BY <2>9, <2>10 DEF Promise!Authenticated, r
<1>3. QED
  BY <1>1, <1>2

(* Authenticate: what it is about to save, and saves.                       *)
LEMMA AuthenticatingKeeps ==
  ASSUME KeptInv, NEW r \in Requests, AuthSkeleton(r) \/ AuthAccepted(r),
         NEW e \in Emails, req[r].email = e, ~exposed[e]
  PROVE  Keeps(r, e)
<1> DEFINE s == LiveTokens(accounts[e])
<1>a. TypeInv /\ RequestsOK /\ Sound(e)
  BY DEF KeptInv, OwnInv, SafeInv, TypeInv, TypeOK, Kept
<1>1. /\ UNCHANGED <<accounts, gone, clock>> /\ accounts[e] # NoAccount
      /\ pc'[r] = "authPut"
  BY <1>a DEF AuthSkeleton, AuthAccepted, storage, history, Goto, RequestsOK
<1>2. /\ accounts[e] \in Seq(Token)
      /\ Tokens(e) = Elements(accounts[e]) /\ Listed(e) = IdsOf(accounts[e])
  BY <1>a, <1>1, AccountElements
<1>3. /\ s \in Seq(Token) /\ Distinct(s) /\ IdsOf(s) \subseteq Listed(e)
      /\ Elements(s) = {t \in Tokens(e) : Good(t)}
  BY <1>a, <1>1, <1>2, LiveElements DEF Sound
<1>4. \A t \in Elements(s) : t.id \in gone => Expired(t, clock)
  BY <1>a, <1>3 DEF Sound, Ended
<1>b. Elements(s) = Promise!Lasting(Tokens(e), clock)
  BY <1>3, GoodLasts
<1>5. /\ Distinct(acc'[r]) /\ IdsOf(acc'[r]) = IdsOf(s)
      /\ \A t \in Elements(acc'[r]) : t.id \in gone => Expired(t, clock)
      /\ Elements(acc'[r]) \in Promise!Authenticated(Tokens(e), clock)
  <2>1. CASE AuthSkeleton(r)
    <3>1. acc'[r] = s
      BY <1>a, <2>1 DEF AuthSkeleton, RequestsOK
    <3>2. Elements(s) \in Promise!Authenticated(Tokens(e), clock)
      BY <1>b DEF Promise!Authenticated
    <3>3. QED
      BY <1>3, <1>4, <3>1, <3>2
  <2>2. CASE AuthAccepted(r)
    <3>1. /\ acc' = [acc EXCEPT ![r] = UpdateAuthToken(s, Used(r))]
          /\ Used(r) \in Token
      BY <1>a, <2>2, UsedTyped
    <3>2. PICK t \in Elements(s) :
            /\ Used(r).id = t.id /\ Used(r).expires = t.expires
            /\ ~Expired(t, clock)
            /\ Used(r) = [t EXCEPT !.lastUsed = clock,
                             !.device = IF @ = NoDevice THEN req[r].device ELSE @]
      BY <1>a, <2>2, UsedListed
    <3> HIDE DEF s
    <3>3. acc'[r] = UpdateAuthToken(s, Used(r))
      BY <1>a, <3>1 DEF RequestsOK
    <3>4. /\ Distinct(acc'[r]) /\ IdsOf(acc'[r]) = IdsOf(s)
          /\ Elements(acc'[r]) \subseteq Elements(s) \cup {Used(r)}
      BY <1>3, <3>1, <3>3, UpdatedElements
    <3>5. Used(r).id \in gone => Expired(Used(r), clock)
      BY <1>4, <3>2 DEF Expired
    <3>6. PICK d \in Devices : d = req[r].device
      BY <1>a, Typed DEF RequestValue
    <3>7. Elements(acc'[r]) \in Promise!Authenticated(Tokens(e), clock)
      <4>1. PICK u \in Token : u = Used(r)
        BY <3>1
      <4>2. u = [t EXCEPT !.lastUsed = clock,
                          !.device = IF @ = NoDevice THEN d ELSE @]
        BY <3>2, <3>6, <4>1
      <4>3. Distinct(s) /\ s \in Seq(Token) /\ ~Expired(t, clock)
        BY <1>a, <1>3, <3>2 DEF Sound
      <4>4. Elements(UpdateAuthToken(s, u)) \in Promise!Authenticated(Tokens(e), clock)
        BY <1>b, <4>2, <4>3, UpdatedAuthenticated
      <4>5. QED
        BY <3>3, <4>1, <4>4
    <3>8. QED
      BY <1>4, <3>4, <3>5, <3>7
  <2>3. QED
    BY <2>1, <2>2
<1>6. \A t \in Tokens(e) : Good(t) => t.id \in IdsOf(s)
  BY <1>3 DEF IdsOf
<1> HIDE DEF s
<1>7. Tokens(e)' = Tokens(e) /\ Listed(e)' = Listed(e) /\ \A t : Good(t)' = Good(t)
  BY <1>1, AccountSame DEF Good
<1>8. \E at \in 0 .. clock' : Elements(acc'[r]) \in Promise!Authenticated(Tokens(e), at)
  <2>1. clock \in 0 .. clock'
    BY <1>a, <1>1 DEF TypeInv, TypeOK, StorageOK
  <2>2. QED
    BY <1>5, <2>1
<1>9. InAuth(r, e)' /\ InAct(r, e)'
  BY <1>1, <1>3, <1>5, <1>6, <1>7, <1>8 DEF InAuth, InAct
<1>10. QED
  BY <1>a, <1>1, <1>9, UnwrittenKeeps

LEMMA AuthPutKeeps ==
  ASSUME KeptInv, NEW r \in Requests, AuthPut(r),
         NEW e \in Emails, req[r].email = e, ~exposed[e]
  PROVE  Keeps(r, e)
<1>a. TypeInv /\ InAuth(r, e)
  BY DEF KeptInv, OwnInv, SafeInv, Kept
<1>1. /\ accounts' = [accounts EXCEPT ![e] = acc[r]] /\ pc[r] = "authPut"
      /\ UNCHANGED <<gone, clock>> /\ (Finish(r) \/ Goto(r, "handle"))
  BY DEF AuthPut, history, Proceed
<1>2. pc'[r] \in {"idle", "unlock", "handle"}
  BY <1>a, <1>1, FinishEffect DEF Goto, TypeInv, TypeOK, RequestsOK
<1>3. acc[r] \in Seq(Token)
  BY <1>a, Typed
<1>4. QED
  BY <1>a, <1>1, <1>2, <1>3, WrittenKeeps DEF InAuth, Spent

(* Logout and Revoke write the account that they were handed.               *)
LEMMA Handed ==
  ASSUME KeptInv, NEW r \in Requests, NEW e \in Emails, req[r].email = e, ~exposed[e],
         Logout(r) \/ \E i \in Ids : Revoke(r, i)
  PROVE  /\ acc[r] \in Seq(Token) /\ Distinct(acc[r])
         /\ Tokens(e) = Elements(acc[r]) /\ Listed(e) = IdsOf(acc[r])
<1>a. TypeInv /\ OwnInv /\ Sound(e)
  BY DEF KeptInv, OwnInv, SafeInv, Kept
<1>b. auth[r] # NoAuth /\ pc[r] = "handle"
  BY <1>a, LogoutEnds, RevokeEnds DEF Logout, Revoke, Handling
<1>c. accounts[e] = acc[r] /\ accounts[e] # NoAccount
  <2>1. Copied(r) /\ Present(r)
    BY <1>a DEF OwnInv, SafeInv, Own
  <2>2. QED
    BY <1>b, <2>1 DEF Copied, Present, Authenticated, Emailed
<1>d. QED
  BY <1>a, <1>c, AccountElements DEF Sound

LEMMA EndingKeeps ==
  ASSUME KeptInv, NEW r \in Requests, NEW e \in Emails, req[r].email = e, ~exposed[e],
         Logout(r) \/ \E i \in Ids : Revoke(r, i)
  PROVE  Keeps(r, e)
<1>a. TypeInv /\ OwnInv /\ Sound(e)
  BY DEF KeptInv, OwnInv, SafeInv, Kept
<1>d. /\ acc[r] \in Seq(Token) /\ Distinct(acc[r])
      /\ Tokens(e) = Elements(acc[r]) /\ Listed(e) = IdsOf(acc[r])
  BY Handed
<1>e. \A t \in Elements(acc[r]) : t.id \in gone => Expired(t, clock)
  BY <1>a, <1>d DEF Sound, Ended
<1>1. ASSUME Logout(r) PROVE Keeps(r, e)
  <2> DEFINE z == RemoveAuthToken(acc[r], auth[r])
  <2>1. /\ accounts' = [accounts EXCEPT ![e] = z] /\ Finish(r) /\ clock' = clock
        /\ gone' = IF Matching(acc[r], auth[r]) = {} THEN gone
                                                    ELSE gone \cup {auth[r].id}
    BY <1>1 DEF Logout
  <2>2. auth[r].id # NoId /\ (Matching(acc[r], auth[r]) # {} => auth[r].id \in Listed(e))
    BY <1>1, <1>a, <1>d, LogoutEnds
  <2>3. /\ z \in Seq(Token) /\ Distinct(z) /\ Elements(z) \subseteq Elements(acc[r])
        /\ Matching(acc[r], auth[r]) # {} => \A t \in Elements(z) : t.id # auth[r].id
    BY <1>d, <2>2, RemovedElements
  <2> HIDE DEF z
  <2>4. IdsOf(z) \subseteq Spent(e) /\ gone' \subseteq Spent(e)
    BY <1>d, <2>1, <2>2, <2>3 DEF IdsOf, Spent
  <2>5. \A t \in Elements(z) : t.id \in gone' => Expired(t, clock)
    BY <1>e, <2>1, <2>3
  <2>6. pc'[r] \in {"idle", "unlock", "handle"}
    BY <1>a, <2>1, FinishEffect
  <2>7. QED
    BY <1>a, <2>1, <2>3, <2>4, <2>5, <2>6, WrittenKeeps
<1>2. ASSUME NEW i \in Ids, Revoke(r, i) PROVE Keeps(r, e)
  <2> DEFINE z == Revoked(r, i)
  <2>1. gone' = gone \cup {i} /\ Finish(r) /\ clock' = clock
    BY <1>2 DEF Revoke
  <2>2. /\ i \in IdsOf(acc[r])
        /\ accounts' = [accounts EXCEPT ![e] = z]
        /\ z \in Seq(Token) /\ DOMAIN z = DOMAIN acc[r]
        /\ \A k \in DOMAIN acc[r] : /\ z[k].id = acc[r][k].id
                                    /\ acc[r][k].id # i => z[k] = acc[r][k]
    BY <1>2, <1>a, RevokeEnds
  <2>3. \E k \in DOMAIN acc[r] : acc[r][k].id = i /\ Expired(z[k], clock)
    BY <1>2, <1>a, RevokeEnds
  <2> HIDE DEF z
  <2>4. Distinct(z)
    BY <1>d, <2>2 DEF Distinct
  <2>5. IdsOf(z) \subseteq Spent(e) /\ gone' \subseteq Spent(e)
    BY <1>d, <2>1, <2>2 DEF IdsOf, Elements, Spent
  <2>6. ASSUME NEW k \in DOMAIN z, z[k].id \in gone' PROVE Expired(z[k], clock)
    <3>1. CASE acc[r][k].id = i
      BY <1>d, <2>2, <2>3, <3>1 DEF Distinct
    <3>2. CASE acc[r][k].id # i
      <4>1. z[k] = acc[r][k] /\ z[k].id \in gone /\ z[k] \in Elements(acc[r])
        BY <2>1, <2>2, <2>6, <3>2 DEF Elements
      <4>2. QED
        BY <1>e, <4>1
    <3>3. QED
      BY <3>1, <3>2
  <2>7. \A t \in Elements(z) : t.id \in gone' => Expired(t, clock)
    BY <2>6 DEF Elements
  <2>8. pc'[r] \in {"idle", "unlock", "handle"}
    BY <1>a, <2>1, FinishEffect
  <2>9. QED
    BY <1>a, <2>1, <2>2, <2>4, <2>5, <2>7, <2>8, WrittenKeeps
<1>3. QED
  BY <1>1, <1>2

(* The steps of an activation.                                              *)
LEMMA ActivateKeeps ==
  ASSUME KeptInv, NEW r \in Requests, NEW k \in links, ActivateAuthToken(r, k),
         NEW e \in Emails, req[r].email = e, ~exposed[e]
  PROVE  Keeps(r, e)
<1>a. TypeInv /\ SafeInv /\ RequestsOK /\ Sound(e) /\ Undone(e)
  BY DEF KeptInv, OwnInv, SafeInv, TypeInv, TypeOK, Kept
<1>1. /\ UNCHANGED <<accounts, gone, clock>> /\ pc[r] = "handle"
      /\ \/ Finish(r)
         \/ pc'[r] = "actGet" /\ \E a \in authRequests : ar'[r] = a
  BY <1>a DEF ActivateAuthToken, Handling, storage, history, Goto, RequestsOK
<1>2. ASSUME NEW a \in authRequests, a.email = e PROVE a.token.id \notin Spent(e)
  <2> SUFFICES ASSUME a.token.id \in Spent(e) PROVE FALSE
    OBVIOUS
  <2>1. PICK q \in Requests : pc[q] = "actDelete" /\ ar[q] = a
    BY <1>a, <1>2 DEF Undone
  <2>2. req[q].email = e
    BY <1>2, <2>1 DEF KeptInv, Aside
  <2>3. QED
    BY <1>a, <1>1, <2>1, <2>2, Apart DEF Emailed
<1>3. pc'[r] \in {"idle", "unlock", "actGet"}
  BY <1>a, <1>1, FinishEffect
<1>4. Spent(e)' = Spent(e)
  BY <1>1, AccountSame DEF Spent
<1>5. pc'[r] = "actGet" /\ ar'[r].email = e => ar'[r].token.id \notin Spent(e)
  BY <1>a, <1>1, <1>2, FinishEffect
<1>6. InAuth(r, e)' /\ InAct(r, e)'
  BY <1>3, <1>4, <1>5 DEF InAuth, InAct
<1>7. QED
  BY <1>a, <1>1, <1>6, UnwrittenKeeps

LEMMA ActGetKeeps ==
  ASSUME KeptInv, NEW r \in Requests, ActGet(r),
         NEW e \in Emails, req[r].email = e, ~exposed[e]
  PROVE  Keeps(r, e)
<1>a. TypeInv /\ RequestsOK /\ Sound(e) /\ InAct(r, e)
  BY DEF KeptInv, OwnInv, SafeInv, TypeInv, TypeOK, Kept
<1>1. /\ UNCHANGED <<accounts, gone, clock, ar>> /\ pc[r] = "actGet" /\ pc'[r] = "actPut"
      /\ acc'[r] = IF accounts[ar[r].email] = NoAccount THEN <<>>
                                                       ELSE accounts[ar[r].email]
  BY <1>a DEF ActGet, storage, Goto, RequestsOK
<1>2. Tokens(e)' = Tokens(e) /\ Spent(e)' = Spent(e)
  BY <1>1, AccountSame DEF Spent
<1>3. ar[r].email = e => Distinct(acc'[r]) /\ Elements(acc'[r]) = Tokens(e)
  <2>1. CASE accounts[e] = NoAccount
    BY <1>1, <2>1, EmptyElements DEF Tokens
  <2>2. CASE accounts[e] # NoAccount
    BY <1>a, <1>1, <2>2, AccountElements DEF Sound
  <2>3. QED
    BY <2>1, <2>2
<1>4. InAuth(r, e)' /\ InAct(r, e)'
  BY <1>a, <1>1, <1>2, <1>3 DEF InAuth, InAct
<1>5. QED
  BY <1>a, <1>1, <1>4, UnwrittenKeeps

LEMMA ActRemoveKeeps ==
  ASSUME KeptInv, NEW r \in Requests, ActRemove(r),
         NEW e \in Emails, req[r].email = e, ~exposed[e]
  PROVE  Keeps(r, e)
<1> DEFINE z == RemoveAuthToken(acc[r], SameDevice(r))
<1>a. TypeInv /\ RequestsOK /\ Sound(e) /\ InAct(r, e)
  BY DEF KeptInv, OwnInv, SafeInv, TypeInv, TypeOK, Kept
<1>1. /\ UNCHANGED <<accounts, gone, clock, ar, pc>> /\ pc[r] = "actPut" /\ acc'[r] = z
  BY <1>a DEF ActRemove, storage, history, RequestsOK
<1>2. Tokens(e)' = Tokens(e) /\ Spent(e)' = Spent(e) /\ SameDevice(r)' = SameDevice(r)
  BY <1>1, AccountSame DEF Spent, SameDevice
<1>3. /\ Elements(z) \subseteq Elements(acc[r])
      /\ \A t \in Elements(acc[r]) : t \in Elements(z) \/ Matches(SameDevice(r), t)
      /\ Distinct(acc[r]) => Distinct(z)
  BY <1>a, Typed, RemovedElements
<1> HIDE DEF z
<1>4. \A t \in Elements(acc[r]) : t \in Elements(z) \/ Promise!Replaces(ar[r].token, t)
  <2>1. SameDevice(r).device \in UUIDs /\ ar[r].token \in Token
    BY <1>a, <1>1, OwnFacts DEF ActRemove, Matching, SameDevice, Query, KeptInv
  <2>2. QED
    BY <1>3, <2>1, NamesAssumption
       DEF SameDevice, Query, Matches, Promise!Replaces, Token, Types
<1>5. InAuth(r, e)' /\ InAct(r, e)'
  BY <1>a, <1>1, <1>2, <1>3, <1>4 DEF InAuth, InAct
<1>6. QED
  BY <1>a, <1>1, <1>5, UnwrittenKeeps

LEMMA ActPutKeeps ==
  ASSUME KeptInv, NEW r \in Requests, ActPut(r),
         NEW e \in Emails, req[r].email = e, ~exposed[e]
  PROVE  Keeps(r, e)
<1> DEFINE z == AddAuthToken(acc[r], ar[r].token)
<1>a. /\ OwnInv /\ TypeInv /\ RequestsOK /\ StorageOK /\ Sound(e) /\ InAct(r, e)
  BY DEF KeptInv, OwnInv, SafeInv, TypeInv, TypeOK, Kept
<1>1. /\ UNCHANGED <<authRequests, gone, clock, ar>>
      /\ pc[r] = "actPut" /\ pc'[r] = "actDelete"
      /\ accounts' = [accounts EXCEPT ![ar[r].email] = z]
  BY <1>a DEF ActPut, history, Goto, RequestsOK
<1>2. InAuth(r, e)' /\ InAct(r, e)'
  BY <1>1 DEF InAuth, InAct
<1>3. CASE ar[r].email # e
  <2>1. accounts'[e] = accounts[e]
    BY <1>1, <1>3, <1>a DEF StorageOK
  <2>2. Tokens(e)' = Tokens(e) /\ Listed(e)' = Listed(e)
    BY <2>1, AccountSame
  <2>3. Sound(e)' /\ Spent(e)' = Spent(e)
    BY <1>a, <1>1, <2>1, <2>2 DEF Sound, Ended, Spent
  <2>4. QED
    BY <1>2, <2>3 DEF Keeps
<1>4. CASE ar[r].email = e
  <2>1. /\ Distinct(acc[r]) /\ Elements(acc[r]) \subseteq Tokens(e)
        /\ ar[r].token.id \notin Spent(e)
    BY <1>a, <1>1, <1>4 DEF InAct
  <2>2. acc[r] \in Seq(Token) /\ ar[r].token \in Token /\ ar[r] \in Known
    BY <1>a, <1>1, OwnFacts
  <2>3. IdsOf(acc[r]) \subseteq Listed(e)
    BY <2>1 DEF IdsOf, Listed
  <2>4. /\ z \in Seq(Token) /\ Distinct(z)
        /\ Elements(z) = Elements(acc[r]) \cup {ar[r].token}
    BY <2>1, <2>2, <2>3, AddedElements DEF Spent
  <2> HIDE DEF z
  <2>5. accounts'[e] = z /\ z # NoAccount
    BY <1>a, <1>1, <1>4, <2>4 DEF StorageOK
  <2>6. Tokens(e)' = Elements(z) /\ Listed(e)' = IdsOf(z)
    BY <2>5 DEF Tokens, Elements, Listed, IdsOf
  <2>7. Sound(e)'
    <3>1. \A t \in Elements(z) : t.id \in gone => Expired(t, clock)
      BY <1>a, <2>1, <2>4 DEF Sound, Ended, Spent
    <3>2. QED
      BY <1>1, <2>4, <2>5, <2>6, <3>1 DEF Sound, Ended
  <2>8. ASSUME NEW a \in authRequests', a.token.id \in Spent(e)', a.token.id \notin Spent(e)
        PROVE  ar'[r] = a
    <3>1. a.token.id = ar[r].token.id
      BY <1>1, <2>3, <2>4, <2>6, <2>8 DEF Spent, IdsOf
    <3>2. a \in Known
      BY <1>1, <2>8 DEF Known
    <3>3. QED
      BY <1>a, <1>1, <2>2, <3>1, <3>2 DEF OwnInv, OneRequest
  <2>9. QED
    BY <1>1, <1>2, <2>7, <2>8 DEF Keeps
<1>5. QED
  BY <1>3, <1>4

LEMMA ActLoginKeeps ==
  ASSUME KeptInv, NEW r \in Requests, NEW i \in Ids, ActLogin(r, i),
         NEW e \in Emails, req[r].email = e, ~exposed[e]
  PROVE  Keeps(r, e)
<1>a. OwnInv /\ RequestsOK /\ Sound(e)
  BY DEF KeptInv, OwnInv, SafeInv, TypeInv, TypeOK, Kept
<1>1. /\ UNCHANGED <<accounts, gone, clock>> /\ pc'[r] = "actGet" /\ i \in Fresh
      /\ ar'[r].token.id = i
  BY <1>a DEF ActLogin, storage, Goto, RequestsOK, NewAuthRequest, NewAuthToken
<1>2. i \notin Spent(e)
  BY <1>a, <1>1, SpentOwned DEF Fresh
<1>3. Spent(e)' = Spent(e)
  BY <1>1, AccountSame DEF Spent
<1>4. InAuth(r, e)' /\ InAct(r, e)'
  BY <1>1, <1>2, <1>3 DEF InAuth, InAct
<1>5. QED
  BY <1>a, <1>1, <1>4, UnwrittenKeeps

(* The steps that end or never had a copy of the account.                   *)
LEMMA PlainKeeps ==
  ASSUME KeptInv, NEW r \in Requests, NEW e \in Emails, req[r].email = e, ~exposed[e],
         \/ Quiet(r) \/ DelAccount(r)
         \/ \E i \in Ids, t \in Types, c \in Codes \cup {NoCode} : ReqPut(r, i, t, c)
  PROVE  Keeps(r, e)
<1>a. OwnInv /\ TypeInv /\ RequestsOK /\ StorageOK /\ Sound(e)
  BY DEF KeptInv, OwnInv, SafeInv, TypeInv, TypeOK, Kept
<1>1. ASSUME Quiet(r) PROVE Keeps(r, e)
  <2>1. UNCHANGED <<accounts, gone, clock>> /\ pc'[r] \notin {"authPut", "actGet", "actPut"}
    BY <1>1, <1>a, QuietSteps DEF QuietStep
  <2>2. InAuth(r, e)' /\ InAct(r, e)'
    BY <2>1 DEF InAuth, InAct
  <2>3. QED
    BY <1>a, <2>1, <2>2, UnwrittenKeeps
<1>2. ASSUME NEW i \in Ids, NEW t \in Types, NEW c \in Codes \cup {NoCode}, ReqPut(r, i, t, c)
      PROVE  Keeps(r, e)
  <2>1. UNCHANGED <<accounts, gone, clock>> /\ (Finish(r) \/ pc'[r] = "reqMail")
    BY <1>2, <1>a DEF ReqPut, Goto, RequestsOK
  <2>2. pc'[r] \notin {"authPut", "actGet", "actPut"}
    BY <1>a, <2>1, FinishEffect
  <2>3. InAuth(r, e)' /\ InAct(r, e)'
    BY <2>2 DEF InAuth, InAct
  <2>4. QED
    BY <1>a, <2>1, <2>3, UnwrittenKeeps
<1>3. ASSUME DelAccount(r) PROVE Keeps(r, e)
  <2>1. /\ accounts'[e] = NoAccount /\ UNCHANGED <<gone, clock>> /\ Finish(r)
    BY <1>3, <1>a DEF DelAccount, history, StorageOK
  <2>2. Tokens(e)' = {} /\ Listed(e)' = {}
    BY <2>1 DEF Tokens, Listed
  <2>3. Sound(e)' /\ Spent(e)' \subseteq Spent(e)
    BY <2>1, <2>2 DEF Sound, Ended, Spent
  <2>4. InAuth(r, e)' /\ InAct(r, e)'
    BY <1>a, <2>1, FinishEffect DEF InAuth, InAct
  <2>5. QED
    BY <2>3, <2>4 DEF Keeps
<1>4. QED
  BY <1>1, <1>2, <1>3

(* An activation that is not of the locked account exposes that account.    *)
LEMMA AsideKept ==
  ASSUME KeptInv, NEW r \in Requests, Acting(r), NEW q \in Requests
  PROVE  Aside(q)'
<1>a. OwnInv /\ TypeInv /\ RequestsOK /\ HistoryOK /\ Frame(r) /\ Aside(q)
  BY ActingSafe DEF KeptInv, OwnInv, SafeInv, TypeInv, TypeOK
<1>b. pc[q] \in {"actGet", "actPut", "actDelete"} => ar[q].email \in Emails
  BY <1>a, OwnFacts
<1>1. CASE q # r
  <2>1. pc'[q] = pc[q] /\ req'[q] = req[q] /\ ar'[q] = ar[q]
    BY <1>a, <1>1 DEF Frame
  <2>2. QED
    BY <1>a, <1>b, <2>1 DEF Aside, Frame
<1>2. CASE q = r
  <2>1. req'[r].email = req[r].email
    BY <1>a DEF Frame, Emailed
  <2>2. ASSUME ActGet(r) PROVE Aside(r)'
    <3>1. /\ ar' = ar /\ ar[r].email \in Emails
          /\ exposed'[ar[r].email] = (exposed[ar[r].email] \/ ~Holds(r, ar[r].email))
      BY <1>a, <1>b, <1>2, <2>2 DEF ActGet, HistoryOK
    <3>2. QED
      BY <2>1, <3>1 DEF Aside, Holds
  <2>3. ASSUME ActRemove(r) \/ ActPut(r) PROVE Aside(r)'
    <3>1. ar' = ar /\ exposed' = exposed /\ pc[r] = "actPut"
      BY <2>3 DEF ActRemove, ActPut, history
    <3>2. QED
      BY <1>a, <1>2, <2>1, <3>1 DEF Aside
  <2>4. ASSUME Quiet(r) PROVE Aside(r)'
    BY <2>4, <1>a, QuietSteps DEF QuietStep, Aside
  <2>5. ASSUME \/ AuthSkeleton(r) \/ AuthAccepted(r) \/ AuthPut(r)
               \/ \E i \in Ids, t \in Types, c \in Codes \cup {NoCode} : ReqPut(r, i, t, c)
               \/ \E k \in links : ActivateAuthToken(r, k)
               \/ (\E i \in Ids : ActLogin(r, i)) \/ DelAccount(r) \/ Logout(r)
               \/ \E i \in Ids : Revoke(r, i)
        PROVE  Aside(r)'
    <3>1. Finish(r) \/ pc'[r] \in {"authPut", "handle", "reqMail", "actGet"}
      BY <2>5, <1>a DEF AuthSkeleton, AuthAccepted, AuthPut, Proceed, ReqPut,
                  ActivateAuthToken, ActLogin, DelAccount, Logout, Revoke, Goto, RequestsOK
    <3>2. pc'[r] \notin {"actPut", "actDelete"}
      BY <1>a, <3>1, FinishEffect
    <3>3. QED
      BY <3>2 DEF Aside
  <2>6. QED
    BY <1>2, <2>2, <2>3, <2>4, <2>5
       DEF Acting, Quiet, Authenticating, Requesting, Activating, Using
<1>3. QED
  BY <1>1, <1>2

LEMMA ActingKept ==
  ASSUME KeptInv, NEW r \in Requests, Acting(r)
  PROVE  KeptInv'
<1>1. OwnInv' /\ Frame(r)
  BY ActingSafe, ActingOwned DEF KeptInv, OwnInv
<1>2. \A q \in Requests : Aside(q)'
  BY AsideKept
<1>3. ASSUME NEW e \in Emails PROVE Kept(e)'
  <2>1. CASE req[r].email # e
    BY <2>1, AwayKept
  <2>2. ASSUME req[r].email = e, ~exposed'[e] PROVE Keeps(r, e)
    <3>1. ~exposed[e]
      BY <1>1, <2>2 DEF Frame
    <3>2. QED
      BY <2>2, <3>1, PlainKeeps, AuthenticatingKeeps, AuthPutKeeps, EndingKeeps,
         ActivateKeeps, ActGetKeeps, ActRemoveKeeps, ActPutKeeps, ActLoginKeeps
         DEF Acting, Quiet, Authenticating, Requesting, Activating, Using
  <2>3. QED
    BY <2>1, <2>2, HereKept
<1>4. QED
  BY <1>1, <1>2, <1>3 DEF KeptInv

(* As time goes by, what is expired stays expired and nothing becomes good. *)
LEMMA Aged ==
  ASSUME TypeInv, clock' \in {clock, clock + 1}, NEW t \in Token
  PROVE  (Expired(t, clock) => Expired(t, clock')) /\ (Good(t)' => Good(t))
<1>1. /\ clock \in Nat /\ clock' \in Nat /\ clock <= clock'
      /\ t.expires \in Nat /\ t.lastUsed \in Nat
  BY DEF TypeInv, TypeOK, StorageOK, Token
<1>2. Expired(t, clock) => Expired(t, clock')
  BY <1>1 DEF Expired
<1>3. Retained(t, clock') => Retained(t, clock)
  <2> DEFINE k == IF t.type = "api" THEN KeepAge ELSE 0
  <2>1. k \in Nat
    OBVIOUS
  <2> HIDE DEF k
  <2>2. t.expires > clock' - k => t.expires > clock - k
    BY <1>1, <2>1
  <2>3. QED
    BY <2>2 DEF Retained, k
<1>4. t.lastUsed > clock' - MaxIdle => t.lastUsed > clock - MaxIdle
  BY <1>1
<1>5. QED
  BY <1>2, <1>3, <1>4 DEF Good

LEMMA InitKept == Init => KeptInv
<1> SUFFICES ASSUME Init PROVE KeptInv
  OBVIOUS
<1>1. \A r \in Requests : Aside(r)
  BY DEF Init, Aside
<1>2. ASSUME NEW e \in Emails PROVE Kept(e)
  <2>1. Sound(e) /\ Undone(e)
    BY DEF Init, Sound, Ended, Tokens, Undone
  <2>2. \A r \in Requests : InAuth(r, e) /\ InAct(r, e)
    BY DEF Init, InAuth, InAct
  <2>3. QED
    BY <2>1, <2>2 DEF Kept
<1>3. QED
  BY InitOwned, <1>1, <1>2 DEF KeptInv

(* Before and behind a handler nothing is read or written.                  *)
LEMMA PassingKept ==
  ASSUME KeptInv, OwnInv', NEW r \in Requests,
         Arriving(r) \/ LockAccount(r) \/ UnlockAccount(r)
  PROVE  KeptInv'
<1>a. TypeInv /\ RequestsOK
  BY DEF KeptInv, OwnInv, SafeInv, TypeInv, TypeOK
<1>1. /\ UNCHANGED <<accounts, authRequests, ar, acc, owner, gone, exposed, clock>>
      /\ \A q \in Requests \ {r} : pc'[q] = pc[q] /\ req'[q] = req[q]
      /\ pc[r] \in {"idle", "lock", "unlock"}
      /\ pc'[r] \in {"idle", "lock", "handle", "authGet"}
  BY <1>a DEF Arriving, Arrive, LockAccount, UnlockAccount, Goto, RequestsOK,
              storage, local, history
<1>2. ASSUME NEW q \in Requests PROVE Aside(q)'
  <2>1. Aside(q)
    BY DEF KeptInv
  <2>2. QED
    BY <1>1, <2>1 DEF Aside
<1>3. ASSUME NEW e \in Emails, ~exposed'[e]
      PROVE  /\ Sound(e)' /\ Undone(e)'
             /\ \A q \in Requests : req'[q].email = e => InAuth(q, e)' /\ InAct(q, e)'
  <2>1. /\ Sound(e) /\ Undone(e)
        /\ \A q \in Requests : req[q].email = e => InAuth(q, e) /\ InAct(q, e)
    BY <1>1, <1>3 DEF KeptInv, Kept
  <2>2. Tokens(e)' = Tokens(e) /\ Listed(e)' = Listed(e) /\ Spent(e)' = Spent(e)
    BY <1>1, AccountSame DEF Spent
  <2>3. Sound(e)'
    BY <1>1, <2>1, <2>2 DEF Sound, Ended
  <2>4. Undone(e)'
    BY <1>1, <2>1, <2>2 DEF Undone
  <2>5. ASSUME NEW q \in Requests, req'[q].email = e PROVE InAuth(q, e)' /\ InAct(q, e)'
    <3>1. CASE q = r
      BY <1>1, <3>1 DEF InAuth, InAct
    <3>2. CASE q # r
      <4>1. InAuth(q, e) /\ InAct(q, e) /\ pc'[q] = pc[q]
        BY <1>1, <2>1, <2>5, <3>2
      <4>2. SameDevice(q)' = SameDevice(q) /\ \A t : Good(t)' = Good(t)
        BY <1>1 DEF SameDevice, Good
      <4>3. QED
        BY <1>1, <2>2, <4>1, <4>2 DEF InAuth, InAct
    <3>3. QED
      BY <3>1, <3>2
  <2>6. QED
    BY <2>3, <2>4, <2>5
<1>4. QED
  BY <1>2, <1>3 DEF KeptInv, Kept

(* The cleaning job and the clock.                                          *)
LEMMA BesideKept ==
  ASSUME KeptInv, OwnInv',
         \/ CleanStart \/ Tick \/ UNCHANGED vars
         \/ \E a \in sweep : CleanNext(a)
  PROVE  KeptInv'
<1>a. TypeInv /\ RequestsOK /\ StorageOK
  BY DEF KeptInv, OwnInv, SafeInv, TypeInv, TypeOK
<1>1. /\ UNCHANGED <<accounts, ar, acc, gone, exposed, pc, req>>
      /\ authRequests' \subseteq authRequests
      /\ clock' \in {clock, clock + 1}
  BY DEF CleanStart, CleanNext, Tick, vars, storage, local, history, Without
<1>2. \A q \in Requests : Aside(q)'
  BY <1>1 DEF KeptInv, Aside
<1>3. ASSUME NEW e \in Emails, ~exposed'[e]
      PROVE  /\ Sound(e)' /\ Undone(e)'
             /\ \A q \in Requests : req'[q].email = e => InAuth(q, e)' /\ InAct(q, e)'
  <2>1. /\ Sound(e) /\ Undone(e)
        /\ \A q \in Requests : req[q].email = e => InAuth(q, e) /\ InAct(q, e)
    BY <1>1, <1>3 DEF KeptInv, Kept
  <2>2. Tokens(e)' = Tokens(e) /\ Listed(e)' = Listed(e) /\ Spent(e)' = Spent(e)
    BY <1>1, AccountSame DEF Spent
  <2>3. Tokens(e) \subseteq Token
    BY <1>a, Stored DEF Tokens
  <2>4. Sound(e)'
    <3>1. \A t \in Tokens(e) : t.id \in gone => Expired(t, clock')
      BY <1>a, <1>1, <2>1, <2>3, Aged DEF Sound, Ended
    <3>2. QED
      BY <1>1, <2>1, <2>2, <3>1 DEF Sound, Ended
  <2>5. Undone(e)'
    BY <1>1, <2>1, <2>2 DEF Undone
  <2>6. ASSUME NEW q \in Requests, req'[q].email = e PROVE InAuth(q, e)' /\ InAct(q, e)'
    <3>1. InAuth(q, e) /\ InAct(q, e)
      BY <1>1, <2>1, <2>6
    <3>2. InAct(q, e)'
      <4>1. SameDevice(q)' = SameDevice(q)
        BY <1>1 DEF SameDevice
      <4>2. QED
        BY <1>1, <2>2, <3>1, <4>1 DEF InAct
    <3>3. InAuth(q, e)'
      <4>1. Elements(acc[q]) \subseteq Token
        BY <1>a, Typed, TypedElements
      <4>2. \A t \in Token : Good(t)' => Good(t)
        BY <1>a, <1>1, Aged
      <4>3. \A t \in Token : Expired(t, clock) => Expired(t, clock')
        BY <1>a, <1>1, Aged
      <4>4. 0 .. clock \subseteq 0 .. clock'
        BY <1>a, <1>1 DEF StorageOK
      <4>5. QED
        BY <1>1, <2>2, <2>3, <3>1, <4>1, <4>2, <4>3, <4>4 DEF InAuth
    <3>4. QED
      BY <3>2, <3>3
  <2>7. QED
    BY <2>4, <2>5, <2>6
<1>4. QED
  BY <1>2, <1>3 DEF KeptInv, Kept

(* A crash exposes the accounts of the activations it cuts off.             *)
LEMMA CrashKept ==
  ASSUME KeptInv, OwnInv', Crash
  PROVE  KeptInv'
<1>1. /\ UNCHANGED <<accounts, authRequests, gone, clock>>
      /\ \A q \in Requests : pc'[q] = "idle"
      /\ \A e \in Emails :
            exposed'[e] = (exposed[e] \/ \E q \in Requests : Cut(q) /\ ar[q].email = e)
  BY DEF Crash, storage
<1>2. \A q \in Requests : Aside(q)'
  BY <1>1 DEF Aside
<1>3. ASSUME NEW e \in Emails PROVE Kept(e)'
  <2> SUFFICES ASSUME ~exposed'[e] PROVE Kept(e)'
    BY DEF Kept
  <2>1. /\ Sound(e) /\ Undone(e)
        /\ ~\E q \in Requests : Cut(q) /\ ar[q].email = e
    BY <1>1 DEF KeptInv, Kept
  <2>2. Tokens(e)' = Tokens(e) /\ Spent(e)' = Spent(e)
    BY <1>1, AccountSame DEF Spent
  <2>3. Sound(e)'
    BY <1>1, <2>1, <2>2 DEF Sound, Ended
  <2>4. Undone(e)'
    BY <1>1, <2>1, <2>2 DEF Undone, Cut
  <2>5. \A q \in Requests : InAuth(q, e)' /\ InAct(q, e)'
    BY <1>1 DEF InAuth, InAct
  <2>6. QED
    BY <2>3, <2>4, <2>5 DEF Kept
<1>4. QED
  BY <1>2, <1>3 DEF KeptInv

LEMMA NextKept == KeptInv /\ [Next]_vars => KeptInv'
<1> SUFFICES ASSUME KeptInv, [Next]_vars PROVE KeptInv'
  OBVIOUS
<1>1. OwnInv'
  BY NextOwned DEF KeptInv
<1>2. QED
  BY <1>1, ActingKept, PassingKept, BesideKept, CrashKept DEF Next, Serve, Acting

LEMMA AlwaysKept == Spec => []KeptInv
BY InitKept, NextKept, PTL DEF Spec

-----------------------------------------------------------------------------
(* auth.go:173, handler.go:222-250: an account whose activations ran under  *)
(* its lock and to their end lists no token twice.                          *)
THEOREM ServiceTokensDistinct == Spec => []TokensDistinct
<1>1. KeptInv => TokensDistinct
  BY DEF KeptInv, Kept, Sound, TokensDistinct
<1>2. QED
  BY AlwaysKept, <1>1, PTL

(* server_test.go:727-730, auth.go:230: in such an account a token that was *)
(* logged out or revoked is refused ever after.                             *)
THEOREM ServiceGoneIsRefused == Spec => []GoneIsRefused
<1>1. KeptInv => GoneIsRefused
  BY DEF KeptInv, Kept, Sound, GoneIsRefused
<1>2. QED
  BY AlwaysKept, <1>1, PTL

(* No step takes a good token from such an account but those that dismiss it. *)
LEMMA GoodStays ==
  ASSUME KeptInv, [Next]_vars, NEW e \in Emails, NEW t \in Tokens(e),
         ~exposed[e], Good(t), t.id \notin {u.id : u \in Tokens(e)'}
  PROVE  \E r \in Requests : Dismissed(r, e, t)
<1>a. OwnInv /\ TypeInv /\ StorageOK
  BY DEF KeptInv, OwnInv, SafeInv, TypeInv, TypeOK
<1>b. accounts'[e] # accounts[e]
  <2>1. accounts'[e] = accounts[e] => Tokens(e)' = Tokens(e)
    BY AccountSame
  <2>2. QED
    BY <2>1
<1>c. \A q \in Requests : req[q].email = e => InAuth(q, e) /\ InAct(q, e)
  BY DEF KeptInv, Kept
<1>d. ASSUME NEW f, NEW z \in Seq(Token), accounts' = [accounts EXCEPT ![f] = z]
      PROVE  f = e /\ t.id \notin IdsOf(z)
  <2>1. f = e
    BY <1>a, <1>b, <1>d DEF StorageOK
  <2>2. accounts'[e] = z /\ z # NoAccount
    BY <1>a, <1>d, <2>1 DEF StorageOK
  <2>3. IdsOf(z) = {u.id : u \in Tokens(e)'}
    BY <2>2 DEF Tokens, IdsOf, Elements
  <2>4. QED
    BY <2>1, <2>3
<1>1. ASSUME NEW r \in Requests, AuthPut(r) PROVE FALSE
  <2>1. /\ accounts' = [accounts EXCEPT ![req[r].email] = acc[r]] /\ pc[r] = "authPut"
        /\ acc[r] \in Seq(Token)
    BY <1>1, <1>a, Typed DEF AuthPut
  <2>2. req[r].email = e /\ t.id \notin IdsOf(acc[r])
    BY <1>d, <2>1
  <2>3. QED
    BY <1>c, <2>1, <2>2 DEF InAuth
<1>2. ASSUME NEW r \in Requests, ActPut(r) PROVE Dismissed(r, e, t)
  <2> DEFINE z == AddAuthToken(acc[r], ar[r].token)
  <2>1. /\ accounts' = [accounts EXCEPT ![ar[r].email] = z] /\ pc[r] = "actPut"
    BY <1>2 DEF ActPut
  <2>2. acc[r] \in Seq(Token) /\ ar[r].token \in Token
    BY <1>a, <2>1, OwnFacts
  <2>3. z \in Seq(Token) /\ Elements(z) = Elements(acc[r]) \cup {ar[r].token}
    BY <2>2, AddedElements
  <2> HIDE DEF z
  <2>4. ar[r].email = e /\ t.id \notin IdsOf(z)
    BY <1>d, <2>1, <2>3
  <2>5. req[r].email = e
    BY <2>1, <2>4 DEF KeptInv, Aside
  <2>6. t \notin Elements(acc[r])
    BY <2>3, <2>4 DEF IdsOf
  <2>7. Matches(SameDevice(r), t)
    BY <1>c, <2>1, <2>4, <2>5, <2>6
       DEF InAct, Promise!Replaces, SameDevice, Query, Matches
  <2>8. QED
    BY <2>1, <2>4, <2>7 DEF Dismissed
<1>3. ASSUME NEW r \in Requests, DelAccount(r) PROVE Dismissed(r, e, t)
  <2>1. accounts' = [accounts EXCEPT ![req[r].email] = NoAccount] /\ pc[r] = "delAccount"
    BY <1>3 DEF DelAccount
  <2>2. req[r].email = e
    BY <1>a, <1>b, <2>1 DEF StorageOK
  <2>3. QED
    BY <2>1, <2>2 DEF Dismissed
<1>4. ASSUME NEW r \in Requests, Logout(r) PROVE Dismissed(r, e, t)
  <2> DEFINE z == RemoveAuthToken(acc[r], auth[r])
  <2>1. accounts' = [accounts EXCEPT ![req[r].email] = z] /\ Handling(r, "Logout")
    BY <1>4 DEF Logout
  <2>2. acc[r] \in Seq(Token)
    BY <1>a, OwnFacts
  <2>3. z \in Seq(Token) /\ \A u \in Elements(acc[r]) : u \in Elements(z) \/ Matches(auth[r], u)
    BY <2>2, RemovedElements
  <2> HIDE DEF z
  <2>4. req[r].email = e /\ t.id \notin IdsOf(z)
    BY <1>d, <2>1, <2>3
  <2>5. t \in Elements(acc[r])
    BY <1>4, <2>4, Handed
  <2>6. Matches(auth[r], t)
    BY <2>3, <2>4, <2>5 DEF IdsOf
  <2>7. auth[r].id # NoId
    BY <1>4, <1>a, LogoutEnds
  <2>8. QED
    BY <2>1, <2>6, <2>7 DEF Dismissed, Matches
<1>5. ASSUME NEW r \in Requests, NEW i \in Ids, Revoke(r, i) PROVE FALSE
  <2> DEFINE z == Revoked(r, i)
  <2>1. /\ accounts' = [accounts EXCEPT ![req[r].email] = z]
        /\ z \in Seq(Token) /\ DOMAIN z = DOMAIN acc[r]
        /\ \A k \in DOMAIN acc[r] : z[k].id = acc[r][k].id
    BY <1>5, <1>a, RevokeEnds
  <2> HIDE DEF z
  <2>2. req[r].email = e /\ t.id \notin IdsOf(z)
    BY <1>d, <2>1
  <2>3. t \in Elements(acc[r])
    BY <1>5, <2>2, Handed
  <2>4. QED
    BY <2>1, <2>2, <2>3 DEF Elements, IdsOf
<1>6. ASSUME NEW r \in Requests, Acting(r), ~AuthPut(r), ~ActPut(r), ~DelAccount(r),
             ~Logout(r), ~\E i \in Ids : Revoke(r, i)
      PROVE  accounts' = accounts
  BY <1>6 DEF Acting, Authenticating, Requesting, Activating, Using, AuthRefused,
     AuthSkeleton, AuthAccepted, Reject, RequestAuthToken, ReqStore, ReqPut, ReqMail,
     ReqDenied, ActivateAuthToken, ActGet, ActRemove, ActDelete, ActLogin, Read,
     WriteStore, DeleteStore, DeleteAccount, AuthFail, Fail, storage
<1>7. ASSUME \/ \E r \in Requests : Arriving(r) \/ LockAccount(r) \/ UnlockAccount(r)
             \/ Crash \/ CleanStart \/ Tick \/ UNCHANGED vars
             \/ \E a \in sweep : CleanNext(a)
      PROVE  accounts' = accounts
  BY <1>7 DEF Arriving, Arrive, LockAccount, UnlockAccount, Crash, CleanStart, CleanNext,
              Tick, vars, storage
<1>8. PICK r \in Requests : Acting(r)
  BY <1>b, <1>7 DEF Next, Serve, Acting
<1>9. QED
  BY <1>1, <1>2, <1>3, <1>4, <1>5, <1>6, <1>8, <1>b

(* server.go:192-227, handler.go:210-250: Authenticate, which rewrites the  *)
(* account for every request, drops no good token, and no race makes a      *)
(* request overwrite one: it leaves by its own logout, by the activation of *)
(* another for the same device, or with the account.                        *)
THEOREM ServiceGoodTokensStay == Spec => GoodTokensStay
<1> DEFINE Stay == \A e \in Emails : \A t \in Tokens(e) :
              ~exposed[e] /\ Good(t) /\ t.id \notin {u.id : u \in Tokens(e)'}
                  => \E r \in Requests : Dismissed(r, e, t)
<1>1. KeptInv /\ [Next]_vars => [Stay]_vars
  BY GoodStays
<1>2. QED
  BY AlwaysKept, <1>1, PTL DEF Spec, GoodTokensStay
-----------------------------------------------------------------------------
(* Every step of the service is one of the abstract accounts, or none.      *)

(* The owner of a token never changes.                                      *)
LEMMA OwnerKept ==
  ASSUME TypeInv, [Next]_vars, NEW i \in Ids, owner[i] # NoOne
  PROVE  owner'[i] = owner[i]
<1>a. owner \in [Ids -> Emails \cup {NoOne}]
  BY OwnersTyped
<1>1. ASSUME NEW r \in Requests, NEW j \in Ids, NEW t \in Types,
             NEW c \in Codes \cup {NoCode}, ReqPut(r, j, t, c)
      PROVE  owner'[i] = owner[i]
  BY <1>1, <1>a DEF ReqPut, Fresh
<1>2. ASSUME NEW r \in Requests, NEW j \in Ids, ActLogin(r, j)
      PROVE  owner'[i] = owner[i]
  BY <1>2, <1>a DEF ActLogin, Fresh
<1>3. ASSUME NEW r \in Requests, Acting(r),
             ~\E j \in Ids, t \in Types, c \in Codes \cup {NoCode} : ReqPut(r, j, t, c),
             ~\E j \in Ids : ActLogin(r, j)
      PROVE  owner' = owner
  BY <1>3 DEF Acting, Authenticating, Requesting, Activating, Using, AuthRefused,
     AuthSkeleton, AuthAccepted, AuthPut, Reject, RequestAuthToken, ReqStore, ReqMail,
     ReqDenied, ActivateAuthToken, ActGet, ActRemove, ActPut, ActDelete, Read,
     WriteStore, DeleteStore, DeleteAccount, DelAccount, Logout, Revoke, AuthFail, Fail,
     history
<1>4. ASSUME \/ \E r \in Requests : Arriving(r) \/ LockAccount(r) \/ UnlockAccount(r)
             \/ Crash \/ CleanStart \/ Tick \/ UNCHANGED vars
             \/ \E a \in sweep : CleanNext(a)
      PROVE  owner' = owner
  BY <1>4 DEF Arriving, Arrive, LockAccount, UnlockAccount, Crash, CleanStart, CleanNext,
              Tick, vars, history
<1>5. QED
  BY <1>1, <1>2, <1>3, <1>4 DEF Next, Serve, Acting

LEMMA NoAccountSet == {NoAccount} \notin SUBSET Token
  BY ServiceAssumption

(* The view of an account, and of one that is written.                      *)
LEMMA View ==
  ASSUME TypeInv, NEW e \in Emails
  PROVE  /\ TokenSets[e] = (IF accounts[e] = NoAccount THEN {NoAccount} ELSE Tokens(e))
         /\ Promise!Exists(e) <=> accounts[e] # NoAccount
         /\ Promise!Current(e) = Tokens(e)
<1>1. accounts[e] # NoAccount => Tokens(e) \in SUBSET Token
  BY Stored, TypedElements DEF Tokens, Elements
<1>2. accounts[e] = NoAccount => Tokens(e) = {}
  BY DEF Tokens
<1>3. QED
  BY <1>1, <1>2, NoAccountSet
     DEF TokenSets, Tokens, Promise!Exists, Promise!Current

LEMMA Viewed ==
  ASSUME TypeInv, NEW e \in Emails, NEW z \in Seq(Token),
         accounts' = [accounts EXCEPT ![e] = z]
  PROVE  /\ TokenSets' = [TokenSets EXCEPT ![e] = Elements(z)]
         /\ TokenSets'[e] = Elements(z) /\ Elements(z) # {NoAccount}
<1>1. accounts \in [Emails -> Seq(Token) \cup {NoAccount}] /\ z # NoAccount
  BY DEF TypeInv, TypeOK, StorageOK
<1>2. Elements(z) # {NoAccount}
  BY TypedElements, NoAccountSet
<1>3. ASSUME NEW f \in Emails
      PROVE  TokenSets'[f] = IF f = e THEN Elements(z) ELSE TokenSets[f]
  <2>1. accounts'[f] = IF f = e THEN z ELSE accounts[f]
    BY <1>1
  <2>2. QED
    BY <1>1, <2>1 DEF TokenSets, Elements
<1>4. QED
  BY <1>2, <1>3 DEF TokenSets

LEMMA EndedSame ==
  ASSUME OwnInv, [Next]_vars, gone' = gone
  PROVE  EndedTokens' = EndedTokens
<1>1. \A i \in gone : owner'[i] = owner[i]
  BY OwnerKept DEF OwnInv, GoneOwned, SafeInv, TypeInv, TypeOK, HistoryOK
<1>2. QED
  BY <1>1 DEF EndedTokens

LEMMA EndedBy ==
  ASSUME OwnInv, NEW e \in Emails, NEW G, owner' = owner,
         gone' = gone \cup G, \A i \in G : owner[i] = e
  PROVE  EndedTokens' = [EndedTokens EXCEPT ![e] = EndedTokens[e] \cup G]
BY DEF EndedTokens

(* Nothing of an account changes: the promise may end.                      *)
LEMMA StepShares ==
  ASSUME OwnInv, [Next]_vars, UNCHANGED <<accounts, stores, gone, clock>>,
         \A e \in Emails : exposed[e] => exposed'[e]
  PROVE  Promise!Share
<1>1. EndedTokens' = EndedTokens
  BY EndedSame
<1>2. TokenSets' = TokenSets
  BY DEF TokenSets
<1>3. QED
  BY <1>1, <1>2 DEF Promise!Share

(* The data store of an account that exists is written or deleted.          *)
LEMMA StepWrites ==
  ASSUME OwnInv, NEW r \in Requests,
         \/ \E c \in Contents : WriteStore(r, c)
         \/ DeleteStore(r) \/ DeleteAccount(r)
  PROVE  \E e \in Emails, c \in Contents \cup {NoStore} : Promise!Write(e, c)
<1>a. TypeInv /\ OwnInv
  BY DEF OwnInv, SafeInv
<1>1. PICK c \in Contents \cup {NoStore} : stores' = [stores EXCEPT ![req[r].email] = c]
  BY DEF WriteStore, DeleteStore, DeleteAccount
<1>2. pc[r] = "handle" /\ AuthType(req[r].op) # ""
  BY DEF WriteStore, DeleteStore, DeleteAccount, Handling, AuthType
<1>3. auth[r] # NoAuth
  BY <1>a, <1>2, Typed DEF ReachAt
<1>4. PICK e \in Emails : e = req[r].email
  BY <1>2, <1>3, OwnFacts
<1>5. accounts[e] # NoAccount
  BY <1>2, <1>3, <1>4 DEF OwnInv, SafeInv, Own, Present, Authenticated, Emailed
<1>6. Promise!Exists(e)
  BY <1>a, <1>5, View
<1>7. UNCHANGED <<accounts, gone, owner, clock, exposed>>
  BY DEF WriteStore, DeleteStore, DeleteAccount, history
<1>8. TokenSets' = TokenSets /\ EndedTokens' = EndedTokens
  BY <1>7 DEF TokenSets, EndedTokens
<1>9. Promise!Write(e, c)
  BY <1>1, <1>4, <1>6, <1>7, <1>8 DEF Promise!Write
<1>10. QED
  BY <1>9

LEMMA StepDeletes ==
  ASSUME OwnInv, NEW r \in Requests, DelAccount(r)
  PROVE  \E e \in Emails : Promise!Delete(e)
<1>a. TypeInv
  BY DEF OwnInv, SafeInv
<1>1. /\ pc[r] = "delAccount" /\ accounts' = [accounts EXCEPT ![req[r].email] = NoAccount]
      /\ UNCHANGED <<stores, gone, owner, clock, exposed>>
  BY DEF DelAccount, history
<1>2. PICK e \in Emails : e = req[r].email
  BY <1>1, OwnFacts
<1>3. stores[e] = NoStore
  BY <1>1, <1>2 DEF OwnInv, SafeInv, Own, Emptied, Emailed
<1>4. TokenSets' = [TokenSets EXCEPT ![e] = {NoAccount}]
  <2>1. \A f \in Emails : accounts'[f] = IF f = e THEN NoAccount ELSE accounts[f]
    BY <1>a, <1>1, <1>2 DEF TypeInv, TypeOK, StorageOK
  <2>2. QED
    BY <2>1 DEF TokenSets
<1>5. EndedTokens' = EndedTokens
  BY <1>1 DEF EndedTokens
<1>6. Promise!Delete(e)
  BY <1>1, <1>3, <1>4, <1>5 DEF Promise!Delete, Promise!Lists
<1>7. QED
  BY <1>6

(* An account for which nothing more is promised is written.                *)
LEMMA StepRaces ==
  ASSUME OwnInv, NEW e \in Emails, exposed[e], NEW z \in Seq(Token), UniqueDevices(z),
         accounts' = [accounts EXCEPT ![e] = z], accounts[e] # NoAccount \/ Elements(z) # {},
         NEW G, gone' = gone \cup G, \A i \in G : owner[i] = e,
         UNCHANGED <<stores, owner, clock, exposed>>
  PROVE  Promise!Race(e)
<1>a. TypeInv
  BY DEF OwnInv, SafeInv
<1>1. /\ TokenSets' = [TokenSets EXCEPT ![e] = Elements(z)]
      /\ TokenSets'[e] = Elements(z) /\ Elements(z) # {NoAccount}
  BY <1>a, Viewed
<1>2. /\ EndedTokens' = [EndedTokens EXCEPT ![e] = EndedTokens[e] \cup G]
      /\ EndedTokens'[e] = EndedTokens[e] \cup G
  BY EndedBy DEF EndedTokens
<1>3. Promise!OnePerDevice(Elements(z))
  BY DEF UniqueDevices, Elements, Promise!OnePerDevice, Promise!Replaces
<1>4. Promise!Exists(e) \/ Elements(z) # {}
  BY <1>a, View
<1>b. Elements(z) \subseteq Promise!Token
  BY TypedElements
     DEF Token, Promise!Token, Types, Promise!Types, Devices, Promise!Devices
<1>5. Promise!Lists(e, TokenSets'[e]) /\ Promise!Ends(e, EndedTokens'[e])
  BY <1>1, <1>2 DEF Promise!Lists, Promise!Ends
<1>6. QED
  BY <1>1, <1>2, <1>3, <1>4, <1>5, <1>b DEF Promise!Race

(* Authenticate saves what it has made of the account as it still is.       *)
LEMMA StepAuthenticates ==
  ASSUME KeptInv, DeviceInv, NEW r \in Requests, AuthPut(r)
  PROVE  \E e \in Emails : Promise!Authenticate(e) \/ Promise!Race(e)
<1>a. OwnInv /\ TypeInv /\ CopiesUnique
  BY DEF KeptInv, OwnInv, SafeInv, DeviceInv
<1>1. /\ pc[r] = "authPut" /\ accounts' = [accounts EXCEPT ![req[r].email] = acc[r]]
      /\ UNCHANGED <<stores, gone, owner, clock, exposed>>
  BY DEF AuthPut, history
<1>2. PICK e \in Emails : e = req[r].email
  BY <1>a, <1>1, OwnFacts
<1>3. PICK z \in Seq(Token) : z = acc[r]
  BY <1>a, OwnFacts
<1>4. accounts[e] # NoAccount
  BY <1>a, <1>1, <1>2 DEF OwnInv, SafeInv, Own, Present, Emailed
<1>5. CASE exposed[e]
  <2>1. Promise!Race(e)
    <3>1. UniqueDevices(z)
      BY <1>a, <1>3 DEF CopiesUnique
    <3>2. PICK G : G = {}
      OBVIOUS
    <3>3. /\ gone' = gone \cup G /\ \A i \in G : owner[i] = e
          /\ accounts' = [accounts EXCEPT ![e] = z]
      BY <1>1, <1>2, <1>3, <3>2
    <3>4. QED
      BY <1>a, <1>1, <1>4, <1>5, <3>1, <3>3, StepRaces
  <2>2. QED
    BY <2>1
<1>6. CASE ~exposed[e]
  <2>1. PICK at \in 0 .. clock : Elements(z) \in Promise!Authenticated(Tokens(e), at)
    BY <1>1, <1>2, <1>3, <1>6 DEF KeptInv, Kept, InAuth
  <2>2. TokenSets[e] = Tokens(e) /\ Promise!Exists(e)
    BY <1>a, <1>4, View
  <2>3. Promise!Lists(e, Elements(z))
    BY <1>a, <1>1, <1>2, <1>3, Viewed DEF Promise!Lists
  <2>4. EndedTokens' = EndedTokens
    BY <1>1 DEF EndedTokens
  <2>5. Promise!Authenticate(e)
    BY <1>1, <2>1, <2>2, <2>3, <2>4 DEF Promise!Authenticate
  <2>6. QED
    BY <2>5
<1>7. QED
  BY <1>5, <1>6

(* An activation adds its token to the account as it still is.              *)
LEMMA StepActivates ==
  ASSUME KeptInv, DeviceInv', NEW r \in Requests, ActPut(r)
  PROVE  \E e \in Emails : Promise!Activate(e) \/ Promise!Race(e)
<1>a. OwnInv /\ TypeInv /\ OneTokenPerDevice'
  BY DEF KeptInv, OwnInv, SafeInv, DeviceInv
<1> DEFINE n == ar[r].token
<1>1. /\ pc[r] = "actPut" /\ Matching(acc[r], SameDevice(r)) = {}
      /\ accounts' = [accounts EXCEPT ![ar[r].email] = AddAuthToken(acc[r], n)]
      /\ UNCHANGED <<stores, gone, owner, clock, exposed>>
  BY DEF ActPut, history
<1>2. n \in Token /\ acc[r] \in Seq(Token) /\ ar[r].email \in Emails /\ owner[n.id] = ar[r].email
  BY <1>a, <1>1, OwnFacts
<1>3. PICK e \in Emails : e = ar[r].email
  BY <1>2
<1>4. PICK z \in Seq(Token) : z = AddAuthToken(acc[r], n)
  BY <1>2, AddedElements
<1>5. Elements(z) = Elements(acc[r]) \cup {n} /\ accounts' = [accounts EXCEPT ![e] = z]
  BY <1>1, <1>2, <1>3, <1>4, AddedElements
<1>6. CASE exposed[e]
  <2>1. UniqueDevices(z)
    <3>1. accounts'[e] = z /\ z # NoAccount
      BY <1>a, <1>5 DEF TypeInv, TypeOK, StorageOK
    <3>2. QED
      BY <1>a, <3>1 DEF OneTokenPerDevice
  <2>2. PICK G : G = {}
    OBVIOUS
  <2>3. gone' = gone \cup G /\ (\A i \in G : owner[i] = e) /\ Elements(z) # {}
    BY <1>1, <1>5, <2>2
  <2>4. Promise!Race(e)
    BY <1>a, <1>1, <1>5, <1>6, <2>1, <2>3, StepRaces
  <2>5. QED
    BY <2>4
<1>7. CASE ~exposed[e]
  <2>1. req[r].email = e
    BY <1>1, <1>3, <1>7 DEF KeptInv, Aside
  <2>2. InAct(r, e)
    BY <1>7, <2>1 DEF KeptInv, Kept
  <2>3. /\ n.id \notin Spent(e) /\ Elements(acc[r]) \subseteq Tokens(e)
        /\ \A t \in Tokens(e) : t \in Elements(acc[r]) \/ Promise!Replaces(n, t)
    BY <1>1, <1>3, <2>2 DEF InAct
  <2>4. \A t \in Elements(acc[r]) : ~Promise!Replaces(n, t)
    BY <1>1 DEF Elements, Matching, SameDevice, Query, Matches, Promise!Replaces
  <2>5. Elements(z) = {t \in Tokens(e) : ~Promise!Replaces(n, t)} \cup {n}
    BY <1>5, <2>3, <2>4
  <2>6. /\ TokenSets' = [TokenSets EXCEPT ![e] = Elements(z)]
        /\ TokenSets'[e] = Elements(z) /\ Elements(z) # {NoAccount}
        /\ Promise!Current(e) = Tokens(e)
    BY <1>a, <1>5, Viewed, View
  <2>7. n.id \notin Promise!Names(Tokens(e)) \cup EndedTokens[e]
    BY <2>3 DEF Spent, Listed, Promise!Names, EndedTokens
  <2>8. EndedTokens' = EndedTokens
    BY <1>1 DEF EndedTokens
  <2>9. Promise!Activate(e)
    <3>1. n \in TokenSets'[e] /\ n \in Promise!Token
      BY <1>2, <1>5, <2>6
         DEF Token, Promise!Token, Types, Promise!Types, Devices, Promise!Devices
    <3> HIDE DEF n
    <3>2. Promise!Lists(e, {t \in Promise!Current(e) : ~Promise!Replaces(n, t)} \cup {n})
      BY <2>5, <2>6 DEF Promise!Lists
    <3>3. QED
      BY <1>1, <2>6, <2>7, <2>8, <3>1, <3>2 DEF Promise!Activate
  <2>10. QED
    BY <2>9
<1>8. QED
  BY <1>6, <1>7

(* What Logout and Revoke have in common.                                   *)
LEMMA Ending ==
  ASSUME OwnInv, NEW r \in Requests, Logout(r) \/ \E i \in Ids : Revoke(r, i)
  PROVE  /\ req[r].email \in Emails /\ accounts[req[r].email] # NoAccount
         /\ acc[r] \in Seq(Token) /\ \A i \in IdsOf(acc[r]) : owner[i] = req[r].email
         /\ UNCHANGED <<stores, owner, clock, exposed>>
<1>1. pc[r] = "handle" /\ auth[r] # NoAuth /\ req[r].email \in Emails
  BY LogoutEnds, RevokeEnds DEF Logout, Revoke, Handling
<1>2. accounts[req[r].email] # NoAccount
  BY <1>1 DEF OwnInv, SafeInv, Own, Present, Authenticated, Emailed
<1>3. acc[r] \in Seq(Token) /\ \A i \in IdsOf(acc[r]) : owner[i] = req[r].email
  BY <1>1, OwnFacts DEF CopyOf
<1>4. QED
  BY <1>1, <1>2, <1>3 DEF Logout, Revoke

(* Logout takes one token from the account as it still is, if it finds it.  *)
LEMMA StepLogsOut ==
  ASSUME KeptInv, DeviceInv', [Next]_vars, NEW r \in Requests, Logout(r)
  PROVE  \/ Promise!Share
         \/ \E e \in Emails : Promise!Race(e) \/ \E t \in Promise!Current(e) : Promise!Logout(e, t)
<1>a. OwnInv /\ TypeInv /\ OneTokenPerDevice'
  BY DEF KeptInv, OwnInv, SafeInv, DeviceInv
<1>1. /\ req[r].email \in Emails /\ accounts[req[r].email] # NoAccount
      /\ acc[r] \in Seq(Token) /\ \A i \in IdsOf(acc[r]) : owner[i] = req[r].email
      /\ UNCHANGED <<stores, owner, clock, exposed>>
  BY <1>a, Ending
<1>2. PICK e \in Emails : e = req[r].email
  BY <1>1
<1>3. /\ accounts' = [accounts EXCEPT ![e] = RemoveAuthToken(acc[r], auth[r])]
      /\ gone' = IF Matching(acc[r], auth[r]) = {} THEN gone ELSE gone \cup {auth[r].id}
  BY <1>2 DEF Logout
<1>4. PICK z \in Seq(Token) : z = RemoveAuthToken(acc[r], auth[r])
  BY <1>1, RemovedElements
<1>5. accounts' = [accounts EXCEPT ![e] = z]
  BY <1>3, <1>4
<1>6. /\ auth[r].id # NoId
      /\ Matching(acc[r], auth[r]) # {} => auth[r].id \in IdsOf(acc[r])
  BY <1>a, LogoutEnds
<1>7. CASE exposed[e]
  <2>1. UniqueDevices(z)
    <3>1. accounts'[e] = z /\ z # NoAccount
      BY <1>a, <1>5 DEF TypeInv, TypeOK, StorageOK
    <3>2. QED
      BY <1>a, <3>1 DEF OneTokenPerDevice
  <2>2. PICK G : G = IF Matching(acc[r], auth[r]) = {} THEN {} ELSE {auth[r].id}
    OBVIOUS
  <2>3. gone' = gone \cup G /\ \A i \in G : owner[i] = e
    BY <1>1, <1>2, <1>3, <1>6, <2>2
  <2>4. Promise!Race(e)
    BY <1>a, <1>1, <1>2, <1>5, <1>7, <2>1, <2>3, StepRaces
  <2>5. QED
    BY <2>4
<1>8. CASE ~exposed[e] /\ Matching(acc[r], auth[r]) = {}
  <2>1. acc[r] = accounts[e]
    <3>1. pc[r] = "handle" /\ auth[r] # NoAuth
      BY <1>a, LogoutEnds DEF Logout, Handling
    <3>2. QED
      BY <1>a, <1>2, <1>8, <3>1 DEF OwnInv, SafeInv, Own, Copied, Authenticated, Emailed
  <2>2. accounts' = accounts /\ gone' = gone
    BY <1>a, <1>3, <1>8, <2>1 DEF RemoveAuthToken, TypeInv, TypeOK, StorageOK
  <2>3. Promise!Share
    BY <1>a, <1>1, <2>2, StepShares
  <2>4. QED
    BY <2>3
<1>9. CASE ~exposed[e] /\ Matching(acc[r], auth[r]) # {}
  <2>1. Distinct(acc[r]) /\ Tokens(e) = Elements(acc[r])
    BY <1>2, <1>9, Handed
  <2>2. PICK t \in Tokens(e) : t.id = auth[r].id
    BY <1>6, <1>9, <2>1 DEF IdsOf
  <2>3. /\ Elements(z) \subseteq Elements(acc[r])
        /\ \A u \in Elements(acc[r]) : u \in Elements(z) \/ Matches(auth[r], u)
        /\ \A u \in Elements(z) : u.id # auth[r].id
    BY <1>1, <1>4, <1>6, <1>9, <2>1, RemovedElements
  <2>4. \A u \in Elements(acc[r]) : u.id = t.id => u = t
    BY <2>1, <2>2 DEF Distinct, Elements
  <2>5. Elements(z) = Tokens(e) \ {t}
    BY <1>6, <2>1, <2>2, <2>3, <2>4 DEF Matches
  <2>6. TokenSets[e] = Tokens(e) /\ t \in Promise!Current(e)
    BY <1>a, <1>1, <1>2, View
  <2>7. TokenSets' = [TokenSets EXCEPT ![e] = TokenSets[e] \ {t}]
    BY <1>a, <1>5, <2>5, <2>6, Viewed
  <2>8. PICK G : G = {t.id}
    OBVIOUS
  <2>9. gone' = gone \cup G /\ \A i \in G : owner[i] = e
    BY <1>1, <1>2, <1>3, <1>6, <1>9, <2>2, <2>8
  <2>10. EndedTokens' = [EndedTokens EXCEPT ![e] = EndedTokens[e] \cup {t.id}]
    BY <1>a, <1>1, <2>8, <2>9, EndedBy
  <2>11. Promise!Logout(e, t)
    BY <1>1, <2>7, <2>10 DEF Promise!Logout, Promise!Lists, Promise!Ends
  <2>12. QED
    BY <2>6, <2>11
<1>10. QED
  BY <1>7, <1>8, <1>9

(* Revoke expires one token of the account as it still is.                  *)
LEMMA StepRevokes ==
  ASSUME KeptInv, DeviceInv', NEW r \in Requests, NEW i \in Ids, Revoke(r, i)
  PROVE  \E e \in Emails : Promise!Race(e) \/ \E t \in Promise!Current(e) : Promise!Revoke(e, t)
<1>a. OwnInv /\ TypeInv /\ OneTokenPerDevice'
  BY DEF KeptInv, OwnInv, SafeInv, DeviceInv
<1>1. /\ req[r].email \in Emails /\ accounts[req[r].email] # NoAccount
      /\ acc[r] \in Seq(Token) /\ \A j \in IdsOf(acc[r]) : owner[j] = req[r].email
      /\ UNCHANGED <<stores, owner, clock, exposed>>
  BY <1>a, Ending
<1>2. PICK e \in Emails : e = req[r].email
  BY <1>1
<1>3. PICK z \in Seq(Token) : z = Revoked(r, i)
  BY <1>a, RevokeEnds
<1>4. /\ i \in IdsOf(acc[r]) /\ accounts' = [accounts EXCEPT ![e] = z]
      /\ DOMAIN z = DOMAIN acc[r]
  BY <1>a, <1>2, <1>3, RevokeEnds
<1>5. PICK k \in DOMAIN acc[r] :
        /\ acc[r][k].id = i /\ z[k] = [acc[r][k] EXCEPT !.expires = clock - 1]
        /\ \A j \in DOMAIN acc[r] : j # k => z[j] = acc[r][j]
  BY <1>a, <1>3, RevokeEnds
<1>6. PICK G : G = {i}
  OBVIOUS
<1>7. gone' = gone \cup G /\ \A j \in G : owner[j] = e
  BY <1>1, <1>2, <1>4, <1>6 DEF Revoke
<1>8. CASE exposed[e]
  <2>1. UniqueDevices(z)
    <3>1. accounts'[e] = z /\ z # NoAccount
      BY <1>a, <1>4 DEF TypeInv, TypeOK, StorageOK
    <3>2. QED
      BY <1>a, <3>1 DEF OneTokenPerDevice
  <2>2. Promise!Race(e)
    BY <1>a, <1>1, <1>2, <1>4, <1>7, <1>8, <2>1, StepRaces
  <2>3. QED
    BY <2>2
<1>9. CASE ~exposed[e]
  <2>1. Distinct(acc[r]) /\ Tokens(e) = Elements(acc[r])
    BY <1>2, <1>9, Handed
  <2>2. PICK t \in Tokens(e) : t = acc[r][k]
    BY <2>1 DEF Elements
  <2>3. Elements(z) = (Tokens(e) \ {t}) \cup {[t EXCEPT !.expires = clock - 1]}
    <3>1. \A j \in DOMAIN acc[r] : j # k => acc[r][j] # t
      BY <2>1, <2>2 DEF Distinct
    <3>2. QED
      BY <1>4, <1>5, <2>1, <2>2, <3>1 DEF Elements
  <2>4. TokenSets[e] = Tokens(e) /\ t \in Promise!Current(e)
    BY <1>a, <1>1, <1>2, View
  <2>5. TokenSets' = [TokenSets EXCEPT
                         ![e] = (TokenSets[e] \ {t}) \cup {[t EXCEPT !.expires = clock - 1]}]
    BY <1>a, <1>4, <2>3, <2>4, Viewed
  <2>6. EndedTokens' = [EndedTokens EXCEPT ![e] = EndedTokens[e] \cup {t.id}]
    BY <1>a, <1>1, <1>5, <1>6, <1>7, <2>2, EndedBy
  <2>7. Promise!Revoke(e, t)
    BY <1>1, <2>5, <2>6 DEF Promise!Revoke, Promise!Lists, Promise!Ends
  <2>8. QED
    BY <2>4, <2>7
<1>10. QED
  BY <1>8, <1>9

LEMMA StepKeepsPromise ==
  ASSUME KeptInv, DeviceInv, DeviceInv', [Next]_vars
  PROVE  [Promise!AccountsNext]_(Promise!accountVars)
<1>a. OwnInv /\ SafeInv
  BY DEF KeptInv, OwnInv
<1>1. ASSUME NEW r \in Requests, AuthPut(r) PROVE Promise!AccountsNext
  BY <1>1, StepAuthenticates DEF Promise!AccountsNext
<1>2. ASSUME NEW r \in Requests, ActPut(r) PROVE Promise!AccountsNext
  BY <1>2, StepActivates DEF Promise!AccountsNext
<1>3. ASSUME NEW r \in Requests, Logout(r) PROVE Promise!AccountsNext
  BY <1>3, StepLogsOut DEF Promise!AccountsNext
<1>4. ASSUME NEW r \in Requests, NEW i \in Ids, Revoke(r, i) PROVE Promise!AccountsNext
  BY <1>4, StepRevokes DEF Promise!AccountsNext
<1>5. ASSUME NEW r \in Requests,
             \/ \E c \in Contents : WriteStore(r, c)
             \/ DeleteStore(r) \/ DeleteAccount(r)
      PROVE  Promise!AccountsNext
  BY <1>5, <1>a, StepWrites DEF Promise!AccountsNext
<1>6. ASSUME NEW r \in Requests, DelAccount(r) PROVE Promise!AccountsNext
  BY <1>6, <1>a, StepDeletes DEF Promise!AccountsNext
<1>7. ASSUME Tick PROVE Promise!AccountsNext
  <2>1. UNCHANGED <<stores, accounts, gone, owner, exposed>> /\ clock' = clock + 1
    BY <1>7 DEF Tick, storage, history
  <2>2. TokenSets' = TokenSets /\ EndedTokens' = EndedTokens
    BY <2>1 DEF TokenSets, EndedTokens
  <2>3. Promise!Pass
    BY <2>1, <2>2 DEF Promise!Pass
  <2>4. QED
    BY <2>3 DEF Promise!AccountsNext
<1>8. ASSUME NEW r \in Requests, Acting(r), ~AuthPut(r), ~ActPut(r), ~DelAccount(r),
             ~Logout(r), ~(\E i \in Ids : Revoke(r, i)),
             ~(\E c \in Contents : WriteStore(r, c)), ~DeleteStore(r), ~DeleteAccount(r)
      PROVE  Promise!AccountsNext
  <2>1. UNCHANGED <<accounts, stores, gone, clock>>
    BY <1>8 DEF Acting, Authenticating, Requesting, Activating, Using, AuthRefused,
       AuthSkeleton, AuthAccepted, Reject, RequestAuthToken, ReqStore, ReqPut, ReqMail,
       ReqDenied, ActivateAuthToken, ActGet, ActRemove, ActDelete, ActLogin, Read,
       AuthFail, Fail, storage, history
  <2>2. \A e \in Emails : exposed[e] => exposed'[e]
    BY <1>8, <1>a, ActingSafe DEF Frame
  <2>3. Promise!Share
    BY <1>a, <2>1, <2>2, StepShares
  <2>4. QED
    BY <2>3 DEF Promise!AccountsNext
<1>9. ASSUME \/ \E r \in Requests : Arriving(r) \/ LockAccount(r) \/ UnlockAccount(r)
             \/ Crash \/ CleanStart \/ UNCHANGED vars
             \/ \E a \in sweep : CleanNext(a)
      PROVE  Promise!AccountsNext
  <2>1. UNCHANGED <<accounts, stores, gone, clock>>
    BY <1>9 DEF Arriving, Arrive, LockAccount, UnlockAccount, Crash, CleanStart, CleanNext,
                vars, storage, history
  <2>2. \A e \in Emails : exposed[e] => exposed'[e]
    BY <1>9, <1>a DEF Arriving, Arrive, LockAccount, UnlockAccount, Crash, CleanStart,
                CleanNext, vars, history, SafeInv, TypeInv, TypeOK, HistoryOK
  <2>3. Promise!Share
    BY <1>a, <2>1, <2>2, StepShares
  <2>4. QED
    BY <2>3 DEF Promise!AccountsNext
<1>10. QED
  BY <1>1, <1>2, <1>3, <1>4, <1>5, <1>6, <1>7, <1>8, <1>9 DEF Next, Serve, Acting

(* server.go:181-230, handler.go:210-250: every request changes an account  *)
(* as if it ran alone, on the account as it is at that moment, for any      *)
(* number of requests, accounts and tokens, through crashes and failures,   *)
(* until an activation goes past the lock or is cut off halfway.            *)
THEOREM ServiceKeepsPromise == Spec => KeepsPromise
<1>1. Init => Promise!AccountsInit
  BY NoAccountSet, ServiceAssumption
     DEF Init, StartTime, TokenSets, EndedTokens, Promise!AccountsInit
<1>2. Init /\ [][Next]_vars => []DeviceInv
  BY InitDeviceInv, NextDeviceInv, PTL
<1>3. KeptInv /\ DeviceInv /\ DeviceInv' /\ [Next]_vars
        => [Promise!AccountsNext]_(Promise!accountVars)
  BY StepKeepsPromise
<1>4. QED
  BY <1>1, <1>2, <1>3, AlwaysKept, PTL DEF Spec, KeepsPromise, Promise!AccountsSpec

-----------------------------------------------------------------------------
(* What the promise is worth: it is enough for what the service was written *)
(* to keep, with nothing said of requests, locks and copies.                *)

PromiseTyped ==
    /\ clock \in Nat /\ clock > 1
    /\ TokenSets = [e \in Emails |-> TokenSets[e]]
    /\ EndedTokens = [e \in Emails |-> EndedTokens[e]]
    /\ \A e \in Emails : TokenSets[e] # {NoAccount} => TokenSets[e] \subseteq Promise!Token
    /\ stores = [e \in Emails |-> stores[e]]

PromiseInv == PromiseTyped /\ Promise!AccountsSafe

(* The parts that speak of the tokens of an account.                        *)
OneByName(S) == \A t, u \in S : t.id = u.id => t = u
AreEnded(S, D, at) == \A t \in S : t.id \in D => Promise!Expired(t, at)

(* The tokens of an account are used, revoked, or joined by one.            *)
LEMMA ChangedSafe ==
  ASSUME NEW S \in SUBSET Promise!Token, NEW t \in S,
         NEW u \in Promise!Token, u.id = t.id, u.type = t.type,
         u.device = t.device \/ u.device \notin UUIDs
  PROVE  LET R == (S \ {t}) \cup {u} IN
         /\ R \subseteq Promise!Token
         /\ Promise!OnePerDevice(S) => Promise!OnePerDevice(R)
         /\ OneByName(S) => OneByName(R)
BY DEF Promise!OnePerDevice, Promise!Replaces, OneByName

LEMMA UsedSafe ==
  ASSUME NEW S \in SUBSET Promise!Token, NEW at \in Nat, NEW D, NEW now,
         NEW R \in Promise!Authenticated(S, at)
  PROVE  /\ R \subseteq Promise!Token
         /\ Promise!OnePerDevice(S) => Promise!OnePerDevice(R)
         /\ OneByName(S) => OneByName(R)
         /\ AreEnded(S, D, now) => AreEnded(R, D, now)
<1> DEFINE L == Promise!Lasting(S, at)
<1>1. L \subseteq S
  BY DEF Promise!Lasting
<1>2. /\ L \subseteq Promise!Token
      /\ Promise!OnePerDevice(S) => Promise!OnePerDevice(L)
      /\ OneByName(S) => OneByName(L)
      /\ AreEnded(S, D, now) => AreEnded(L, D, now)
  BY <1>1 DEF Promise!OnePerDevice, OneByName, AreEnded
<1> HIDE DEF L
<1>3. CASE R = L
  BY <1>2, <1>3
<1>4. ASSUME NEW t \in L, NEW d \in Promise!SetDevice(t.device),
             R = (L \ {t}) \cup {[t EXCEPT !.lastUsed = at, !.device = d]}
      PROVE  /\ R \subseteq Promise!Token
             /\ Promise!OnePerDevice(S) => Promise!OnePerDevice(R)
             /\ OneByName(S) => OneByName(R)
             /\ AreEnded(S, D, now) => AreEnded(R, D, now)
  <2>1. PICK u : u = [t EXCEPT !.lastUsed = at, !.device = d]
    OBVIOUS
  <2>2. t \in Promise!Token
    BY <1>2
  <2>3. d = t.device \/ d = NoUUID
    BY <1>4 DEF Promise!SetDevice
  <2>4. /\ u \in Promise!Token /\ u.id = t.id /\ u.type = t.type /\ u.expires = t.expires
        /\ u.device = d
    BY <2>1, <2>2, <2>3 DEF Promise!Token, Promise!Devices
  <2>5. /\ R \subseteq Promise!Token
        /\ Promise!OnePerDevice(L) => Promise!OnePerDevice(R)
        /\ OneByName(L) => OneByName(R)
    BY <1>2, <1>4, <2>1, <2>3, <2>4, ChangedSafe, NamesAssumption
  <2>6. AreEnded(L, D, now) => AreEnded(R, D, now)
    BY <1>4, <2>1, <2>4 DEF AreEnded, Promise!Expired
  <2>7. QED
    BY <1>2, <2>5, <2>6
<1> DEFINE With(t) == {(L \ {t}) \cup {[t EXCEPT !.lastUsed = at, !.device = d]}
                         : d \in Promise!SetDevice(t.device)}
<1>5. R = L \/ R \in UNION {With(t) : t \in {u \in L : ~Promise!Expired(u, at)}}
  BY Zenon DEF Promise!Authenticated, L
<1> HIDE DEF With
<1>6. R = L \/ \E t \in L : R \in With(t)
  BY <1>5
<1>7. QED
  BY <1>3, <1>4, <1>6 DEF With

(* An account that is listed anew, and every other left as it was.          *)
LEMMA ListedSafe ==
  ASSUME PromiseInv, NEW e \in Emails, NEW S, Promise!Lists(e, S),
         UNCHANGED <<clock, stores, exposed>>,
         NEW D, Promise!Ends(e, D),
         S # {NoAccount} => S \subseteq Promise!Token /\ Promise!OnePerDevice(S),
         S = {NoAccount} => stores[e] = NoStore,
         S # {NoAccount} /\ ~exposed[e] => OneByName(S) /\ AreEnded(S, D, clock)
  PROVE  PromiseInv'
<1>1. /\ TokenSets' = [TokenSets EXCEPT ![e] = S] /\ DOMAIN TokenSets' = Emails
      /\ TokenSets'[e] = S /\ \A f \in Emails \ {e} : TokenSets'[f] = TokenSets[f]
  BY DEF Promise!Lists, PromiseInv, PromiseTyped
<1>2. /\ EndedTokens' = [EndedTokens EXCEPT ![e] = D] /\ DOMAIN EndedTokens' = Emails
      /\ EndedTokens'[e] = D /\ \A f \in Emails \ {e} : EndedTokens'[f] = EndedTokens[f]
  BY DEF Promise!Ends, PromiseInv, PromiseTyped
<1>3. PromiseTyped'
  BY <1>1, <1>2 DEF PromiseInv, PromiseTyped
<1>4. ASSUME NEW f \in Emails \ {e} PROVE Promise!AccountSafe(f)'
  <2>1. Promise!AccountSafe(f)
    BY DEF PromiseInv, Promise!AccountsSafe
  <2>2. QED
    BY <1>1, <1>2, <2>1 DEF Promise!AccountSafe, Promise!Exists
<1>5. Promise!AccountSafe(e)'
  BY <1>1, <1>2 DEF Promise!AccountSafe, Promise!Exists, OneByName, AreEnded
<1>6. QED
  BY <1>3, <1>4, <1>5 DEF PromiseInv, Promise!AccountsSafe

LEMMA PromiseAt ==
  ASSUME PromiseInv, NEW e \in Emails
  PROVE  /\ clock \in Nat /\ clock > 1
         /\ Promise!Exists(e) <=> TokenSets[e] # {NoAccount}
         /\ Promise!Exists(e) =>
              TokenSets[e] \subseteq Promise!Token /\ Promise!OnePerDevice(TokenSets[e])
         /\ stores[e] # NoStore => Promise!Exists(e)
         /\ Promise!Exists(e) /\ ~exposed[e] =>
              OneByName(TokenSets[e]) /\ AreEnded(TokenSets[e], EndedTokens[e], clock)
BY DEF PromiseInv, PromiseTyped, Promise!AccountsSafe, Promise!AccountSafe,
       Promise!Exists, OneByName, AreEnded

(* An account whose ended tokens stay the same.                             *)
LEMMA EndedStays ==
  ASSUME PromiseInv, NEW e \in Emails, EndedTokens' = EndedTokens
  PROVE  Promise!Ends(e, EndedTokens[e])
BY DEF PromiseInv, PromiseTyped, Promise!Ends

LEMMA StepSafe ==
  ASSUME PromiseInv, [Promise!AccountsNext]_(Promise!accountVars)
  PROVE  PromiseInv'
<1>1. ASSUME NEW e \in Emails, Promise!Authenticate(e) PROVE PromiseInv'
  <2>a. PICK at \in 0 .. clock :
          \E S \in Promise!Authenticated(TokenSets[e], at) : Promise!Lists(e, S)
    BY <1>1 DEF Promise!Authenticate
  <2>1. PICK S \in Promise!Authenticated(TokenSets[e], at) : Promise!Lists(e, S)
    BY <2>a
  <2>2. /\ TokenSets[e] # {NoAccount} /\ TokenSets[e] \subseteq Promise!Token
        /\ Promise!OnePerDevice(TokenSets[e]) /\ at \in Nat
        /\ ~exposed[e] =>
             OneByName(TokenSets[e]) /\ AreEnded(TokenSets[e], EndedTokens[e], clock)
    BY <1>1, PromiseAt DEF Promise!Authenticate
  <2>3. /\ S \subseteq Promise!Token /\ Promise!OnePerDevice(S)
        /\ ~exposed[e] => OneByName(S) /\ AreEnded(S, EndedTokens[e], clock)
    BY <2>2, UsedSafe
  <2>4. S # {NoAccount}
    BY <2>3, NoAccountSet
       DEF Token, Promise!Token, Types, Promise!Types, Devices, Promise!Devices
  <2>5. Promise!Ends(e, EndedTokens[e]) /\ UNCHANGED <<clock, stores, exposed>>
    BY <1>1, EndedStays DEF Promise!Authenticate
  <2>6. QED
    BY <2>1, <2>3, <2>4, <2>5, ListedSafe
<1>2. ASSUME NEW e \in Emails, Promise!Activate(e) PROVE PromiseInv'
  <2> DEFINE C == Promise!Current(e)
  <2>1. PICK t \in Promise!Token :
          /\ t.id \notin Promise!Names(C) \cup EndedTokens[e]
          /\ Promise!Lists(e, {u \in C : ~Promise!Replaces(t, u)} \cup {t})
    BY <1>2 DEF Promise!Activate
  <2>2. /\ C \subseteq Promise!Token /\ Promise!OnePerDevice(C)
        /\ ~exposed[e] => OneByName(C) /\ AreEnded(C, EndedTokens[e], clock)
    BY PromiseAt DEF Promise!Current, Promise!OnePerDevice, OneByName, AreEnded
  <2>3. PICK S : S = {u \in C : ~Promise!Replaces(t, u)} \cup {t}
    OBVIOUS
  <2>4. t.id \notin EndedTokens[e] /\ \A u \in C : u.id # t.id
    BY <2>1 DEF Promise!Names
  <2> HIDE DEF C
  <2>5. S \subseteq Promise!Token /\ Promise!OnePerDevice(S)
    BY <2>2, <2>3 DEF Promise!OnePerDevice, Promise!Replaces
  <2>6. ~exposed[e] => OneByName(S) /\ AreEnded(S, EndedTokens[e], clock)
    BY <2>2, <2>3, <2>4 DEF OneByName, AreEnded
  <2>7. S # {NoAccount}
    BY <2>5, NoAccountSet
       DEF Token, Promise!Token, Types, Promise!Types, Devices, Promise!Devices
  <2>8. Promise!Ends(e, EndedTokens[e]) /\ UNCHANGED <<clock, stores, exposed>>
    BY <1>2, EndedStays DEF Promise!Activate
  <2>9. QED
    BY <2>1, <2>3, <2>5, <2>6, <2>7, <2>8, ListedSafe
<1>3. ASSUME NEW e \in Emails, Promise!Delete(e) PROVE PromiseInv'
  <2>1. /\ Promise!Lists(e, {NoAccount}) /\ stores[e] = NoStore
        /\ Promise!Ends(e, EndedTokens[e]) /\ UNCHANGED <<clock, stores, exposed>>
    BY <1>3, EndedStays DEF Promise!Delete
  <2>2. QED
    BY <2>1, ListedSafe
<1>4. ASSUME NEW e \in Emails, Promise!Race(e) PROVE PromiseInv'
  <2>1. PICK S, D : S = TokenSets'[e] /\ D = EndedTokens'[e]
    OBVIOUS
  <2>2. /\ Promise!Lists(e, S) /\ S # {NoAccount} /\ S \subseteq Promise!Token
        /\ Promise!OnePerDevice(S) /\ exposed[e] /\ Promise!Ends(e, D)
        /\ UNCHANGED <<clock, stores, exposed>>
    BY <1>4, <2>1 DEF Promise!Race
  <2>3. QED
    BY <2>2, ListedSafe
<1>5. ASSUME NEW e \in Emails, NEW t \in Promise!Current(e), Promise!Logout(e, t)
      PROVE  PromiseInv'
  <2> DEFINE C == TokenSets[e]
             D == EndedTokens[e] \cup {t.id}
             S == C \ {t}
  <2>1. t \in C /\ Promise!Exists(e)
    BY <1>5 DEF Promise!Current
  <2>2. /\ C \subseteq Promise!Token /\ Promise!OnePerDevice(C)
        /\ ~exposed[e] => OneByName(C) /\ AreEnded(C, EndedTokens[e], clock)
    BY <2>1, PromiseAt
  <2>3. Promise!Lists(e, S) /\ Promise!Ends(e, D) /\ UNCHANGED <<clock, stores, exposed>>
    BY <1>5 DEF Promise!Logout
  <2> HIDE DEF C
  <2>4. S \subseteq Promise!Token /\ Promise!OnePerDevice(S)
    BY <2>2 DEF Promise!OnePerDevice
  <2>5. ~exposed[e] => OneByName(S) /\ AreEnded(S, D, clock)
    BY <2>1, <2>2 DEF OneByName, AreEnded
  <2>6. S # {NoAccount}
    BY <2>4, NoAccountSet
       DEF Token, Promise!Token, Types, Promise!Types, Devices, Promise!Devices
  <2> HIDE DEF S, D
  <2>7. QED
    BY <2>3, <2>4, <2>5, <2>6, ListedSafe
<1>6. ASSUME NEW e \in Emails, NEW t \in Promise!Current(e), Promise!Revoke(e, t)
      PROVE  PromiseInv'
  <2> DEFINE C == TokenSets[e]
             D == EndedTokens[e] \cup {t.id}
             u == [t EXCEPT !.expires = clock - 1]
             S == (C \ {t}) \cup {u}
  <2>1. t \in C /\ Promise!Exists(e)
    BY <1>6 DEF Promise!Current
  <2>2. /\ C \subseteq Promise!Token /\ Promise!OnePerDevice(C)
        /\ ~exposed[e] => OneByName(C) /\ AreEnded(C, EndedTokens[e], clock)
        /\ clock \in Nat /\ clock > 1
    BY <2>1, PromiseAt
  <2>3. Promise!Lists(e, S) /\ Promise!Ends(e, D) /\ UNCHANGED <<clock, stores, exposed>>
    BY <1>6 DEF Promise!Revoke
  <2> HIDE DEF C
  <2>4. t \in Promise!Token
    BY <2>1, <2>2
  <2>5. /\ u \in Promise!Token /\ u.id = t.id /\ u.type = t.type /\ u.device = t.device
        /\ u.expires = clock - 1
    BY <2>2, <2>4 DEF Promise!Token
  <2>6. Promise!Expired(u, clock)
    BY <2>2, <2>5 DEF Promise!Expired, Promise!Never
  <2> HIDE DEF u
  <2>7. /\ S \subseteq Promise!Token /\ Promise!OnePerDevice(S)
        /\ ~exposed[e] => OneByName(S)
    BY <2>1, <2>2, <2>5, ChangedSafe
  <2>8. ~exposed[e] => AreEnded(S, D, clock)
    BY <2>1, <2>2, <2>6 DEF OneByName, AreEnded
  <2>9. S # {NoAccount}
    BY <2>7, NoAccountSet
       DEF Token, Promise!Token, Types, Promise!Types, Devices, Promise!Devices
  <2> HIDE DEF S, D
  <2>10. QED
    BY <2>3, <2>7, <2>8, <2>9, ListedSafe
<1>7. ASSUME NEW e \in Emails, NEW c \in Contents \cup {NoStore}, Promise!Write(e, c)
      PROVE  PromiseInv'
  <2>1. /\ Promise!Exists(e) /\ stores' = [stores EXCEPT ![e] = c]
        /\ UNCHANGED <<clock, TokenSets, EndedTokens, exposed>>
    BY <1>7 DEF Promise!Write
  <2>2. PromiseTyped'
    BY <2>1 DEF PromiseInv, PromiseTyped
  <2>3. ASSUME NEW f \in Emails PROVE Promise!AccountSafe(f)'
    <3>1. Promise!AccountSafe(f) /\ stores'[f] = IF f = e THEN c ELSE stores[f]
      BY <2>1 DEF PromiseInv, PromiseTyped, Promise!AccountsSafe
    <3>2. QED
      BY <2>1, <3>1 DEF Promise!AccountSafe, Promise!Exists
  <2>4. QED
    BY <2>2, <2>3 DEF PromiseInv, Promise!AccountsSafe
<1>8. ASSUME Promise!Share \/ Promise!Pass \/ UNCHANGED Promise!accountVars
      PROVE  PromiseInv'
  <2>1. /\ UNCHANGED <<TokenSets, EndedTokens, stores>>
        /\ clock' \in {clock, clock + 1}
        /\ \A f \in Emails : exposed[f] => exposed'[f]
    BY <1>8 DEF Promise!Share, Promise!Pass, Promise!accountVars
  <2>2. clock \in Nat /\ clock > 1 /\ clock' \in Nat /\ clock' >= clock
    BY <2>1 DEF PromiseInv, PromiseTyped
  <2>3. PromiseTyped'
    BY <2>1, <2>2 DEF PromiseInv, PromiseTyped
  <2>4. ASSUME NEW f \in Emails PROVE Promise!AccountSafe(f)'
    <3>1. Promise!AccountSafe(f)
      BY DEF PromiseInv, Promise!AccountsSafe
    <3>2. \A t \in Promise!Token : Promise!Expired(t, clock) => Promise!Expired(t, clock')
      BY <2>2 DEF Promise!Expired, Promise!Token
    <3>3. TokenSets[f] # {NoAccount} => TokenSets[f] \subseteq Promise!Token
      BY DEF PromiseInv, PromiseTyped
    <3>4. QED
      BY <2>1, <3>1, <3>2, <3>3 DEF Promise!AccountSafe, Promise!Exists
  <2>5. QED
    BY <2>3, <2>4 DEF PromiseInv, Promise!AccountsSafe
<1>9. QED
  BY <1>1, <1>2, <1>3, <1>4, <1>5, <1>6, <1>7, <1>8 DEF Promise!AccountsNext

(* handler.go:222-231, auth.go:173 and :230, server.go:155: one token of a   *)
(* type for a device, no data without an account, no token twice and none   *)
(* that was ended still good: all of it follows from the promise, whatever  *)
(* keeps it.                                                                *)
THEOREM PromiseSafe == KeepsPromise => []Promise!AccountsSafe
<1>1. Promise!AccountsInit => PromiseInv
  BY DEF Promise!AccountsInit, PromiseInv, PromiseTyped, Promise!AccountsSafe,
         Promise!AccountSafe, Promise!Exists
<1>2. PromiseInv /\ [Promise!AccountsNext]_(Promise!accountVars) => PromiseInv'
  BY StepSafe
<1>3. PromiseInv => Promise!AccountsSafe
  BY DEF PromiseInv
<1>4. QED
  BY <1>1, <1>2, <1>3, PTL DEF KeepsPromise, Promise!AccountsSpec
=============================================================================
