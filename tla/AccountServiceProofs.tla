------------------------- MODULE AccountServiceProofs -------------------------
(***************************************************************************)
(* What the request handlers guarantee for any number of requests,         *)
(* accounts, tokens and devices, and whatever is asked: the state keeps its *)
(* type, and a request that came in through LockAccount works on an account *)
(* nobody else touches, except an activation that went past the lock.       *)
(***************************************************************************)
EXTENDS AccountService, FiniteSetTheorems, TLAPS

-----------------------------------------------------------------------------
(* What the list operations of auth.go return, for lists of any length.     *)

(* A set of positions of a list is finite.                                  *)
LEMMA PositionsFinite ==
  ASSUME NEW n \in Nat, NEW K \in SUBSET (1 .. n)
  PROVE  IsFiniteSet(K) /\ Cardinality(K) \in Nat
<1>1. IsFiniteSet(1 .. n)
  BY FS_Interval
<1>2. IsFiniteSet(K)
  BY <1>1, FS_Subset
<1>3. QED
  BY <1>2, FS_CardinalityType

(* Every position of K has a rank between 1 and the size of K ...           *)
LEMMA RankRange ==
  ASSUME NEW n \in Nat, NEW K \in SUBSET (1 .. n), NEW i \in K
  PROVE  Rank(K, i) \in 1 .. Cardinality(K)
<1> DEFINE B == {k \in K : k <= i}
<1>1. IsFiniteSet(K) /\ Cardinality(K) \in Nat
  BY PositionsFinite
<1>2. IsFiniteSet(B) /\ Cardinality(B) \in Nat /\ Cardinality(B) <= Cardinality(K)
  BY <1>1, FS_Subset, PositionsFinite, B \in SUBSET K
<1>3. i \in B
  OBVIOUS
<1>4. Cardinality(B) # 0
  BY <1>2, <1>3, FS_EmptySet
<1>5. QED
  BY <1>1, <1>2, <1>4 DEF Rank

(* ... and two positions have different ranks.                              *)
LEMMA RankInjective ==
  ASSUME NEW n \in Nat, NEW K \in SUBSET (1 .. n),
         NEW i \in K, NEW j \in K, i < j
  PROVE  Rank(K, i) # Rank(K, j)
<1> DEFINE A == {k \in K : k <= i}
           B == {k \in K : k <= j}
<1>1. IsFiniteSet(B)
  BY PositionsFinite, B \in SUBSET (1 .. n)
<1>2. i \in Int /\ j \in Int /\ \A k \in K : k \in Int
  OBVIOUS
<1>3. A \in SUBSET B /\ j \in B /\ j \notin A
  <2>1. \A k \in K : k <= i => k <= j
    BY <1>2
  <2>2. j <= j /\ ~(j <= i)
    BY <1>2
  <2>3. QED
    BY <2>1, <2>2
<1>4. Cardinality(B) # Cardinality(A)
  BY <1>1, <1>3, FS_Subset
<1>5. QED
  BY <1>4 DEF Rank

(* So each rank is some position's: the filtered list has no holes.         *)
LEMMA RankOnto ==
  ASSUME NEW n \in Nat, NEW K \in SUBSET (1 .. n), NEW j \in 1 .. Cardinality(K)
  PROVE  \E i \in K : Rank(K, i) = j
<1>1. IsFiniteSet(K) /\ Cardinality(K) \in Nat
  BY PositionsFinite
<1> DEFINE N == 1 .. Cardinality(K)
           f == [i \in K |-> Rank(K, i)]
<1>2. f \in [K -> N]
  BY RankRange
<1>3. \A a, b \in K : f[a] = f[b] => a = b
  <2> SUFFICES ASSUME NEW a \in K, NEW b \in K, a # b PROVE f[a] # f[b]
    OBVIOUS
  <2>1. a < b \/ b < a
    OBVIOUS
  <2>2. QED
    BY <2>1, RankInjective
<1>4. f \in Injection(K, N)
  BY <1>2, <1>3 DEF Injection, IsInjective
<1>5. IsFiniteSet(N) /\ Cardinality(N) = Cardinality(K)
  BY <1>1, FS_Interval
<1>6. f \in Surjection(K, N)
  BY <1>4, <1>5, FS_Injection
<1>7. QED
  BY <1>6 DEF Surjection

(* The list r has the elements of s at the positions K, each of them once.  *)
Picked(r, s, K) ==
  \E f \in [DOMAIN r -> K] :
     /\ \A i, j \in DOMAIN r : f[i] = f[j] => i = j
     /\ \A k \in K : \E i \in DOMAIN r : f[i] = k
     /\ \A i \in DOMAIN r : r[i] = s[f[i]]

(* So has Keep(s, K).                                                       *)
LEMMA KeepElements ==
  ASSUME NEW S, NEW s \in Seq(S), NEW K \in SUBSET DOMAIN s
  PROVE  Keep(s, K) \in Seq(S) /\ Picked(Keep(s, K), s, K)
<1> DEFINE N == 1 .. Cardinality(K)
           f == [j \in N |-> CHOOSE i \in K : Rank(K, i) = j]
<1>1. Len(s) \in Nat /\ K \in SUBSET (1 .. Len(s))
  OBVIOUS
<1>2. Cardinality(K) \in Nat
  BY <1>1, PositionsFinite
<1>3. \A j \in N : f[j] \in K /\ Rank(K, f[j]) = j
  BY <1>1, RankOnto
<1>4. f \in [N -> K] /\ \A i, j \in N : f[i] = f[j] => i = j
  BY <1>3
<1>5. Keep(s, K) = [j \in N |-> s[f[j]]]
  BY DEF Keep
<1>6. Keep(s, K) \in Seq(S) /\ DOMAIN Keep(s, K) = N
  BY <1>2, <1>4, <1>5
<1>7. \A k \in K : \E j \in N : f[j] = k
  <2> SUFFICES ASSUME NEW k \in K PROVE \E j \in N : f[j] = k
    OBVIOUS
  <2>1. Rank(K, k) \in N
    BY <1>1, RankRange
  <2>2. f[Rank(K, k)] \in K /\ Rank(K, f[Rank(K, k)]) = Rank(K, k)
    BY <1>3, <2>1
  <2>3. f[Rank(K, k)] = k
    <3> DEFINE l == f[Rank(K, k)]
    <3>1. l \in K /\ Rank(K, l) = Rank(K, k)
      BY <2>2
    <3> HIDE DEF l, f
    <3>2. l < k \/ k < l \/ l = k
      BY <1>1, <3>1
    <3>3. l = k
      BY <1>1, <3>1, <3>2, RankInjective
    <3>4. QED
      BY <3>3 DEF l
  <2>4. QED
    BY <2>1, <2>3
<1> HIDE DEF f, N
<1>8. \A j \in N : Keep(s, K)[j] = s[f[j]]
  BY <1>5
<1>9. QED
  BY <1>4, <1>6, <1>7, <1>8 DEF Picked

-----------------------------------------------------------------------------
(* findAuthToken returns the position of a match if there is one.           *)
LEMMA FindMatches ==
  ASSUME NEW S, NEW s \in Seq(S), NEW q, Matching(s, q) # {}
  PROVE  findAuthToken(s, q) \in Matching(s, q)
<1> DEFINE K == Matching(s, q)
<1>1. Len(s) \in Nat /\ K \in SUBSET (1 .. Len(s))
  BY DEF Matching
<1>2. IsFiniteSet(K) /\ Cardinality(K) \in Nat
  BY <1>1, PositionsFinite
<1>3. Cardinality(K) # 0
  BY <1>2, FS_EmptySet
<1>4. 1 \in 1 .. Cardinality(K)
  BY <1>2, <1>3
<1>5. PICK i \in K : Rank(K, i) = 1
  BY <1>1, <1>4, RankOnto
<1> DEFINE B == {k \in K : k <= i}
<1>6. IsFiniteSet(B) /\ Cardinality(B) = 1 /\ i \in B
  <2>1. B \in SUBSET (1 .. Len(s)) /\ i \in B
    BY <1>1
  <2>2. QED
    BY <1>1, <1>5, <2>1, PositionsFinite DEF Rank
<1>7. B = {i}
  <2>1. PICK x : B = {x}
    BY <1>6, FS_Singleton
  <2>2. QED
    BY <1>6, <2>1
<1>8. \A j \in K : i <= j
  <2>1. \A j \in K : j <= i => j = i
    BY <1>7
  <2>2. i \in Int /\ \A j \in K : j \in Int
    BY <1>1
  <2>3. QED
    BY <2>1, <2>2
<1>9. QED
  BY <1>8 DEF findAuthToken

(* What is on a list, and by what names.                                    *)
Elements(s) == {s[i] : i \in DOMAIN s}
IdsOf(s) == {t.id : t \in Elements(s)}

(* Picking loses elements, and makes nothing appear twice.                  *)
LEMMA PickedElements ==
  ASSUME NEW r, NEW s, NEW K \in SUBSET DOMAIN s, Picked(r, s, K)
  PROVE  Elements(r) = {s[k] : k \in K}
<1>1. PICK f \in [DOMAIN r -> K] :
         /\ \A k \in K : \E i \in DOMAIN r : f[i] = k
         /\ \A i \in DOMAIN r : r[i] = s[f[i]]
  BY DEF Picked
<1>2. QED
  BY <1>1 DEF Elements

LEMMA PickedUnique ==
  ASSUME NEW r, NEW s, NEW K \in SUBSET DOMAIN s, Picked(r, s, K)
  PROVE  /\ UniqueDevices(s) => UniqueDevices(r)
         /\ Distinct(s) => Distinct(r)
<1>1. PICK f \in [DOMAIN r -> K] :
         /\ \A i, j \in DOMAIN r : f[i] = f[j] => i = j
         /\ \A i \in DOMAIN r : r[i] = s[f[i]]
  BY DEF Picked
<1>2. UniqueDevices(s) => UniqueDevices(r)
  BY <1>1 DEF UniqueDevices
<1>3. Distinct(s) => Distinct(r)
  BY <1>1 DEF Distinct
<1>4. QED
  BY <1>2, <1>3

(* Filtering keeps tokens and their uniqueness.                             *)
LEMMA KeepUnique ==
  ASSUME NEW S, NEW s \in Seq(S), NEW K \in SUBSET DOMAIN s, UniqueDevices(s)
  PROVE  Keep(s, K) \in Seq(S) /\ UniqueDevices(Keep(s, K))
BY KeepElements, PickedUnique

(* RemoveAuthToken, by moving the last element, loses just the one found.   *)
LEMMA RemoveElements ==
  ASSUME NEW S, NEW s \in Seq(S), NEW q, Matching(s, q) # {}
  PROVE  /\ RemoveAuthToken(s, q) \in Seq(S)
         /\ Picked(RemoveAuthToken(s, q), s, DOMAIN s \ {findAuthToken(s, q)})
<1> DEFINE i == findAuthToken(s, q)
           n == Len(s)
           r == RemoveAuthToken(s, q)
           f == [k \in 1 .. (n - 1) |-> IF k = i THEN n ELSE k]
<1>1. n \in Nat /\ DOMAIN s = 1 .. n /\ i \in 1 .. n
  BY FindMatches DEF Matching
<1>2. r = SubSeq([s EXCEPT ![i] = s[n]], 1, n - 1)
  BY DEF RemoveAuthToken
<1> HIDE DEF i, n
<1>3. /\ r \in Seq(S) /\ DOMAIN r = 1 .. (n - 1)
      /\ \A k \in 1 .. (n - 1) : r[k] = IF k = i THEN s[n] ELSE s[k]
  BY <1>1, <1>2
<1> HIDE DEF r
<1>4. f \in [DOMAIN r -> DOMAIN s \ {i}]
  BY <1>1, <1>3
<1>5. \A j, k \in DOMAIN r : f[j] = f[k] => j = k
  BY <1>1, <1>3
<1>6. \A k \in DOMAIN s \ {i} : \E j \in DOMAIN r : f[j] = k
  <2> SUFFICES ASSUME NEW k \in 1 .. n, k # i PROVE \E j \in 1 .. (n - 1) : f[j] = k
    BY <1>1, <1>3
  <2>1. CASE k = n
    <3>1. i \in 1 .. (n - 1) /\ f[i] = k
      BY <1>1, <2>1
    <3>2. QED
      BY <3>1
  <2>2. CASE k # n
    <3>1. k \in 1 .. (n - 1) /\ f[k] = k
      BY <1>1, <2>2
    <3>2. QED
      BY <3>1
  <2>3. QED
    BY <2>1, <2>2
<1>7. \A k \in DOMAIN r : r[k] = s[f[k]]
  BY <1>1, <1>3
<1>8. QED
  BY <1>3, <1>4, <1>5, <1>6, <1>7 DEF Picked, r, i

LEMMA RemoveUnique ==
  ASSUME NEW S, NEW s \in Seq(S), NEW q, UniqueDevices(s)
  PROVE  RemoveAuthToken(s, q) \in Seq(S) /\ UniqueDevices(RemoveAuthToken(s, q))
<1>1. CASE Matching(s, q) = {}
  BY <1>1 DEF RemoveAuthToken
<1>2. CASE Matching(s, q) # {}
  <2> DEFINE r == RemoveAuthToken(s, q)
             K == DOMAIN s \ {findAuthToken(s, q)}
  <2>1. r \in Seq(S) /\ Picked(r, s, K) /\ K \in SUBSET DOMAIN s
    BY <1>2, RemoveElements
  <2> HIDE DEF r, K
  <2>2. UniqueDevices(r)
    BY <2>1, PickedUnique
  <2>3. QED
    BY <2>1, <2>2 DEF r
<1>3. QED
  BY <1>1, <1>2

(* UpdateAuthToken replaces a token by one of the same type and device.     *)
LEMMA UpdateUnique ==
  ASSUME NEW s \in Seq(Token), NEW t \in Token, UniqueDevices(s)
  PROVE  UpdateAuthToken(s, t) \in Seq(Token) /\ UniqueDevices(UpdateAuthToken(s, t))
<1>1. CASE Matching(s, t) = {}
  BY <1>1 DEF UpdateAuthToken
<1>2. CASE Matching(s, t) # {}
  <2> DEFINE i == findAuthToken(s, t)
             r == UpdateAuthToken(s, t)
  <2>1. i \in DOMAIN s /\ Matches(t, s[i])
    BY <1>2, FindMatches DEF Matching
  <2>2. r = [s EXCEPT ![i] = t]
    BY <1>2 DEF UpdateAuthToken
  <2>3. s[i].type = t.type /\ (t.device \in UUIDs => s[i].device = t.device)
    BY <2>1, NamesAssumption DEF Matches, Token, Types
  <2> HIDE DEF i
  <2>4. r \in Seq(Token) /\ DOMAIN r = DOMAIN s
    BY <2>1, <2>2
  <2>5. UniqueDevices(r)
    BY <2>1, <2>2, <2>3, <2>4 DEF UniqueDevices
  <2>6. QED
    BY <2>4, <2>5
<1>3. QED
  BY <1>1, <1>2

(* AddAuthToken keeps the list unique once the device's token is gone.      *)
LEMMA AddUnique ==
  ASSUME NEW s \in Seq(Token), NEW t \in Token, UniqueDevices(s),
         Matching(s, Query(t.type, NoId, t.device)) = {}
  PROVE  AddAuthToken(s, t) \in Seq(Token) /\ UniqueDevices(AddAuthToken(s, t))
<1> DEFINE r == AddAuthToken(s, t)
           n == Len(s)
<1>1. /\ n \in Nat /\ DOMAIN s = 1 .. n
      /\ r \in Seq(Token) /\ DOMAIN r = 1 .. (n + 1) /\ r[n + 1] = t
      /\ \A k \in 1 .. n : r[k] = s[k]
  BY DEF AddAuthToken
<1>2. t.device \in UUIDs =>
        \A k \in 1 .. n : ~(s[k].type = t.type /\ s[k].device = t.device)
  BY <1>1 DEF Matching, Matches, Query
<1> HIDE DEF r, n
<1>3. UniqueDevices(r)
  BY <1>1, <1>2 DEF UniqueDevices
<1>4. QED
  BY <1>1, <1>3 DEF r

-----------------------------------------------------------------------------
(* The same operations, as to what is on the list and that nothing is twice. *)
LEMMA DistinctElements ==
  ASSUME NEW s, Distinct(s), NEW x \in Elements(s), NEW y \in Elements(s), x.id = y.id
  PROVE  x = y
BY DEF Distinct, Elements

LEMMA EmptyElements ==
  Elements(<<>>) = {} /\ IdsOf(<<>>) = {} /\ Distinct(<<>>) /\ UniqueDevices(<<>>)
BY DEF Elements, IdsOf, Distinct, UniqueDevices

LEMMA TypedElements ==
  ASSUME NEW s \in Seq(Token), NEW x \in Elements(s)
  PROVE  x \in Token /\ x.id \in IdsOf(s) /\ x.id \in Ids
<1>1. x \in Token /\ x.id \in IdsOf(s)
  BY DEF Elements, IdsOf
<1>2. QED
  BY <1>1 DEF Token

(* A query by name finds nothing but that name.                             *)
LEMMA FoundByName ==
  ASSUME NEW s \in Seq(Token), NEW q, q.id # NoId, Matching(s, q) # {}
  PROVE  /\ findAuthToken(s, q) \in DOMAIN s
         /\ s[findAuthToken(s, q)].id = q.id
         /\ q.id \in IdsOf(s)
<1> DEFINE i == findAuthToken(s, q)
<1>1. i \in DOMAIN s /\ Matches(q, s[i])
  BY FindMatches DEF Matching
<1> HIDE DEF i
<1>2. s[i].id = q.id
  BY <1>1 DEF Matches
<1>3. q.id \in IdsOf(s)
  BY <1>1, <1>2 DEF IdsOf, Elements
<1>4. QED
  BY <1>1, <1>2, <1>3 DEF i

(* Filtering keeps exactly what passes.                                     *)
LEMMA UsedElements ==
  ASSUME NEW s \in Seq(Token), NEW now
  PROVE  LET r == ExpireUnusedAuthTokens(s, now) IN
         /\ r \in Seq(Token)
         /\ Elements(r) = {t \in Elements(s) : t.lastUsed > now - MaxIdle}
         /\ Distinct(s) => Distinct(r)
<1> DEFINE K == {i \in DOMAIN s : s[i].lastUsed > now - MaxIdle}
           r == Keep(s, K)
<1>1. K \in SUBSET DOMAIN s
  OBVIOUS
<1>2. r \in Seq(Token) /\ Picked(r, s, K)
  BY <1>1, KeepElements
<1> HIDE DEF r
<1>3. Elements(r) = {s[k] : k \in K} /\ (Distinct(s) => Distinct(r))
  BY <1>1, <1>2, PickedElements, PickedUnique
<1>4. {s[k] : k \in K} = {t \in Elements(s) : t.lastUsed > now - MaxIdle}
  BY DEF Elements
<1>5. QED
  BY <1>2, <1>3, <1>4 DEF r, ExpireUnusedAuthTokens

LEMMA RetainedElements ==
  ASSUME NEW s \in Seq(Token), NEW now
  PROVE  LET r == RemoveExpiredAuthTokens(s, now) IN
         /\ r \in Seq(Token)
         /\ Elements(r) = {t \in Elements(s) : Retained(t, now)}
         /\ Distinct(s) => Distinct(r)
<1> DEFINE K == {i \in DOMAIN s : Retained(s[i], now)}
           r == Keep(s, K)
<1>1. K \in SUBSET DOMAIN s
  OBVIOUS
<1>2. r \in Seq(Token) /\ Picked(r, s, K)
  BY <1>1, KeepElements
<1> HIDE DEF r
<1>3. Elements(r) = {s[k] : k \in K} /\ (Distinct(s) => Distinct(r))
  BY <1>1, <1>2, PickedElements, PickedUnique
<1>4. {s[k] : k \in K} = {t \in Elements(s) : Retained(t, now)}
  BY DEF Elements
<1>5. QED
  BY <1>2, <1>3, <1>4 DEF r, RemoveExpiredAuthTokens

(* Removing loses one element, which matches; by its name, just that one.   *)
LEMMA RemovedElements ==
  ASSUME NEW s \in Seq(Token), NEW q
  PROVE  LET r == RemoveAuthToken(s, q) IN
         /\ r \in Seq(Token)
         /\ Elements(r) \subseteq Elements(s)
         /\ \A t \in Elements(s) : t \in Elements(r) \/ Matches(q, t)
         /\ Distinct(s) =>
              /\ Distinct(r)
              /\ Matching(s, q) # {} /\ q.id # NoId =>
                   \A t \in Elements(r) : t.id # q.id
<1> DEFINE r == RemoveAuthToken(s, q)
           i == findAuthToken(s, q)
           K == DOMAIN s \ {i}
<1>1. CASE Matching(s, q) = {}
  BY <1>1 DEF RemoveAuthToken
<1>2. CASE Matching(s, q) # {}
  <2>1. /\ r \in Seq(Token) /\ Picked(r, s, K)
        /\ K \in SUBSET DOMAIN s /\ i \in DOMAIN s /\ Matches(q, s[i])
    BY <1>2, RemoveElements, FindMatches DEF Matching
  <2> HIDE DEF r, i
  <2>2. Elements(r) = {s[k] : k \in K} /\ (Distinct(s) => Distinct(r))
    BY <2>1, PickedElements, PickedUnique
  <2>3. /\ Elements(r) \subseteq Elements(s)
        /\ \A t \in Elements(s) : t \in Elements(r) \/ Matches(q, t)
    BY <2>1, <2>2 DEF Elements
  <2>4. ASSUME Distinct(s), q.id # NoId
        PROVE  \A t \in Elements(r) : t.id # q.id
    <3>1. s[i].id = q.id
      BY <2>1, <2>4 DEF Matches
    <3>2. \A k \in K : s[k].id # q.id
      BY <2>1, <2>4, <3>1 DEF Distinct
    <3>3. QED
      BY <2>2, <3>2
  <2>5. QED
    BY <2>1, <2>2, <2>3, <2>4 DEF r
<1>3. QED
  BY <1>1, <1>2

(* Updating keeps the names, and changes the token of that name only.       *)
LEMMA UpdatedElements ==
  ASSUME NEW s \in Seq(Token), NEW t \in Token
  PROVE  LET r == UpdateAuthToken(s, t) IN
         /\ r \in Seq(Token)
         /\ Distinct(s) => Distinct(r)
         /\ IdsOf(r) = IdsOf(s)
         /\ Elements(r) \subseteq Elements(s) \cup {t}
<1> DEFINE r == UpdateAuthToken(s, t)
           i == findAuthToken(s, t)
<1>1. CASE Matching(s, t) = {}
  BY <1>1 DEF UpdateAuthToken
<1>2. CASE Matching(s, t) # {}
  <2>1. i \in DOMAIN s /\ Matches(t, s[i])
    BY <1>2, FindMatches DEF Matching
  <2>2. r = [s EXCEPT ![i] = t]
    BY <1>2 DEF UpdateAuthToken
  <2>3. s[i].id = t.id
    BY <2>1, NamesAssumption DEF Matches, Token
  <2> HIDE DEF r, i
  <2>4. /\ r \in Seq(Token) /\ DOMAIN r = DOMAIN s /\ r[i] = t
        /\ \A k \in DOMAIN s : k # i => r[k] = s[k]
    BY <2>1, <2>2
  <2>5. \A k \in DOMAIN s : r[k].id = s[k].id
    BY <2>3, <2>4
  <2>6. Distinct(s) => Distinct(r)
    BY <2>4, <2>5 DEF Distinct
  <2>7. IdsOf(r) = IdsOf(s)
    <3>1. IdsOf(r) = {r[k].id : k \in DOMAIN r}
      BY DEF IdsOf, Elements
    <3>2. IdsOf(s) = {s[k].id : k \in DOMAIN s}
      BY DEF IdsOf, Elements
    <3>3. QED
      BY <2>4, <2>5, <3>1, <3>2
  <2>8. Elements(r) \subseteq Elements(s) \cup {t}
    BY <2>4 DEF Elements
  <2>9. QED
    BY <2>4, <2>6, <2>7, <2>8 DEF r
<1>3. QED
  BY <1>1, <1>2

LEMMA AddedElements ==
  ASSUME NEW s \in Seq(Token), NEW t \in Token
  PROVE  LET r == AddAuthToken(s, t) IN
         /\ r \in Seq(Token)
         /\ Elements(r) = Elements(s) \cup {t}
         /\ Distinct(s) /\ t.id \notin IdsOf(s) => Distinct(r)
<1> DEFINE r == AddAuthToken(s, t)
           n == Len(s)
<1>1. /\ n \in Nat /\ DOMAIN s = 1 .. n
      /\ r \in Seq(Token) /\ DOMAIN r = 1 .. (n + 1) /\ r[n + 1] = t
      /\ \A k \in 1 .. n : r[k] = s[k]
  BY DEF AddAuthToken
<1> HIDE DEF r, n
<1>2. DOMAIN r = (1 .. n) \cup {n + 1}
  BY <1>1
<1>3. Elements(r) = Elements(s) \cup {t}
  BY <1>1, <1>2 DEF Elements
<1>4. ASSUME Distinct(s), t.id \notin IdsOf(s) PROVE Distinct(r)
  <2>1. \A k \in 1 .. n : s[k].id # t.id
    BY <1>1, <1>4 DEF IdsOf, Elements
  <2>2. QED
    BY <1>1, <1>2, <1>4, <2>1 DEF Distinct
<1>5. QED
  BY <1>1, <1>3, <1>4 DEF r

-----------------------------------------------------------------------------
(* What a request has established when it gets to a place: l, x, y and w are *)
(* its pc, req, auth and ar.                                                *)
ReachAt(l, x, y, w) ==
    /\ l \in {"lock", "authGet", "authPut", "delAccount", "unlock"}
          => x.email \in Emails
    /\ y # NoAuth => x.email \in Emails
    /\ l \in {"idle", "lock", "authGet", "unlock"} => y = NoAuth
    /\ l = "authPut" => y # NoAuth
    /\ l = "handle" /\ AuthType(x.op) # "" => y # NoAuth
    /\ l \in {"reqStore", "reqPut", "reqMail"} => x.target \in Emails
    /\ l \in {"reqMail", "actGet", "actPut", "actDelete", "actLogin"}
          => w \in AuthRequest

Reach(r) == ReachAt(pc[r], req[r], auth[r], ar[r])

TypeInv == TypeOK /\ \A r \in Requests : Reach(r)

USE ServiceAssumption, AgesAssumption, NamesAssumption

-----------------------------------------------------------------------------
(* Types of the values that the handlers build.                             *)
LEMMA KeepTyped ==
  ASSUME NEW s \in Seq(Token), NEW K \in SUBSET DOMAIN s
  PROVE  Keep(s, K) \in Seq(Token)
BY KeepElements

LEMMA LiveTyped ==
  ASSUME NEW s \in Seq(Token) PROVE LiveTokens(s) \in Seq(Token)
<1>1. ExpireUnusedAuthTokens(s, clock) \in Seq(Token)
  BY KeepTyped DEF ExpireUnusedAuthTokens
<1> DEFINE x == ExpireUnusedAuthTokens(s, clock)
<1> HIDE DEF x
<1>2. RemoveExpiredAuthTokens(x, clock) \in Seq(Token)
  BY <1>1, KeepTyped DEF RemoveExpiredAuthTokens, x
<1>3. QED
  BY <1>2 DEF LiveTokens, x

(* A match is a position of the list.                                       *)
LEMMA FindInDomain ==
  ASSUME NEW s \in Seq(Token), NEW q, Matching(s, q) # {}
  PROVE  findAuthToken(s, q) \in DOMAIN s /\ Matches(q, s[findAuthToken(s, q)])
BY FindMatches DEF Matching

LEMMA RemoveTyped ==
  ASSUME NEW s \in Seq(Token), NEW q
  PROVE  RemoveAuthToken(s, q) \in Seq(Token)
<1>1. CASE Matching(s, q) = {}
  BY <1>1 DEF RemoveAuthToken
<1>2. CASE Matching(s, q) # {}
  <2> DEFINE i == findAuthToken(s, q)
  <2>1. i \in DOMAIN s
    BY <1>2, FindInDomain
  <2> HIDE DEF i
  <2>2. SubSeq([s EXCEPT ![i] = s[Len(s)]], 1, Len(s) - 1) \in Seq(Token)
    BY <2>1
  <2>3. QED
    BY <1>2, <2>2 DEF RemoveAuthToken, i
<1>3. QED
  BY <1>1, <1>2

LEMMA UpdateTyped ==
  ASSUME NEW s \in Seq(Token), NEW t \in Token
  PROVE  UpdateAuthToken(s, t) \in Seq(Token)
<1>1. CASE Matching(s, t) = {}
  BY <1>1 DEF UpdateAuthToken
<1>2. CASE Matching(s, t) # {}
  <2> DEFINE i == findAuthToken(s, t)
  <2>1. i \in DOMAIN s
    BY <1>2, FindInDomain
  <2> HIDE DEF i
  <2>2. [s EXCEPT ![i] = t] \in Seq(Token)
    BY <2>1
  <2>3. QED
    BY <1>2, <2>2 DEF UpdateAuthToken, i
<1>3. QED
  BY <1>1, <1>2

LEMMA RequestTyped ==
  ASSUME TypeOK, NEW e \in Emails, NEW i \in Ids, NEW t \in Types,
         NEW d \in Devices, NEW c \in Codes \cup {NoCode}
  PROVE  NewAuthRequest(e, i, t, d, c) \in AuthRequest
<1>1. clock \in Nat /\ WebAge \in Nat
  BY DEF TypeOK, StorageOK
<1>2. NewAuthToken(i, t, d, clock) \in Token
  BY <1>1 DEF NewAuthToken, Token, Never
<1>3. QED
  BY <1>1, <1>2 DEF NewAuthRequest, AuthRequest

LEMMA KeyTyped == ASSUME NEW a \in AuthRequest PROVE Key(a) \in Keys
BY DEF Key, Keys, AuthRequest, Token

(* A step of request r to the place l with the variables x, y, z and w.     *)
Moved(r, l, x, y, z, w) ==
    /\ pc' = [pc EXCEPT ![r] = l]
    /\ req' = [req EXCEPT ![r] = x]
    /\ auth' = [auth EXCEPT ![r] = y]
    /\ acc' = [acc EXCEPT ![r] = z]
    /\ ar' = [ar EXCEPT ![r] = w]

LocalInv == RequestsOK /\ \A r \in Requests : Reach(r)

LEMMA MoveTyped ==
  ASSUME LocalInv, NEW r \in Requests, NEW l \in Pcs, NEW x \in RequestValue,
         NEW y \in AuthValue, NEW z \in Seq(Token),
         NEW w \in AuthRequest \cup {Blank},
         ReachAt(l, x, y, w), Moved(r, l, x, y, z, w)
  PROVE  LocalInv'
<1>1. RequestsOK'
  BY DEF LocalInv, RequestsOK, Moved
<1>2. ASSUME NEW q \in Requests PROVE Reach(q)'
  <2>1. CASE q = r
    <3>1. pc'[q] = l /\ req'[q] = x /\ auth'[q] = y /\ ar'[q] = w
      BY <2>1 DEF LocalInv, RequestsOK, Moved
    <3>2. QED
      BY <3>1 DEF Reach, ReachAt
  <2>2. CASE q # r
    <3>1. pc'[q] = pc[q] /\ req'[q] = req[q] /\ auth'[q] = auth[q] /\ ar'[q] = ar[q]
      BY <2>2 DEF LocalInv, RequestsOK, Moved
    <3>2. Reach(q)
      BY DEF LocalInv
    <3>3. QED
      BY <3>1, <3>2 DEF Reach, ReachAt
  <2>3. QED
    BY <2>1, <2>2
<1>3. QED
  BY <1>1, <1>2 DEF LocalInv

(* What the values of a request are.                                        *)
LEMMA Values ==
  ASSUME LocalInv, NEW r \in Requests
  PROVE  /\ pc[r] \in Pcs /\ req[r] \in RequestValue /\ auth[r] \in AuthValue
         /\ acc[r] \in Seq(Token) /\ ar[r] \in AuthRequest \cup {Blank}
         /\ ReachAt(pc[r], req[r], auth[r], ar[r])
         /\ NoAuth \in AuthValue /\ NoRequest \in RequestValue
         /\ <<>> \in Seq(Token)
<1>1. /\ pc[r] \in Pcs /\ req[r] \in RequestValue /\ auth[r] \in AuthValue
      /\ acc[r] \in Seq(Token) /\ ar[r] \in AuthRequest \cup {Blank}
  BY DEF LocalInv, RequestsOK
<1>2. ReachAt(pc[r], req[r], auth[r], ar[r])
  BY DEF LocalInv, Reach
<1>3. NoRequest \in RequestValue
  BY DEF NoRequest, RequestValue, Devices
<1>4. NoAuth \in AuthValue /\ <<>> \in Seq(Token)
  BY DEF AuthValue
<1>5. QED
  BY <1>1, <1>2, <1>3, <1>4

(* A handler goes on; it ends; it starts without authentication.            *)
LEMMA ProceedTyped ==
  ASSUME LocalInv, NEW r \in Requests, NEW l \in Pcs, Proceed(r, l),
         ReachAt(l, req[r], auth[r], ar[r])
  PROVE  LocalInv'
<1>1. Moved(r, l, req[r], auth[r], acc[r], ar[r])
  BY DEF Proceed, Goto, local, Moved, LocalInv, RequestsOK
<1>2. QED
  BY <1>1, Values, MoveTyped

LEMMA FinishTyped ==
  ASSUME LocalInv, NEW r \in Requests, Finish(r)
  PROVE  LocalInv'
<1> DEFINE l == IF req[r].email = NoOne THEN "idle" ELSE "unlock"
           x == [NoRequest EXCEPT !.email = req[r].email]
<1>1. Moved(r, l, x, NoAuth, <<>>, Blank)
  BY DEF Finish, Goto, Moved
<1>2. l \in Pcs /\ (l = "idle" \/ (l = "unlock" /\ req[r].email \in Emails))
  BY Values DEF Pcs, RequestValue
<1>3. x \in RequestValue /\ x.email = req[r].email /\ x.op = ""
  BY Values DEF RequestValue, NoRequest
<1>4. ReachAt(l, x, NoAuth, Blank)
  BY <1>2, <1>3 DEF ReachAt
<1>5. QED
  BY <1>1, <1>2, <1>3, <1>4, Values, MoveTyped

LEMMA UnauthenticatedTyped ==
  ASSUME LocalInv, NEW r \in Requests, Unauthenticated(r)
  PROVE  LocalInv'
<1>1. CASE Finish(r)
  BY <1>1, FinishTyped
<1>2. CASE ~Finish(r)
  <2>1. Moved(r, "handle", req[r], NoAuth, <<>>, ar[r]) /\ AuthType(req[r].op) = ""
    BY <1>2 DEF Unauthenticated, Goto, Moved, LocalInv, RequestsOK
  <2>2. "handle" \in Pcs /\ ReachAt("handle", req[r], NoAuth, ar[r])
    BY <2>1 DEF Pcs, ReachAt
  <2>3. QED
    BY <2>1, <2>2, Values, MoveTyped
<1>3. QED
  BY <1>1, <1>2

(* The endpoints that need an authentication.                               *)
LEMMA Closed ==
  \A op \in {"ReadStore", "WriteStore", "DeleteStore", "DeleteAccount", "Logout",
             "Revoke", "AccountInfo"} : AuthType(op) # ""
BY DEF AuthType

-----------------------------------------------------------------------------
LEMMA InitTypeInv == Init => TypeInv
<1> SUFFICES ASSUME Init PROVE TypeInv
  OBVIOUS
<1> USE DEF Init
<1>1. StorageOK
  BY DEF StorageOK, StartTime
<1>2. RequestsOK
  <2>1. pc \in [Requests -> Pcs] /\ acc \in [Requests -> Seq(Token)]
        /\ auth \in [Requests -> AuthValue]
        /\ ar \in [Requests -> AuthRequest \cup {Blank}]
    BY DEF Pcs, AuthValue
  <2>2. NoRequest \in RequestValue
    BY DEF NoRequest, RequestValue, Devices
  <2>3. QED
    BY <2>1, <2>2 DEF RequestsOK
<1>3. HistoryOK
  BY DEF HistoryOK, Keys
<1>4. \A r \in Requests : Reach(r)
  BY DEF Reach, ReachAt, NoRequest
<1>5. QED
  BY <1>1, <1>2, <1>3, <1>4 DEF TypeInv, TypeOK


(* The account a request authenticates against, filtered.                   *)
LEMMA LiveAccount ==
  ASSUME TypeInv, NEW e \in Emails, accounts[e] # NoAccount
  PROVE  LiveTokens(accounts[e]) \in Seq(Token)
BY LiveTyped DEF TypeInv, TypeOK, StorageOK

(* The token a request is authenticated by, once updated.                   *)
Used(r) ==
    LET s == LiveTokens(accounts[req[r].email])
        t == s[findAuthToken(s, Presented(r))]
    IN  [t EXCEPT !.lastUsed = clock,
                  !.device = IF @ = NoDevice THEN req[r].device ELSE @]

LEMMA UsedTyped ==
  ASSUME TypeInv, NEW r \in Requests, AuthAccepted(r)
  PROVE  /\ req[r].email \in Emails /\ accounts[req[r].email] # NoAccount
         /\ LiveTokens(accounts[req[r].email]) \in Seq(Token)
         /\ Used(r) \in Token
         /\ acc' = [acc EXCEPT ![r] =
                       UpdateAuthToken(LiveTokens(accounts[req[r].email]), Used(r))]
         /\ auth' = [auth EXCEPT ![r] =
                       Query(Used(r).type, Used(r).id, Used(r).device)]
<1> DEFINE s == LiveTokens(accounts[req[r].email])
           i == findAuthToken(s, Presented(r))
<1>1. LocalInv /\ clock \in Nat
  BY DEF TypeInv, TypeOK, StorageOK, LocalInv
<1>2. req[r].email \in Emails /\ accounts[req[r].email] # NoAccount
      /\ req[r].device \in Devices
  BY <1>1, Values DEF AuthAccepted, ReachAt, RequestValue
<1>3. s \in Seq(Token)
  BY <1>2, LiveAccount
<1>4. Matching(s, Presented(r)) # {}
  BY DEF AuthAccepted, Accepted
<1>5. i \in DOMAIN s
  BY <1>3, <1>4, FindInDomain
<1>6. s[i] \in Token
  BY <1>3, <1>5
<1>7. Used(r) = [s[i] EXCEPT !.lastUsed = clock,
                    !.device = IF @ = NoDevice THEN req[r].device ELSE @]
  BY DEF Used
<1> HIDE DEF s, i
<1>8. Used(r) \in Token
  BY <1>1, <1>2, <1>6, <1>7 DEF Token
<1>9. QED
  BY <1>2, <1>3, <1>8 DEF AuthAccepted, Used, s

(* The requests that are made, and logged in by.                            *)
LEMMA LoginTyped ==
  ASSUME TypeInv, NEW r \in Requests, pc[r] = "actLogin", NEW i \in Ids
  PROVE  /\ ar[r].email \in Emails
         /\ NewAuthRequest(ar[r].email, i, "web", ar[r].token.device, NoCode)
               \in AuthRequest
<1>1. ar[r] \in AuthRequest
  BY Values DEF ReachAt, TypeInv, TypeOK, LocalInv
<1>2. ar[r].email \in Emails /\ ar[r].token.device \in Devices
  BY <1>1 DEF AuthRequest, Token
<1>3. QED
  BY <1>2, RequestTyped DEF TypeInv, Types

Mail(r, i, t, c) == NewAuthRequest(req[r].target, i, t, req[r].device, c)

LEMMA MailTyped ==
  ASSUME TypeInv, NEW r \in Requests, pc[r] = "reqPut", NEW i \in Ids,
         NEW t \in Types, NEW c \in Codes \cup {NoCode}
  PROVE  /\ req[r].target \in Emails
         /\ Mail(r, i, t, c) \in AuthRequest
         /\ Key(Mail(r, i, t, c)) \in Keys
<1>1. req[r].target \in Emails /\ req[r].device \in Devices
  BY Values DEF ReachAt, RequestValue, TypeInv, TypeOK, LocalInv
<1>2. Mail(r, i, t, c) \in AuthRequest
  BY <1>1, RequestTyped DEF Mail, TypeInv
<1>3. QED
  BY <1>1, <1>2, KeyTyped

(* The list of tokens that Revoke saves.                                    *)
Revoked(r, i) ==
    [acc[r] EXCEPT ![findAuthToken(acc[r], Query("", i, NoDevice))].expires
                        = clock - 1]

LEMMA RevokeTyped ==
  ASSUME TypeInv, NEW r \in Requests, NEW i \in Ids, Revoke(r, i)
  PROVE  Revoked(r, i) \in Seq(Token)
<1> DEFINE k == findAuthToken(acc[r], Query("", i, NoDevice))
<1>1. acc[r] \in Seq(Token)
  BY Values DEF TypeInv, TypeOK, LocalInv
<1>2. k \in DOMAIN acc[r]
  BY <1>1, FindInDomain DEF Revoke
<1>3. clock \in Nat /\ clock - 1 \in Nat
  BY DEF TypeInv, TypeOK, StorageOK, StartTime
<1>4. Revoked(r, i) = [acc[r] EXCEPT ![k].expires = clock - 1]
  BY DEF Revoked
<1> HIDE DEF k
<1>5. acc[r][k] \in Token
  BY <1>1, <1>2
<1>6. [acc[r][k] EXCEPT !.expires = clock - 1] \in Token
  BY <1>3, <1>5 DEF Token
<1>7. QED
  BY <1>1, <1>2, <1>4, <1>6

-----------------------------------------------------------------------------
(* Every step keeps the types.                                              *)
LEMMA NextTypeInv == TypeInv /\ [Next]_vars => TypeInv'
<1> SUFFICES ASSUME TypeInv, [Next]_vars PROVE TypeInv'
  OBVIOUS
<1> USE DEF TypeInv, TypeOK, LocalInv
<1>1. ASSUME NEW r \in Requests, NEW op \in Ops, NEW e \in Emails \cup {NoOne},
             NEW i \in Ids \cup {Skeleton, NoId}, NEW d \in Clients, Arrive(r, op, e, i, d)
      PROVE  TypeInv'
  <2>1. StorageOK'
    BY <1>1 DEF Arrive, storage, StorageOK
  <2>2. LocalInv'
    <3> DEFINE l == IF e = NoOne THEN "handle" ELSE "lock"
               x == [op |-> op, email |-> e, id |-> i, device |-> d, target |-> NoOne]
    <3>1. Moved(r, l, x, auth[r], acc[r], ar[r])
      BY <1>1 DEF Arrive, Goto, Moved, RequestsOK, local
    <3>2. l \in Pcs /\ (l = "lock" => x.email \in Emails) /\ l \in {"handle", "lock"}
          /\ (l = "handle" => AuthType(x.op) = "")
      BY <1>1 DEF Arrive, Pcs
    <3>3. x \in RequestValue
      BY DEF RequestValue
    <3>a. auth[r] = NoAuth
      BY <1>1, Values DEF Arrive, ReachAt
    <3> HIDE DEF l, x
    <3>4. ReachAt(l, x, auth[r], ar[r])
      BY <3>2, <3>3, <3>a DEF ReachAt
    <3>5. QED
      BY <3>1, <3>2, <3>3, <3>4, Values, MoveTyped
  <2>3. HistoryOK'
    BY <1>1 DEF Arrive, history, HistoryOK
  <2>4. QED
    BY <2>1, <2>2, <2>3
<1>2. ASSUME NEW r \in Requests, LockAccount(r)
      PROVE  TypeInv'
  <2>1. StorageOK'
    BY <1>2 DEF LockAccount, storage, StorageOK
  <2>2. LocalInv'
    <3>1. Moved(r, "authGet", req[r], auth[r], acc[r], ar[r])
      BY <1>2 DEF LockAccount, Goto, Moved, RequestsOK, local
    <3>2. /\ "authGet" \in Pcs /\ req[r] \in RequestValue /\ auth[r] \in AuthValue
          /\ acc[r] \in Seq(Token) /\ ar[r] \in AuthRequest \cup {Blank}
      BY <1>2, Values DEF LockAccount, Pcs, RequestValue
    <3>3. ReachAt("authGet", req[r], auth[r], ar[r])
      BY <1>2, Values DEF LockAccount, ReachAt
    <3>4. QED
      BY <3>1, <3>2, <3>3, MoveTyped
  <2>3. HistoryOK'
    BY <1>2 DEF LockAccount, history, HistoryOK
  <2>4. QED
    BY <2>1, <2>2, <2>3
<1>3. ASSUME NEW r \in Requests, UnlockAccount(r)
      PROVE  TypeInv'
  <2>1. StorageOK'
    BY <1>3 DEF UnlockAccount, storage, StorageOK
  <2>2. LocalInv'
    <3>1. Moved(r, "idle", NoRequest, auth[r], acc[r], ar[r])
      BY <1>3 DEF UnlockAccount, Goto, Moved, RequestsOK, local
    <3>2. /\ "idle" \in Pcs /\ NoRequest \in RequestValue /\ auth[r] \in AuthValue
          /\ acc[r] \in Seq(Token) /\ ar[r] \in AuthRequest \cup {Blank}
      BY <1>3, Values DEF UnlockAccount, Pcs, RequestValue
    <3>3. ReachAt("idle", NoRequest, auth[r], ar[r])
      BY <1>3, Values DEF UnlockAccount, ReachAt
    <3>4. QED
      BY <3>1, <3>2, <3>3, MoveTyped
  <2>3. HistoryOK'
    BY <1>3 DEF UnlockAccount, history, HistoryOK
  <2>4. QED
    BY <2>1, <2>2, <2>3
<1>4. ASSUME NEW r \in Requests, AuthRefused(r)
      PROVE  TypeInv'
  <2>1. StorageOK'
    BY <1>4 DEF AuthRefused, storage, StorageOK
  <2>2. LocalInv'
    BY <1>4, UnauthenticatedTyped DEF AuthRefused
  <2>3. HistoryOK'
    BY <1>4 DEF AuthRefused, history, HistoryOK
  <2>4. QED
    BY <2>1, <2>2, <2>3
<1>5. ASSUME NEW r \in Requests, AuthSkeleton(r)
      PROVE  TypeInv'
  <2>1. StorageOK'
    BY <1>5 DEF AuthSkeleton, storage, StorageOK
  <2>2. LocalInv'
    <3> DEFINE y == Query("skeleton", Skeleton, req[r].device)
               z == LiveTokens(accounts[req[r].email])
    <3>1. Moved(r, "authPut", req[r], y, z, ar[r])
      BY <1>5 DEF AuthSkeleton, Goto, Moved, RequestsOK, local
    <3>a. req[r].email \in Emails /\ req[r].device \in Devices
      BY <1>5, Values DEF AuthSkeleton, ReachAt, RequestValue
    <3>2. z \in Seq(Token) /\ "authPut" \in Pcs
      BY <1>5, <3>a, LiveAccount DEF AuthSkeleton, Pcs
    <3>3. y \in AuthValue /\ y # NoAuth
      BY <3>a DEF Query, AuthValue
    <3> HIDE DEF y, z
    <3>4. ReachAt("authPut", req[r], y, ar[r])
      BY <3>a, <3>3 DEF ReachAt
    <3>5. QED
      BY <3>1, <3>2, <3>3, <3>4, Values, MoveTyped
  <2>3. HistoryOK'
    BY <1>5 DEF AuthSkeleton, history, HistoryOK
  <2>4. QED
    BY <2>1, <2>2, <2>3
<1>6. ASSUME NEW r \in Requests, AuthAccepted(r)
      PROVE  TypeInv'
  <2>1. StorageOK'
    BY <1>6 DEF AuthAccepted, storage, StorageOK
  <2>2. LocalInv'
    <3> DEFINE u == Used(r)
               y == Query(u.type, u.id, u.device)
               z == UpdateAuthToken(LiveTokens(accounts[req[r].email]), u)
    <3>1. Moved(r, "authPut", req[r], y, z, ar[r])
      BY <1>6, UsedTyped DEF AuthAccepted, Goto, Moved, RequestsOK
    <3>2. y \in AuthValue /\ y # NoAuth
      BY <1>6, UsedTyped DEF AuthValue, Query, Token
    <3>3. z \in Seq(Token) /\ req[r].email \in Emails
      BY <1>6, UsedTyped, UpdateTyped
    <3> HIDE DEF y, z
    <3>4. "authPut" \in Pcs /\ ReachAt("authPut", req[r], y, ar[r])
      BY <3>2, <3>3 DEF ReachAt, Pcs
    <3>5. QED
      BY <3>1, <3>2, <3>3, <3>4, Values, MoveTyped
  <2>3. HistoryOK'
    BY <1>6 DEF AuthAccepted, history, HistoryOK
  <2>4. QED
    BY <2>1, <2>2, <2>3
<1>7. ASSUME NEW r \in Requests, AuthPut(r)
      PROVE  TypeInv'
  <2>1. StorageOK'
    BY <1>7, Values DEF AuthPut, StorageOK, ReachAt
  <2>2. LocalInv'
    BY <1>7, FinishTyped, ProceedTyped, Values, "handle" \in Pcs
       DEF AuthPut, ReachAt, Pcs
  <2>3. HistoryOK'
    BY <1>7 DEF AuthPut, history, HistoryOK
  <2>4. QED
    BY <2>1, <2>2, <2>3
<1>8. ASSUME NEW r \in Requests, Reject(r)
      PROVE  TypeInv'
  <2>1. StorageOK'
    BY <1>8 DEF Reject, storage, StorageOK
  <2>2. LocalInv'
    BY <1>8, FinishTyped DEF Reject
  <2>3. HistoryOK'
    BY <1>8 DEF Reject, history, HistoryOK
  <2>4. QED
    BY <2>1, <2>2, <2>3
<1>9. ASSUME NEW r \in Requests, NEW e \in Emails, NEW create \in BOOLEAN,
             RequestAuthToken(r, e, create)
      PROVE  TypeInv'
  <2>1. StorageOK'
    BY <1>9 DEF RequestAuthToken, storage, StorageOK
  <2>2. LocalInv'
    <3> DEFINE l == IF create \/ accounts[e] # NoAccount THEN "reqPut" ELSE "reqStore"
               x == [req[r] EXCEPT !.target = e]
    <3>1. Moved(r, l, x, auth[r], acc[r], ar[r])
      BY <1>9 DEF RequestAuthToken, Goto, Moved, RequestsOK, local
    <3>2. l \in Pcs /\ l \in {"reqPut", "reqStore"}
      BY DEF Pcs
    <3>3. x \in RequestValue /\ x.email = req[r].email /\ x.target = e
      BY Values DEF RequestValue
    <3> HIDE DEF l, x
    <3>4. ReachAt(l, x, auth[r], ar[r])
      BY <3>2, <3>3, Values DEF ReachAt
    <3>5. QED
      BY <3>1, <3>2, <3>3, <3>4, Values, MoveTyped
  <2>3. HistoryOK'
    BY <1>9 DEF RequestAuthToken, history, HistoryOK
  <2>4. QED
    BY <2>1, <2>2, <2>3
<1>10. ASSUME NEW r \in Requests, ReqStore(r)
      PROVE  TypeInv'
  <2>1. StorageOK'
    BY <1>10 DEF ReqStore, storage, StorageOK
  <2>2. LocalInv'
    BY <1>10, FinishTyped, ProceedTyped, Values, "reqPut" \in Pcs
       DEF ReqStore, ReachAt, Pcs
  <2>3. HistoryOK'
    BY <1>10 DEF ReqStore, history, HistoryOK
  <2>4. QED
    BY <2>1, <2>2, <2>3
<1>11. ASSUME NEW r \in Requests, NEW i \in Ids, NEW t \in Types, NEW c \in Codes \cup {NoCode},
             ReqPut(r, i, t, c)
      PROVE  TypeInv'
  <2>1. StorageOK'
    <3>1. Mail(r, i, t, c) \in AuthRequest
      BY <1>11, MailTyped DEF ReqPut
    <3>2. QED
      BY <1>11, <3>1 DEF ReqPut, Mail, Without, StorageOK
  <2>2. LocalInv'
    <3> DEFINE w == Mail(r, i, t, c)
    <3>1. CASE Preauth(r)
      BY <1>11, <3>1, FinishTyped DEF ReqPut
    <3>2. CASE ~Preauth(r)
      <4>1. Moved(r, "reqMail", req[r], auth[r], acc[r], w)
        BY <1>11, <3>2 DEF ReqPut, Mail, Goto, Moved, RequestsOK
      <4>2. w \in AuthRequest
        BY <1>11, MailTyped DEF ReqPut
      <4> HIDE DEF w
      <4>3. "reqMail" \in Pcs /\ ReachAt("reqMail", req[r], auth[r], w)
        BY <1>11, <4>2, Values DEF ReqPut, ReachAt, Pcs
      <4>4. QED
        BY <4>1, <4>2, <4>3, Values, MoveTyped
    <3>3. QED
      BY <3>1, <3>2
  <2>3. HistoryOK'
    <3>1. req[r].target \in Emails /\ Key(Mail(r, i, t, c)) \in Keys
      BY <1>11, MailTyped DEF ReqPut
    <3>2. QED
      BY <1>11, <3>1 DEF ReqPut, Mail, HistoryOK
  <2>4. QED
    BY <2>1, <2>2, <2>3
<1>12. ASSUME NEW r \in Requests, ReqMail(r)
      PROVE  TypeInv'
  <2>1. StorageOK'
    BY <1>12 DEF ReqMail, storage, StorageOK
  <2>2. LocalInv'
    BY <1>12, FinishTyped DEF ReqMail
  <2>3. HistoryOK'
    <3>1. Key(ar[r]) \in Keys
      BY <1>12, Values, KeyTyped DEF ReqMail, ReachAt
    <3>2. QED
      BY <1>12, <3>1 DEF ReqMail, HistoryOK
  <2>4. QED
    BY <2>1, <2>2, <2>3
<1>13. ASSUME NEW r \in Requests, ReqDenied(r)
      PROVE  TypeInv'
  <2>1. StorageOK'
    BY <1>13 DEF ReqDenied, storage, StorageOK
  <2>2. LocalInv'
    BY <1>13, FinishTyped DEF ReqDenied
  <2>3. HistoryOK'
    BY <1>13 DEF ReqDenied, history, HistoryOK
  <2>4. QED
    BY <2>1, <2>2, <2>3
<1>14. ASSUME NEW r \in Requests, NEW k \in links, ActivateAuthToken(r, k)
      PROVE  TypeInv'
  <2>1. StorageOK'
    BY <1>14 DEF ActivateAuthToken, storage, StorageOK
  <2>2. LocalInv'
    <3>1. CASE Finish(r)
      BY <3>1, FinishTyped
    <3>2. CASE ~Finish(r)
      <4>1. PICK a \in authRequests : Moved(r, "actGet", req[r], auth[r], acc[r], a)
        BY <1>14, <3>2 DEF ActivateAuthToken, Goto, Moved, RequestsOK
      <4>2. a \in AuthRequest
        BY DEF StorageOK
      <4>3. "actGet" \in Pcs /\ ReachAt("actGet", req[r], auth[r], a)
        BY <4>2, Values DEF ReachAt, Pcs
      <4>4. QED
        BY <4>1, <4>2, <4>3, Values, MoveTyped
    <3>3. QED
      BY <3>1, <3>2
  <2>3. HistoryOK'
    BY <1>14 DEF ActivateAuthToken, history, HistoryOK
  <2>4. QED
    BY <2>1, <2>2, <2>3
<1>15. ASSUME NEW r \in Requests, ActGet(r)
      PROVE  TypeInv'
  <2>1. StorageOK'
    BY <1>15 DEF ActGet, storage, StorageOK
  <2>2. LocalInv'
    <3> DEFINE z == IF accounts[ar[r].email] = NoAccount THEN <<>> ELSE accounts[ar[r].email]
    <3>1. Moved(r, "actPut", req[r], auth[r], z, ar[r])
      BY <1>15 DEF ActGet, Goto, Moved, RequestsOK, local
    <3>2. ar[r] \in AuthRequest /\ ar[r].email \in Emails /\ "actPut" \in Pcs
      BY <1>15, Values DEF ActGet, ReachAt, AuthRequest, Pcs
    <3>3. z \in Seq(Token)
      BY <3>2, Values DEF StorageOK
    <3> HIDE DEF z
    <3>4. ReachAt("actPut", req[r], auth[r], ar[r])
      BY <3>2, Values DEF ReachAt
    <3>5. QED
      BY <3>1, <3>2, <3>3, <3>4, Values, MoveTyped
  <2>3. HistoryOK'
    BY <1>15 DEF ActGet, history, HistoryOK
  <2>4. QED
    BY <2>1, <2>2, <2>3
<1>16. ASSUME NEW r \in Requests, ActRemove(r)
      PROVE  TypeInv'
  <2>1. StorageOK'
    BY <1>16 DEF ActRemove, storage, StorageOK
  <2>2. LocalInv'
    <3>1. Moved(r, pc[r], req[r], auth[r], RemoveAuthToken(acc[r], SameDevice(r)), ar[r])
      BY <1>16 DEF ActRemove, Goto, Moved, RequestsOK, local
    <3>2. /\ pc[r] \in Pcs /\ req[r] \in RequestValue /\ auth[r] \in AuthValue
          /\ RemoveAuthToken(acc[r], SameDevice(r)) \in Seq(Token)
          /\ ar[r] \in AuthRequest \cup {Blank}
      BY <1>16, Values, RemoveTyped DEF ActRemove, Pcs, RequestValue
    <3>3. ReachAt(pc[r], req[r], auth[r], ar[r])
      BY <1>16, Values, RemoveTyped DEF ActRemove, ReachAt
    <3>4. QED
      BY <3>1, <3>2, <3>3, MoveTyped
  <2>3. HistoryOK'
    BY <1>16 DEF ActRemove, history, HistoryOK
  <2>4. QED
    BY <2>1, <2>2, <2>3
<1>17. ASSUME NEW r \in Requests, ActPut(r)
      PROVE  TypeInv'
  <2>1. StorageOK'
    <3>1. ar[r] \in AuthRequest /\ acc[r] \in Seq(Token)
      BY <1>17, Values DEF ActPut, ReachAt
    <3>2. AddAuthToken(acc[r], ar[r].token) \in Seq(Token)
      BY <3>1 DEF AddAuthToken, AuthRequest
    <3>3. QED
      BY <1>17, <3>2 DEF ActPut, StorageOK
  <2>2. LocalInv'
    <3>1. Moved(r, "actDelete", req[r], auth[r], <<>>, ar[r])
      BY <1>17 DEF ActPut, Goto, Moved, RequestsOK, local
    <3>2. /\ "actDelete" \in Pcs /\ req[r] \in RequestValue /\ auth[r] \in AuthValue
          /\ <<>> \in Seq(Token) /\ ar[r] \in AuthRequest \cup {Blank}
      BY <1>17, Values DEF ActPut, Pcs, RequestValue
    <3>3. ReachAt("actDelete", req[r], auth[r], ar[r])
      BY <1>17, Values DEF ActPut, ReachAt
    <3>4. QED
      BY <3>1, <3>2, <3>3, MoveTyped
  <2>3. HistoryOK'
    BY <1>17 DEF ActPut, history, HistoryOK
  <2>4. QED
    BY <2>1, <2>2, <2>3
<1>18. ASSUME NEW r \in Requests, ActDelete(r)
      PROVE  TypeInv'
  <2>1. StorageOK'
    BY <1>18 DEF ActDelete, Without, StorageOK
  <2>2. LocalInv'
    BY <1>18, FinishTyped, ProceedTyped, Values, "actLogin" \in Pcs
       DEF ActDelete, ReachAt, Pcs
  <2>3. HistoryOK'
    BY <1>18 DEF ActDelete, history, HistoryOK
  <2>4. QED
    BY <2>1, <2>2, <2>3
<1>19. ASSUME NEW r \in Requests, NEW i \in Ids, ActLogin(r, i)
      PROVE  TypeInv'
  <2>1. StorageOK'
    BY <1>19 DEF ActLogin, storage, StorageOK
  <2>2. LocalInv'
    <3> DEFINE w == NewAuthRequest(ar[r].email, i, "web", ar[r].token.device, NoCode)
    <3>1. Moved(r, "actGet", req[r], auth[r], acc[r], w)
      BY <1>19 DEF ActLogin, Goto, Moved, RequestsOK
    <3>2. w \in AuthRequest
      BY <1>19, LoginTyped DEF ActLogin
    <3> HIDE DEF w
    <3>3. "actGet" \in Pcs /\ ReachAt("actGet", req[r], auth[r], w)
      BY <3>2, Values DEF Pcs, ReachAt
    <3>4. QED
      BY <3>1, <3>2, <3>3, Values, MoveTyped
  <2>3. HistoryOK'
    BY <1>19, LoginTyped DEF ActLogin, HistoryOK
  <2>4. QED
    BY <2>1, <2>2, <2>3
<1>20. ASSUME NEW r \in Requests, Read(r)
      PROVE  TypeInv'
  <2>1. StorageOK'
    BY <1>20 DEF Read, storage, StorageOK
  <2>2. LocalInv'
    BY <1>20, FinishTyped DEF Read
  <2>3. HistoryOK'
    BY <1>20 DEF Read, history, HistoryOK
  <2>4. QED
    BY <2>1, <2>2, <2>3
<1>21. ASSUME NEW r \in Requests, NEW c \in Contents, WriteStore(r, c)
      PROVE  TypeInv'
  <2>1. StorageOK'
    BY <1>21 DEF WriteStore, storage, StorageOK, Handling
  <2>2. LocalInv'
    BY <1>21, FinishTyped DEF WriteStore
  <2>3. HistoryOK'
    BY <1>21 DEF WriteStore, history, HistoryOK
  <2>4. QED
    BY <2>1, <2>2, <2>3
<1>22. ASSUME NEW r \in Requests, DeleteStore(r)
      PROVE  TypeInv'
  <2>1. StorageOK'
    BY <1>22 DEF DeleteStore, storage, StorageOK, Handling
  <2>2. LocalInv'
    BY <1>22, FinishTyped DEF DeleteStore
  <2>3. HistoryOK'
    BY <1>22 DEF DeleteStore, history, HistoryOK
  <2>4. QED
    BY <2>1, <2>2, <2>3
<1>23. ASSUME NEW r \in Requests, DeleteAccount(r)
      PROVE  TypeInv'
  <2>1. StorageOK'
    BY <1>23 DEF DeleteAccount, storage, StorageOK, Handling
  <2>2. LocalInv'
    BY <1>23, ProceedTyped, Values, Closed, "delAccount" \in Pcs
       DEF DeleteAccount, Handling, ReachAt, Pcs
  <2>3. HistoryOK'
    BY <1>23 DEF DeleteAccount, history, HistoryOK
  <2>4. QED
    BY <2>1, <2>2, <2>3
<1>24. ASSUME NEW r \in Requests, DelAccount(r)
      PROVE  TypeInv'
  <2>1. StorageOK'
    BY <1>24 DEF DelAccount, storage, StorageOK
  <2>2. LocalInv'
    BY <1>24, FinishTyped DEF DelAccount
  <2>3. HistoryOK'
    BY <1>24 DEF DelAccount, history, HistoryOK
  <2>4. QED
    BY <2>1, <2>2, <2>3
<1>25. ASSUME NEW r \in Requests, Logout(r)
      PROVE  TypeInv'
  <2>1. StorageOK'
    <3>1. RemoveAuthToken(acc[r], auth[r]) \in Seq(Token)
      BY Values, RemoveTyped
    <3>2. QED
      BY <1>25, <3>1 DEF Logout, StorageOK
  <2>2. LocalInv'
    BY <1>25, FinishTyped DEF Logout
  <2>3. HistoryOK'
    <3>1. Matching(acc[r], auth[r]) # {} => auth[r].id \in Ids
      <4>1. auth[r] # NoAuth /\ acc[r] \in Seq(Token) /\ auth[r] \in AuthValue
        BY <1>25, Values, Closed DEF Logout, Handling, ReachAt
      <4>2. auth[r].id \in Ids \cup {Skeleton}
        BY <4>1 DEF AuthValue
      <4>3. ASSUME NEW k \in Matching(acc[r], auth[r]) PROVE auth[r].id \in Ids
        <5>1. acc[r][k].id \in Ids
          <6>1. k \in DOMAIN acc[r]
            BY DEF Matching
          <6>2. acc[r][k] \in Token
            BY <4>1, <6>1
          <6>3. QED
            BY <6>2 DEF Token
        <5>2. auth[r].id \in {NoId, acc[r][k].id}
          BY DEF Matching, Matches
        <5>3. QED
          BY <4>2, <5>1, <5>2
      <4>4. QED
        BY <4>3
    <3>2. QED
      BY <1>25, <3>1 DEF Logout, HistoryOK
  <2>4. QED
    BY <2>1, <2>2, <2>3
<1>26. ASSUME NEW r \in Requests, NEW i \in Ids, Revoke(r, i)
      PROVE  TypeInv'
  <2>1. StorageOK'
    BY <1>26, RevokeTyped DEF Revoke, Revoked, StorageOK
  <2>2. LocalInv'
    BY <1>26, FinishTyped DEF Revoke
  <2>3. HistoryOK'
    BY <1>26 DEF Revoke, history, HistoryOK
  <2>4. QED
    BY <2>1, <2>2, <2>3
<1>27. ASSUME NEW r \in Requests, AuthFail(r)
      PROVE  TypeInv'
  <2>1. StorageOK'
    BY <1>27 DEF AuthFail, storage, StorageOK
  <2>2. LocalInv'
    BY <1>27, UnauthenticatedTyped DEF AuthFail
  <2>3. HistoryOK'
    BY <1>27 DEF AuthFail, history, HistoryOK
  <2>4. QED
    BY <2>1, <2>2, <2>3
<1>28. ASSUME NEW r \in Requests, Fail(r)
      PROVE  TypeInv'
  <2>1. StorageOK'
    BY <1>28 DEF Fail, storage, StorageOK
  <2>2. LocalInv'
    BY <1>28, FinishTyped DEF Fail
  <2>3. HistoryOK'
    BY <1>28 DEF Fail, history, HistoryOK
  <2>4. QED
    BY <2>1, <2>2, <2>3
<1>29. ASSUME Crash
      PROVE  TypeInv'
  <2>1. StorageOK' /\ HistoryOK'
    BY <1>29 DEF Crash, storage, StorageOK, HistoryOK
  <2>2. RequestsOK'
    <3>1. NoRequest \in RequestValue /\ NoAuth \in AuthValue /\ "idle" \in Pcs
      BY DEF NoRequest, RequestValue, Devices, AuthValue, Pcs
    <3>2. QED
      BY <1>29, <3>1 DEF Crash, RequestsOK
  <2>3. \A q \in Requests : Reach(q)'
    BY <1>29 DEF Crash, Reach, ReachAt
  <2>4. QED
    BY <2>1, <2>2, <2>3
<1>30. ASSUME CleanStart
      PROVE  TypeInv'
  <2>1. StorageOK'
    BY <1>30 DEF CleanStart, storage, StorageOK
  <2>2. QED
    BY <1>30, <2>1 DEF CleanStart, local, history, RequestsOK, HistoryOK, Reach
<1>31. ASSUME NEW a \in sweep, CleanNext(a)
      PROVE  TypeInv'
  <2>1. StorageOK'
    BY <1>31 DEF CleanNext, Without, StorageOK
  <2>2. QED
    BY <1>31, <2>1 DEF CleanNext, local, history, RequestsOK, HistoryOK, Reach
<1>32. ASSUME Tick
      PROVE  TypeInv'
  <2>1. StorageOK'
    BY <1>32 DEF Tick, storage, StorageOK, StartTime
  <2>2. QED
    BY <1>32, <2>1 DEF Tick, local, history, RequestsOK, HistoryOK, Reach
<1>33. CASE UNCHANGED vars
  BY <1>33
     DEF vars, storage, local, history, StorageOK, RequestsOK, HistoryOK, Reach
<1>34. QED
  BY <1>1, <1>2, <1>3, <1>4, <1>5, <1>6, <1>7, <1>8, <1>9, <1>10, <1>11, <1>12,
     <1>13, <1>14, <1>15, <1>16, <1>17, <1>18, <1>19, <1>20, <1>21, <1>22, <1>23,
     <1>24, <1>25, <1>26, <1>27, <1>28, <1>29, <1>30, <1>31, <1>32, <1>33
     DEF Next, Arriving, Serve, Authenticating, Requesting, Activating, Using

(* Whatever is asked and in whatever order, all state keeps its type.       *)
THEOREM ServiceTypeOK == Spec => []TypeOK
<1>1. TypeInv => TypeOK
  BY DEF TypeInv
<1>2. QED
  BY InitTypeInv, NextTypeInv, <1>1, PTL DEF Spec

-----------------------------------------------------------------------------
(* What the account lock protects.                                          *)

Emailed(r) == req[r].email

(* A request that is past LockAccount holds the lock of its account.        *)
Held(r) ==
    Emailed(r) # NoOne /\ pc[r] \notin {"idle", "lock"} => holder[Emailed(r)] = r

Authenticated(r) == pc[r] = "handle" /\ auth[r] # NoAuth

(* The account it was authenticated against exists until it deletes it.     *)
Present(r) ==
    pc[r] = "authPut" \/ Authenticated(r) => accounts[Emailed(r)] # NoAccount

Emptied(r) == pc[r] = "delAccount" => stores[Emailed(r)] = NoStore

(* An activation that is not of the locked account has exposed the account. *)
OffLock(r) ==
    pc[r] = "actPut" /\ ar[r].email # Emailed(r) => exposed[ar[r].email]

Copied(r) ==
    Authenticated(r) /\ ~exposed[Emailed(r)] => accounts[Emailed(r)] = acc[r]

Own(r) == Present(r) /\ Emptied(r) /\ OffLock(r) /\ Copied(r)

SafeInv ==
    /\ TypeInv
    /\ \A r \in Requests : Held(r) /\ Own(r)
    /\ NoOrphanStore

(* The accounts and stores a step of r may write.                           *)
Writes(r, e) ==
    \/ accounts'[e] = accounts[e] /\ stores'[e] = stores[e]
    \/ /\ Emailed(r) = e
       /\ accounts[e] = NoAccount => accounts'[e] = NoAccount
    \/ /\ pc[r] = "actPut" /\ ar[r].email = e
       /\ accounts'[e] # NoAccount /\ stores'[e] = stores[e]

(* What a step of r between LockAccount and UnlockAccount leaves alone.     *)
Frame(r) ==
    /\ pc[r] \notin {"idle", "lock", "unlock"}
    /\ holder' = holder
    /\ Emailed(r)' = Emailed(r)
    /\ \A q \in Requests \ {r} :
          /\ pc'[q] = pc[q] /\ req'[q] = req[q] /\ auth'[q] = auth[q]
          /\ acc'[q] = acc[q] /\ ar'[q] = ar[q]
    /\ \A e \in Emails : (exposed[e] => exposed'[e]) /\ Writes(r, e)


-----------------------------------------------------------------------------
(* The types of one request and one account.                                *)
LEMMA Typed ==
  ASSUME TypeInv, NEW r \in Requests
  PROVE  /\ pc[r] \in Pcs /\ req[r] \in RequestValue /\ auth[r] \in AuthValue
         /\ acc[r] \in Seq(Token) /\ ar[r] \in AuthRequest \cup {Blank}
         /\ ReachAt(pc[r], req[r], auth[r], ar[r])
         /\ req[r].email \in Emails \cup {NoOne}
<1>1. LocalInv
  BY DEF TypeInv, TypeOK, LocalInv
<1>2. req[r] \in RequestValue
  BY <1>1, Values
<1>3. req[r].email \in Emails \cup {NoOne}
  BY <1>2 DEF RequestValue
<1>4. QED
  BY <1>1, <1>3, Values

LEMMA Stored ==
  ASSUME TypeInv, NEW e \in Emails
  PROVE  accounts[e] \in Seq(Token) \cup {NoAccount} /\ exposed[e] \in BOOLEAN
BY DEF TypeInv, TypeOK, StorageOK, HistoryOK

(* Two requests past LockAccount are not of the same account.               *)
LEMMA Apart ==
  ASSUME SafeInv, NEW r \in Requests, NEW q \in Requests, q # r,
         pc[r] \notin {"idle", "lock"}, pc[q] \notin {"idle", "lock"},
         Emailed(q) \in Emails
  PROVE  Emailed(r) # Emailed(q)
BY DEF SafeInv, Held

(* A framed step keeps what the other requests rely on.                     *)
LEMMA OthersKept ==
  ASSUME SafeInv, NEW r \in Requests, Frame(r), NEW q \in Requests, q # r
  PROVE  Own(q)'
<1> DEFINE e == Emailed(q)
<1>1. /\ pc'[q] = pc[q] /\ Emailed(q)' = e /\ auth'[q] = auth[q]
      /\ acc'[q] = acc[q] /\ ar'[q] = ar[q]
  BY DEF Frame, Emailed
<1>2. ASSUME pc[q] \in {"authPut", "delAccount"} \/ Authenticated(q)
      PROVE  /\ e \in Emails /\ (exposed[e] => exposed'[e])
             /\ \/ accounts'[e] = accounts[e] /\ stores'[e] = stores[e]
                \/ /\ accounts'[e] # NoAccount /\ stores'[e] = stores[e]
                   /\ exposed[e] /\ exposed'[e]
  <2>1. e \in Emails
    BY <1>2, Typed DEF SafeInv, ReachAt, Authenticated, Emailed
  <2>2. Emailed(r) # e
    BY <1>2, <2>1, Apart DEF Frame, Authenticated
  <2>3. pc[r] = "actPut" /\ ar[r].email = e => exposed[e] /\ exposed'[e]
    BY <2>1, <2>2 DEF SafeInv, Own, OffLock, Frame
  <2>4. QED
    BY <2>1, <2>2, <2>3 DEF Frame, Writes
<1>3. Own(q)
  BY DEF SafeInv
<1> HIDE DEF e
<1>4. Present(q)' /\ Emptied(q)' /\ Copied(q)'
  <2>1. Present(q)'
    BY <1>1, <1>2, <1>3 DEF Own, Present, Authenticated, e
  <2>2. Emptied(q)'
    BY <1>1, <1>2, <1>3 DEF Own, Emptied, e
  <2>3. Copied(q)'
    BY <1>1, <1>2, <1>3 DEF Own, Copied, Authenticated, e
  <2>4. QED
    BY <2>1, <2>2, <2>3
<1>5. OffLock(q)'
  <2>1. CASE pc[q] = "actPut" /\ ar[q].email # e
    <3>1. exposed[ar[q].email] /\ ar[q].email \in Emails
      BY <1>3, <2>1, Typed DEF e, Own, OffLock, ReachAt, AuthRequest, SafeInv
    <3>2. QED
      BY <1>1, <3>1 DEF Frame, OffLock
  <2>2. QED
    BY <1>1, <2>1 DEF OffLock, e
<1>6. QED
  BY <1>4, <1>5 DEF Own

LEMMA FrameKept ==
  ASSUME SafeInv, TypeInv', NEW r \in Requests, Frame(r), Own(r)', NoOrphanStore'
  PROVE  SafeInv'
<1>1. ASSUME NEW q \in Requests PROVE Own(q)'
  BY <1>1, OthersKept
<1>2. ASSUME NEW q \in Requests PROVE Held(q)'
  <2>1. Emailed(q)' = Emailed(q) /\ holder' = holder
    BY DEF Frame, Emailed
  <2>2. pc'[q] \notin {"idle", "lock"} => pc[q] \notin {"idle", "lock"}
    BY DEF Frame
  <2>3. QED
    BY <2>1, <2>2 DEF SafeInv, Held
<1>3. QED
  BY <1>1, <1>2 DEF SafeInv

(* At the end of a handler nothing is left to rely on.                      *)
LEMMA FinishOwn ==
  ASSUME TypeInv, NEW r \in Requests, Finish(r)
  PROVE  /\ Own(r)' /\ Emailed(r)' = Emailed(r)
         /\ \A q \in Requests \ {r} :
              /\ pc'[q] = pc[q] /\ req'[q] = req[q] /\ auth'[q] = auth[q]
              /\ acc'[q] = acc[q] /\ ar'[q] = ar[q]
<1>1. pc'[r] \in {"idle", "unlock"} /\ Emailed(r)' = Emailed(r)
  BY DEF Finish, Goto, TypeInv, TypeOK, RequestsOK, Emailed, NoRequest
<1>2. Own(r)'
  BY <1>1 DEF Own, Present, Emptied, OffLock, Copied, Authenticated
<1>3. \A q \in Requests \ {r} :
              /\ pc'[q] = pc[q] /\ req'[q] = req[q] /\ auth'[q] = auth[q]
              /\ acc'[q] = acc[q] /\ ar'[q] = ar[q]
  BY DEF Finish, Goto, TypeInv, TypeOK, RequestsOK
<1>4. QED
  BY <1>1, <1>2, <1>3

-----------------------------------------------------------------------------
Acting(r) ==
    \/ Authenticating(r) \/ Reject(r) \/ Requesting(r) \/ Activating(r)
    \/ Using(r) \/ AuthFail(r) \/ Fail(r)

(* A request without a valid token owns nothing.                            *)
LEMMA UnauthenticatedOwn ==
  ASSUME TypeInv, NEW r \in Requests, Unauthenticated(r)
  PROVE  Own(r)'
<1>1. CASE Goto(r, "handle") /\ auth' = [auth EXCEPT ![r] = NoAuth]
  <2>1. pc'[r] = "handle" /\ auth'[r] = NoAuth
    BY <1>1 DEF Goto, TypeInv, TypeOK, RequestsOK
  <2>2. QED
    BY <2>1 DEF Own, Present, Emptied, OffLock, Copied, Authenticated
<1>2. CASE Finish(r)
  BY <1>2, FinishOwn
<1>3. QED
  BY <1>1, <1>2 DEF Unauthenticated

(* Each step of a handler is framed, and keeps what the request relies on.  *)
LEMMA Acts ==
  ASSUME SafeInv, NEW r \in Requests, Acting(r)
  PROVE  Frame(r) /\ Own(r)' /\ NoOrphanStore'
<1> USE DEF SafeInv, Emailed
<1>a. TypeOK /\ StorageOK /\ RequestsOK /\ HistoryOK
  BY DEF TypeInv, TypeOK
<1>b. /\ req[r].email \in Emails \cup {NoOne}
      /\ auth[r] # NoAuth => req[r].email \in Emails
  BY Typed DEF ReachAt
<1>c. /\ pc[r] = "authPut" \/ Authenticated(r) => accounts[req[r].email] # NoAccount
      /\ pc[r] = "delAccount" =>
            stores[req[r].email] = NoStore /\ req[r].email \in Emails
  BY Typed DEF Own, Present, Emptied, ReachAt
<1>d. ASSUME pc[r] = "handle", AuthType(req[r].op) # ""
      PROVE  Authenticated(r) /\ req[r].email \in Emails
  BY <1>b, <1>d, Typed DEF Authenticated, ReachAt
<1>e. pc[r] = "authPut" => req[r].email \in Emails
  BY Typed DEF ReachAt
<1>1. ASSUME AuthRefused(r)
      PROVE  Frame(r) /\ Own(r)' /\ NoOrphanStore'
  <2>1. Frame(r)
    BY <1>1, <1>a, <1>b, FinishOwn
       DEF AuthRefused, Frame, Writes, RequestsOK, Goto, local, storage, history,
           Unauthenticated
  <2>2. Own(r)'
    BY <1>1, UnauthenticatedOwn DEF AuthRefused
  <2>3. NoOrphanStore'
    BY <1>1, <1>a, <1>b DEF AuthRefused, NoOrphanStore, storage
  <2>4. QED
    BY <2>1, <2>2, <2>3
<1>2. ASSUME AuthSkeleton(r)
      PROVE  Frame(r) /\ Own(r)' /\ NoOrphanStore'
  <2>1. Frame(r)
    BY <1>2, <1>a, <1>b
       DEF AuthSkeleton, Frame, Writes, RequestsOK, Goto, local, storage, history
  <2>2. Own(r)'
    BY <1>2, <1>a, <1>b
       DEF AuthSkeleton, Own, Present, Emptied, OffLock, Copied, Authenticated,
           RequestsOK, Goto, local, storage, history
  <2>3. NoOrphanStore'
    BY <1>2, <1>a, <1>b DEF AuthSkeleton, NoOrphanStore, storage
  <2>4. QED
    BY <2>1, <2>2, <2>3
<1>3. ASSUME AuthAccepted(r)
      PROVE  Frame(r) /\ Own(r)' /\ NoOrphanStore'
  <2>1. Frame(r)
    BY <1>3, <1>a, <1>b
       DEF AuthAccepted, Frame, Writes, RequestsOK, Goto, local, storage, history
  <2>2. Own(r)'
    BY <1>3, <1>a, <1>b
       DEF AuthAccepted, Own, Present, Emptied, OffLock, Copied, Authenticated,
           RequestsOK, Goto, local, storage, history
  <2>3. NoOrphanStore'
    BY <1>3, <1>a, <1>b DEF AuthAccepted, NoOrphanStore, storage
  <2>4. QED
    BY <2>1, <2>2, <2>3
<1>4. ASSUME AuthPut(r)
      PROVE  Frame(r) /\ Own(r)' /\ NoOrphanStore'
  <2>a. acc[r] \in Seq(Token) /\ acc[r] # NoAccount
    BY Typed
  <2>1. Frame(r)
    BY <1>4, <1>a, <1>b, <1>c, <1>e, <2>a, FinishOwn
       DEF AuthPut, Frame, Writes, RequestsOK, Goto, local, storage, history,
           Proceed, StorageOK
  <2>2. Own(r)'
    BY <1>4, <1>a, <1>b, <1>c, <1>e, <2>a, FinishOwn
       DEF AuthPut, Own, Present, Emptied, OffLock, Copied, Authenticated,
           RequestsOK, Goto, local, storage, history, Proceed, StorageOK
  <2>3. NoOrphanStore'
    BY <1>4, <1>a, <1>b, <1>c, <1>e, <2>a
       DEF AuthPut, NoOrphanStore, storage, StorageOK
  <2>4. QED
    BY <2>1, <2>2, <2>3
<1>5. ASSUME Reject(r)
      PROVE  Frame(r) /\ Own(r)' /\ NoOrphanStore'
  <2>1. Frame(r)
    BY <1>5, <1>a, <1>b, FinishOwn
       DEF Reject, Frame, Writes, RequestsOK, Goto, local, storage, history
  <2>2. Own(r)'
    BY <1>5, <1>a, <1>b, FinishOwn
       DEF Reject, Own, Present, Emptied, OffLock, Copied, Authenticated,
           RequestsOK, Goto, local, storage, history
  <2>3. NoOrphanStore'
    BY <1>5, <1>a, <1>b DEF Reject, NoOrphanStore, storage
  <2>4. QED
    BY <2>1, <2>2, <2>3
<1>6. ASSUME NEW e \in Emails, NEW create \in BOOLEAN, RequestAuthToken(r, e, create)
      PROVE  Frame(r) /\ Own(r)' /\ NoOrphanStore'
  <2>1. Frame(r)
    BY <1>6, <1>a, <1>b
       DEF RequestAuthToken, Frame, Writes, RequestsOK, Goto, local, storage,
           history, Handling
  <2>2. Own(r)'
    BY <1>6, <1>a, <1>b
       DEF RequestAuthToken, Own, Present, Emptied, OffLock, Copied, Authenticated,
           RequestsOK, Goto, local, storage, history, Handling
  <2>3. NoOrphanStore'
    BY <1>6, <1>a, <1>b DEF RequestAuthToken, NoOrphanStore, storage
  <2>4. QED
    BY <2>1, <2>2, <2>3
<1>7. ASSUME ReqStore(r)
      PROVE  Frame(r) /\ Own(r)' /\ NoOrphanStore'
  <2>1. Frame(r)
    BY <1>7, <1>a, <1>b, FinishOwn
       DEF ReqStore, Frame, Writes, RequestsOK, Goto, local, storage, history,
           Proceed
  <2>2. Own(r)'
    BY <1>7, <1>a, <1>b, FinishOwn
       DEF ReqStore, Own, Present, Emptied, OffLock, Copied, Authenticated,
           RequestsOK, Goto, local, storage, history, Proceed
  <2>3. NoOrphanStore'
    BY <1>7, <1>a, <1>b DEF ReqStore, NoOrphanStore, storage
  <2>4. QED
    BY <2>1, <2>2, <2>3
<1>8. ASSUME NEW i \in Ids, NEW t \in Types, NEW c \in Codes \cup {NoCode}, ReqPut(r, i, t, c)
      PROVE  Frame(r) /\ Own(r)' /\ NoOrphanStore'
  <2>1. Frame(r)
    BY <1>8, <1>a, <1>b, FinishOwn
       DEF ReqPut, Frame, Writes, RequestsOK, Goto, local, storage, history
  <2>2. Own(r)'
    BY <1>8, <1>a, <1>b, FinishOwn
       DEF ReqPut, Own, Present, Emptied, OffLock, Copied, Authenticated,
           RequestsOK, Goto, local, storage, history
  <2>3. NoOrphanStore'
    BY <1>8, <1>a, <1>b DEF ReqPut, NoOrphanStore, storage
  <2>4. QED
    BY <2>1, <2>2, <2>3
<1>9. ASSUME ReqMail(r)
      PROVE  Frame(r) /\ Own(r)' /\ NoOrphanStore'
  <2>1. Frame(r)
    BY <1>9, <1>a, <1>b, FinishOwn
       DEF ReqMail, Frame, Writes, RequestsOK, Goto, local, storage, history
  <2>2. Own(r)'
    BY <1>9, <1>a, <1>b, FinishOwn
       DEF ReqMail, Own, Present, Emptied, OffLock, Copied, Authenticated,
           RequestsOK, Goto, local, storage, history
  <2>3. NoOrphanStore'
    BY <1>9, <1>a, <1>b DEF ReqMail, NoOrphanStore, storage
  <2>4. QED
    BY <2>1, <2>2, <2>3
<1>10. ASSUME ReqDenied(r)
      PROVE  Frame(r) /\ Own(r)' /\ NoOrphanStore'
  <2>1. Frame(r)
    BY <1>10, <1>a, <1>b, FinishOwn
       DEF ReqDenied, Frame, Writes, RequestsOK, Goto, local, storage, history
  <2>2. Own(r)'
    BY <1>10, <1>a, <1>b, FinishOwn
       DEF ReqDenied, Own, Present, Emptied, OffLock, Copied, Authenticated,
           RequestsOK, Goto, local, storage, history
  <2>3. NoOrphanStore'
    BY <1>10, <1>a, <1>b DEF ReqDenied, NoOrphanStore, storage
  <2>4. QED
    BY <2>1, <2>2, <2>3
<1>11. ASSUME NEW k \in links, ActivateAuthToken(r, k)
      PROVE  Frame(r) /\ Own(r)' /\ NoOrphanStore'
  <2>1. Frame(r)
    BY <1>11, <1>a, <1>b, FinishOwn
       DEF ActivateAuthToken, Frame, Writes, RequestsOK, Goto, local, storage,
           history, Handling
  <2>2. Own(r)'
    BY <1>11, <1>a, <1>b, FinishOwn
       DEF ActivateAuthToken, Own, Present, Emptied, OffLock, Copied, Authenticated,
           RequestsOK, Goto, local, storage, history, Handling
  <2>3. NoOrphanStore'
    BY <1>11, <1>a, <1>b DEF ActivateAuthToken, NoOrphanStore, storage
  <2>4. QED
    BY <2>1, <2>2, <2>3
<1>12. ASSUME ActGet(r)
      PROVE  Frame(r) /\ Own(r)' /\ NoOrphanStore'
  <2>a. ar[r] \in AuthRequest /\ ar[r].email \in Emails
    BY <1>12, Typed DEF ActGet, ReachAt, AuthRequest
  <2>1. Frame(r)
    BY <1>12, <1>a, <1>b, <2>a
       DEF ActGet, Frame, Writes, RequestsOK, Goto, local, storage, history,
           HistoryOK, Cut, Holds
  <2>2. Own(r)'
    BY <1>12, <1>a, <1>b, <2>a
       DEF ActGet, Own, Present, Emptied, OffLock, Copied, Authenticated,
           RequestsOK, Goto, local, storage, history, HistoryOK, Cut, Holds
  <2>3. NoOrphanStore'
    BY <1>12, <1>a, <1>b, <2>a DEF ActGet, NoOrphanStore, storage
  <2>4. QED
    BY <2>1, <2>2, <2>3
<1>13. ASSUME ActRemove(r)
      PROVE  Frame(r) /\ Own(r)' /\ NoOrphanStore'
  <2>1. Frame(r)
    BY <1>13, <1>a, <1>b
       DEF ActRemove, Frame, Writes, RequestsOK, Goto, local, storage, history
  <2>2. Own(r)'
    BY <1>13, <1>a, <1>b
       DEF ActRemove, Own, Present, Emptied, OffLock, Copied, Authenticated,
           RequestsOK, Goto, local, storage, history
  <2>3. NoOrphanStore'
    BY <1>13, <1>a, <1>b DEF ActRemove, NoOrphanStore, storage
  <2>4. QED
    BY <2>1, <2>2, <2>3
<1>14. ASSUME ActPut(r)
      PROVE  Frame(r) /\ Own(r)' /\ NoOrphanStore'
  <2>a. ar[r].email \in Emails /\ AddAuthToken(acc[r], ar[r].token) # NoAccount
    <3>1. acc[r] \in Seq(Token) /\ ar[r] \in AuthRequest
      BY <1>14, Typed DEF ActPut, ReachAt
    <3>2. AddAuthToken(acc[r], ar[r].token) \in Seq(Token) /\ ar[r].email \in Emails
      BY <3>1 DEF AddAuthToken, AuthRequest
    <3>3. QED
      BY <3>2
  <2>1. Frame(r)
    BY <1>14, <1>a, <1>b, <2>a
       DEF ActPut, Frame, Writes, RequestsOK, Goto, local, storage, history,
           StorageOK
  <2>2. Own(r)'
    BY <1>14, <1>a, <1>b, <2>a
       DEF ActPut, Own, Present, Emptied, OffLock, Copied, Authenticated,
           RequestsOK, Goto, local, storage, history, StorageOK
  <2>3. NoOrphanStore'
    BY <1>14, <1>a, <1>b, <2>a DEF ActPut, NoOrphanStore, storage, StorageOK
  <2>4. QED
    BY <2>1, <2>2, <2>3
<1>15. ASSUME ActDelete(r)
      PROVE  Frame(r) /\ Own(r)' /\ NoOrphanStore'
  <2>1. Frame(r)
    BY <1>15, <1>a, <1>b, FinishOwn
       DEF ActDelete, Frame, Writes, RequestsOK, Goto, local, storage, history,
           Proceed
  <2>2. Own(r)'
    BY <1>15, <1>a, <1>b, FinishOwn
       DEF ActDelete, Own, Present, Emptied, OffLock, Copied, Authenticated,
           RequestsOK, Goto, local, storage, history, Proceed
  <2>3. NoOrphanStore'
    BY <1>15, <1>a, <1>b DEF ActDelete, NoOrphanStore, storage
  <2>4. QED
    BY <2>1, <2>2, <2>3
<1>16. ASSUME NEW i \in Ids, ActLogin(r, i)
      PROVE  Frame(r) /\ Own(r)' /\ NoOrphanStore'
  <2>1. Frame(r)
    BY <1>16, <1>a, <1>b
       DEF ActLogin, Frame, Writes, RequestsOK, Goto, local, storage, history
  <2>2. Own(r)'
    BY <1>16, <1>a, <1>b
       DEF ActLogin, Own, Present, Emptied, OffLock, Copied, Authenticated,
           RequestsOK, Goto, local, storage, history
  <2>3. NoOrphanStore'
    BY <1>16, <1>a, <1>b DEF ActLogin, NoOrphanStore, storage
  <2>4. QED
    BY <2>1, <2>2, <2>3
<1>17. ASSUME Read(r)
      PROVE  Frame(r) /\ Own(r)' /\ NoOrphanStore'
  <2>1. Frame(r)
    BY <1>17, <1>a, <1>b, FinishOwn
       DEF Read, Frame, Writes, RequestsOK, Goto, local, storage, history
  <2>2. Own(r)'
    BY <1>17, <1>a, <1>b, FinishOwn
       DEF Read, Own, Present, Emptied, OffLock, Copied, Authenticated, RequestsOK,
           Goto, local, storage, history
  <2>3. NoOrphanStore'
    BY <1>17, <1>a, <1>b DEF Read, NoOrphanStore, storage
  <2>4. QED
    BY <2>1, <2>2, <2>3
<1>18. ASSUME NEW c \in Contents, WriteStore(r, c)
      PROVE  Frame(r) /\ Own(r)' /\ NoOrphanStore'
  <2>a. Authenticated(r) /\ req[r].email \in Emails
    BY <1>18, <1>d, Closed DEF WriteStore, Handling
  <2>1. Frame(r)
    BY <1>18, <1>a, <1>b, <1>c, <2>a, FinishOwn
       DEF WriteStore, Frame, Writes, RequestsOK, Goto, local, storage, history,
           Handling, StorageOK
  <2>2. Own(r)'
    BY <1>18, <1>a, <1>b, <1>c, <2>a, FinishOwn
       DEF WriteStore, Own, Present, Emptied, OffLock, Copied, Authenticated,
           RequestsOK, Goto, local, storage, history, Handling, StorageOK
  <2>3. NoOrphanStore'
    BY <1>18, <1>a, <1>b, <1>c, <2>a
       DEF WriteStore, NoOrphanStore, storage, StorageOK
  <2>4. QED
    BY <2>1, <2>2, <2>3
<1>19. ASSUME DeleteStore(r)
      PROVE  Frame(r) /\ Own(r)' /\ NoOrphanStore'
  <2>1. Frame(r)
    BY <1>19, <1>a, <1>b, FinishOwn
       DEF DeleteStore, Frame, Writes, RequestsOK, Goto, local, storage, history,
           Handling, StorageOK
  <2>2. Own(r)'
    BY <1>19, <1>a, <1>b, FinishOwn
       DEF DeleteStore, Own, Present, Emptied, OffLock, Copied, Authenticated,
           RequestsOK, Goto, local, storage, history, Handling, StorageOK
  <2>3. NoOrphanStore'
    BY <1>19, <1>a, <1>b DEF DeleteStore, NoOrphanStore, storage, StorageOK
  <2>4. QED
    BY <2>1, <2>2, <2>3
<1>20. ASSUME DeleteAccount(r)
      PROVE  Frame(r) /\ Own(r)' /\ NoOrphanStore'
  <2>a. Authenticated(r) /\ req[r].email \in Emails
    BY <1>20, <1>d, Closed DEF DeleteAccount, Handling
  <2>1. Frame(r)
    BY <1>20, <1>a, <1>b, <2>a
       DEF DeleteAccount, Frame, Writes, RequestsOK, Goto, local, storage, history,
           Proceed, Handling, StorageOK
  <2>2. Own(r)'
    BY <1>20, <1>a, <1>b, <2>a
       DEF DeleteAccount, Own, Present, Emptied, OffLock, Copied, Authenticated,
           RequestsOK, Goto, local, storage, history, Proceed, Handling, StorageOK
  <2>3. NoOrphanStore'
    BY <1>20, <1>a, <1>b, <2>a DEF DeleteAccount, NoOrphanStore, storage, StorageOK
  <2>4. QED
    BY <2>1, <2>2, <2>3
<1>21. ASSUME DelAccount(r)
      PROVE  Frame(r) /\ Own(r)' /\ NoOrphanStore'
  <2>1. Frame(r)
    BY <1>21, <1>a, <1>b, <1>c, FinishOwn
       DEF DelAccount, Frame, Writes, RequestsOK, Goto, local, storage, history,
           StorageOK
  <2>2. Own(r)'
    BY <1>21, <1>a, <1>b, <1>c, FinishOwn
       DEF DelAccount, Own, Present, Emptied, OffLock, Copied, Authenticated,
           RequestsOK, Goto, local, storage, history, StorageOK
  <2>3. NoOrphanStore'
    BY <1>21, <1>a, <1>b, <1>c DEF DelAccount, NoOrphanStore, storage, StorageOK
  <2>4. QED
    BY <2>1, <2>2, <2>3
<1>22. ASSUME Logout(r)
      PROVE  Frame(r) /\ Own(r)' /\ NoOrphanStore'
  <2>a. /\ Authenticated(r) /\ req[r].email \in Emails
        /\ RemoveAuthToken(acc[r], auth[r]) # NoAccount
    <3>1. RemoveAuthToken(acc[r], auth[r]) \in Seq(Token)
      BY Typed, RemoveTyped
    <3>2. QED
      BY <1>22, <1>d, <3>1, Closed DEF Logout, Handling
  <2>1. Frame(r)
    BY <1>22, <1>a, <1>b, <1>c, <2>a, FinishOwn
       DEF Logout, Frame, Writes, RequestsOK, Goto, local, storage, history,
           Handling, StorageOK
  <2>2. Own(r)'
    BY <1>22, <1>a, <1>b, <1>c, <2>a, FinishOwn
       DEF Logout, Own, Present, Emptied, OffLock, Copied, Authenticated,
           RequestsOK, Goto, local, storage, history, Handling, StorageOK
  <2>3. NoOrphanStore'
    BY <1>22, <1>a, <1>b, <1>c, <2>a DEF Logout, NoOrphanStore, storage, StorageOK
  <2>4. QED
    BY <2>1, <2>2, <2>3
<1>23. ASSUME NEW i \in Ids, Revoke(r, i)
      PROVE  Frame(r) /\ Own(r)' /\ NoOrphanStore'
  <2>a. /\ Authenticated(r) /\ req[r].email \in Emails
        /\ Revoked(r, i) # NoAccount
        /\ accounts' = [accounts EXCEPT ![req[r].email] = Revoked(r, i)]
    <3>1. Revoked(r, i) \in Seq(Token)
      BY <1>23, RevokeTyped
    <3>2. QED
      BY <1>23, <1>d, <3>1, Closed DEF Revoke, Handling, Revoked
  <2>1. Frame(r)
    BY <1>23, <1>a, <1>b, <1>c, <2>a, FinishOwn
       DEF Revoke, Frame, Writes, RequestsOK, Goto, local, storage, history,
           Handling, StorageOK
  <2>2. Own(r)'
    BY <1>23, <1>a, <1>b, <1>c, <2>a, FinishOwn
       DEF Revoke, Own, Present, Emptied, OffLock, Copied, Authenticated,
           RequestsOK, Goto, local, storage, history, Handling, StorageOK
  <2>3. NoOrphanStore'
    BY <1>23, <1>a, <1>b, <1>c, <2>a DEF Revoke, NoOrphanStore, storage, StorageOK
  <2>4. QED
    BY <2>1, <2>2, <2>3
<1>24. ASSUME AuthFail(r)
      PROVE  Frame(r) /\ Own(r)' /\ NoOrphanStore'
  <2>1. Frame(r)
    BY <1>24, <1>a, <1>b, FinishOwn
       DEF AuthFail, Frame, Writes, RequestsOK, Goto, local, storage, history,
           Unauthenticated
  <2>2. Own(r)'
    BY <1>24, UnauthenticatedOwn DEF AuthFail
  <2>3. NoOrphanStore'
    BY <1>24, <1>a, <1>b DEF AuthFail, NoOrphanStore, storage
  <2>4. QED
    BY <2>1, <2>2, <2>3
<1>25. ASSUME Fail(r)
      PROVE  Frame(r) /\ Own(r)' /\ NoOrphanStore'
  <2>1. Frame(r)
    BY <1>25, <1>a, <1>b, FinishOwn
       DEF Fail, Frame, Writes, RequestsOK, Goto, local, storage, history,
           HistoryOK, Cut
  <2>2. Own(r)'
    BY <1>25, <1>a, <1>b, FinishOwn
       DEF Fail, Own, Present, Emptied, OffLock, Copied, Authenticated, RequestsOK,
           Goto, local, storage, history, HistoryOK, Cut
  <2>3. NoOrphanStore'
    BY <1>25, <1>a, <1>b DEF Fail, NoOrphanStore, storage
  <2>4. QED
    BY <2>1, <2>2, <2>3
<1>26. QED
  BY <1>1, <1>2, <1>3, <1>4, <1>5, <1>6, <1>7, <1>8, <1>9, <1>10, <1>11, <1>12,
     <1>13, <1>14, <1>15, <1>16, <1>17, <1>18, <1>19, <1>20, <1>21, <1>22, <1>23,
     <1>24, <1>25
     DEF Acting, Authenticating, Requesting, Activating, Using

-----------------------------------------------------------------------------
LEMMA InitSafeInv == Init => SafeInv
<1> SUFFICES ASSUME Init PROVE SafeInv
  OBVIOUS
<1>1. TypeInv
  BY InitTypeInv
<1>2. \A r \in Requests : pc[r] = "idle"
  BY DEF Init
<1>3. \A r \in Requests : Held(r) /\ Own(r)
  BY <1>2 DEF Held, Own, Present, Emptied, OffLock, Copied, Authenticated
<1>4. NoOrphanStore
  BY DEF Init, NoOrphanStore
<1>5. QED
  BY <1>1, <1>3, <1>4 DEF SafeInv

(* What the other steps change touches nothing a handler relies on.         *)
LEMMA NextSafeInv == SafeInv /\ [Next]_vars => SafeInv'
<1> SUFFICES ASSUME SafeInv, [Next]_vars PROVE SafeInv'
  OBVIOUS
<1>1. TypeInv'
  BY NextTypeInv DEF SafeInv
<1>a. TypeOK /\ RequestsOK /\ HistoryOK
  BY DEF SafeInv, TypeInv, TypeOK
<1> USE DEF Held, Own, Present, Emptied, OffLock, Copied, Authenticated, Emailed
<1>2. ASSUME NEW r \in Requests, Acting(r) PROVE SafeInv'
  BY <1>1, <1>2, Acts, FrameKept
<1>3. ASSUME NEW r \in Requests, Arriving(r) PROVE SafeInv'
  <2>1. PICK op \in Ops, e \in Emails \cup {NoOne}, i \in Ids \cup {Skeleton, NoId},
             d \in Clients : Arrive(r, op, e, i, d)
    BY <1>3 DEF Arriving
  <2>2. NoOrphanStore'
    BY <2>1 DEF Arrive, storage, NoOrphanStore, SafeInv
  <2>3. auth[r] = NoAuth
    BY <2>1, Typed DEF Arrive, ReachAt, SafeInv
  <2>4. ASSUME NEW q \in Requests PROVE Held(q)' /\ Own(q)'
    <3>1. CASE q = r
      BY <1>a, <2>1, <2>3, <3>1 DEF Arrive, Goto, RequestsOK
    <3>2. CASE q # r
      BY <1>a, <2>1, <3>2 DEF Arrive, Goto, RequestsOK, SafeInv, storage, history
    <3>3. QED
      BY <3>1, <3>2
  <2>5. QED
    BY <1>1, <2>2, <2>4 DEF SafeInv
<1>4. ASSUME NEW r \in Requests, LockAccount(r) PROVE SafeInv'
  <2>1. NoOrphanStore'
    BY <1>4 DEF LockAccount, storage, NoOrphanStore, SafeInv
  <2>2. req[r].email \in Emails
    BY <1>4, Typed DEF LockAccount, ReachAt, SafeInv
  <2>3. ASSUME NEW q \in Requests PROVE Own(q)'
    BY <1>a, <1>4
       DEF LockAccount, Goto, RequestsOK, SafeInv, storage, history, local
  <2>4. ASSUME NEW q \in Requests PROVE Held(q)'
    BY <1>a, <1>4, <2>2 DEF LockAccount, Goto, RequestsOK, HistoryOK, SafeInv, local
  <2>5. QED
    BY <1>1, <2>1, <2>3, <2>4 DEF SafeInv
<1>5. ASSUME NEW r \in Requests, UnlockAccount(r) PROVE SafeInv'
  <2>1. NoOrphanStore'
    BY <1>5 DEF UnlockAccount, storage, NoOrphanStore, SafeInv
  <2>2. ASSUME NEW q \in Requests PROVE Own(q)'
    BY <1>a, <1>5 DEF UnlockAccount, Goto, RequestsOK, SafeInv, storage, history
  <2>3. ASSUME NEW q \in Requests PROVE Held(q)'
    <3>1. CASE q = r
      BY <1>a, <1>5, <3>1 DEF UnlockAccount, Goto, RequestsOK
    <3>2. CASE q # r
      <4>1. pc'[q] = pc[q] /\ req'[q] = req[q]
        BY <1>a, <1>5, <3>2 DEF UnlockAccount, Goto, RequestsOK
      <4>2. ASSUME req[q].email # NoOne, pc[q] \notin {"idle", "lock"}
            PROVE  holder'[req[q].email] = q
        <5>1. req[q].email \in Emails /\ holder[req[q].email] = q
          BY <4>2, Typed DEF SafeInv
        <5>2. req[r].email # req[q].email
          BY <1>5, <3>2, <4>2, <5>1, Apart DEF UnlockAccount
        <5>3. QED
          BY <1>5, <5>1, <5>2 DEF UnlockAccount, Holds
      <4>3. QED
        BY <4>1, <4>2
    <3>3. QED
      BY <3>1, <3>2
  <2>4. QED
    BY <1>1, <2>1, <2>2, <2>3 DEF SafeInv
<1>6. CASE Crash
  <2>1. NoOrphanStore'
    BY <1>6 DEF Crash, storage, NoOrphanStore, SafeInv
  <2>2. \A q \in Requests : Held(q)' /\ Own(q)'
    BY <1>6 DEF Crash
  <2>3. QED
    BY <1>1, <2>1, <2>2 DEF SafeInv
<1>7. CASE \/ CleanStart \/ Tick \/ UNCHANGED vars
           \/ \E a \in sweep : CleanNext(a)
  <2>1. UNCHANGED <<accounts, stores, holder, pc, local, exposed>>
    BY <1>7 DEF CleanStart, CleanNext, Tick, vars, storage, history
  <2>2. NoOrphanStore'
    BY <2>1 DEF NoOrphanStore, SafeInv
  <2>3. \A q \in Requests : Held(q)' /\ Own(q)'
    BY <2>1 DEF SafeInv, local
  <2>4. QED
    BY <1>1, <2>2, <2>3 DEF SafeInv
<1>8. QED
  BY <1>2, <1>3, <1>4, <1>5, <1>6, <1>7 DEF Next, Serve, Acting

LEMMA Safe == Spec => []SafeInv
  BY InitSafeInv, NextSafeInv, PTL DEF Spec

(* server.go:155 and middleware.go:70: no data is left behind without its   *)
(* account, whatever requests race and wherever the process dies.           *)
THEOREM ServiceNoOrphanStore == Spec => []NoOrphanStore
<1>1. SafeInv => NoOrphanStore
  BY DEF SafeInv
<1>2. QED
  BY Safe, <1>1, PTL

(* middleware.go:70: the account an authenticated handler works on is the   *)
(* stored one, unless an activation went past the lock.                     *)
THEOREM ServiceCopyIsCurrent == Spec => []CopyIsCurrent
<1>1. SafeInv => CopyIsCurrent
  BY DEF SafeInv, Own, Copied, Authenticated, Emailed, CopyIsCurrent
<1>2. QED
  BY Safe, <1>1, PTL

(* handler.go:216: no request that was under way when the account was       *)
(* deleted writes it back; only an activation makes an account.             *)
THEOREM ServiceOnlyActivationCreates == Spec => OnlyActivationCreates
<1> DEFINE Created(e) == /\ accounts[e] = NoAccount /\ accounts'[e] # NoAccount
                         /\ ~\E r \in Requests : pc[r] = "actPut" /\ ar[r].email = e
<1>1. ASSUME SafeInv, [Next]_vars, NEW e \in Emails PROVE ~Created(e)
  <2>1. ASSUME NEW r \in Requests, Acting(r) PROVE ~Created(e)
    <3>1. Writes(r, e)
      BY <1>1, <2>1, Acts DEF Frame
    <3>2. QED
      BY <3>1 DEF Writes
  <2>2. ASSUME ~\E r \in Requests : Acting(r) PROVE accounts' = accounts
    BY <1>1, <2>2
       DEF Next, Arriving, Arrive, Serve, Acting, LockAccount, UnlockAccount, Crash,
           CleanStart, CleanNext, Tick, vars, storage
  <2>3. QED
    BY <2>1, <2>2
<1>2. SafeInv /\ [Next]_vars =>
        [\A e \in Emails : accounts[e] = NoAccount /\ accounts'[e] # NoAccount
            => \E r \in Requests : pc[r] = "actPut" /\ ar[r].email = e]_vars
  BY <1>1
<1>3. QED
  BY Safe, <1>2, PTL DEF Spec, OnlyActivationCreates

-----------------------------------------------------------------------------
(* A step of the service is a step of the abstract mutex of its accounts.   *)
LEMMA StepUsesMutex ==
  ASSUME SafeInv, [Next]_vars
  PROVE  [Mutex!MutexNext]_(Mutex!mutexVars)
<1> DEFINE Inside == [e \in Emails |-> {holder[e]} \ {NoOne}]
<1>a. holder \in [Emails -> Requests \cup {NoOne}]
  BY DEF SafeInv, TypeInv, TypeOK, HistoryOK
<1>1. ASSUME NEW r \in Requests, LockAccount(r)
      PROVE  \E e \in Emails : Mutex!Enter(r, e)
  <2>1. PICK e \in Emails : e = req[r].email
    BY <1>1, Typed DEF LockAccount, ReachAt, SafeInv
  <2>2. holder[e] = NoOne /\ holder' = [holder EXCEPT ![e] = r]
    BY <1>1, <2>1 DEF LockAccount
  <2>3. Mutex!Enter(r, e)
    BY <1>a, <2>2 DEF Mutex!Enter
  <2>4. QED
    BY <2>3
<1>2. ASSUME NEW r \in Requests, UnlockAccount(r)
      PROVE  \/ \E e \in Emails : Mutex!Leave(r, e)
             \/ UNCHANGED Inside
  <2>1. CASE req[r].email = NoOne
    BY <1>2, <1>a, <2>1 DEF UnlockAccount, Holds
  <2>2. CASE req[r].email # NoOne
    <3>1. PICK e \in Emails : e = req[r].email
      BY <2>2, Typed DEF SafeInv
    <3>2. holder[e] = r
      BY <1>2, <2>2, <3>1 DEF UnlockAccount, SafeInv, Held, Emailed
    <3>3. holder' = [f \in Emails |-> IF f = e THEN NoOne ELSE holder[f]]
      BY <1>2, <3>1 DEF UnlockAccount, Holds
    <3>4. Mutex!Leave(r, e)
      BY <1>a, <3>2, <3>3 DEF Mutex!Leave
    <3>5. QED
      BY <3>4
  <2>3. QED
    BY <2>1, <2>2
<1>3. ASSUME Crash PROVE Mutex!Reset
  BY <1>3 DEF Crash, Mutex!Reset
<1>4. ASSUME NEW r \in Requests, Acting(r) PROVE UNCHANGED Inside
  BY <1>4, Acts DEF Frame
<1>5. ASSUME \/ CleanStart \/ Tick \/ UNCHANGED vars
             \/ \E a \in sweep : CleanNext(a)
             \/ \E r \in Requests : Arriving(r)
      PROVE  UNCHANGED Inside
  BY <1>5 DEF CleanStart, CleanNext, Tick, vars, Arriving, Arrive
<1>6. Mutex!MutexNext \/ UNCHANGED Inside
  <2> HIDE DEF Inside
  <2>1. ASSUME NEW r \in Requests, LockAccount(r) PROVE Mutex!MutexNext
    BY <1>1, <2>1 DEF Mutex!MutexNext, Mutex!Enter
  <2>2. ASSUME NEW r \in Requests, UnlockAccount(r)
        PROVE  Mutex!MutexNext \/ UNCHANGED Inside
    BY <1>2, <2>2 DEF Mutex!MutexNext, Mutex!Leave
  <2>3. ASSUME Crash PROVE Mutex!MutexNext
    BY <1>3, <2>3 DEF Mutex!MutexNext
  <2>4. QED
    BY <2>1, <2>2, <2>3, <1>4, <1>5 DEF Next, Serve, Acting
<1>7. QED
  BY <1>6 DEF Mutex!mutexVars

(* middleware.go:70-84: what the service takes its account lock for is what *)
(* the map of mutexes implements.                                           *)
THEOREM ServiceUsesMutex == Spec => UsesMutex
<1>1. Init => Mutex!MutexInit
  BY DEF Init, Mutex!MutexInit
<1>2. SafeInv /\ [Next]_vars => [Mutex!MutexNext]_(Mutex!mutexVars)
  BY StepUsesMutex
<1>3. QED
  BY <1>1, <1>2, Safe, PTL DEF Spec, UsesMutex, Mutex!MutexSpec
=============================================================================
