---------------------------- MODULE ServerProofs ----------------------------
(***************************************************************************)
(* What holds of the server around its handlers, for any number of         *)
(* requests.  The stopping of the server leaves alone whatever it should,  *)
(* for any databases and however many old requests are to be swept; the    *)
(* account lock excludes on every account whose first requests did not     *)
(* race to make its mutex.                                                 *)
(***************************************************************************)
EXTENDS AccountLock, ServerStop, SequenceTheorems, TLAPS

(* A request is stopped only between the writes of its handler: these are   *)
(* the states a handler leaves the databases in.                            *)
Left(h) ==
    LET k == handler[h].kind todo == handler[h].todo s == stored[h] IN
    \/ k = "none" /\ todo = <<>>
    \/ k = "activate" /\ todo = Activate /\ "auth-requests" \in s
    \/ k = "activate" /\ todo \in {<<Remove("auth-requests")>>, <<>>} /\ "accounts" \in s
    \/ k = "delete" /\ todo \in {<<Put("accounts")>> \o DeleteAccount, DeleteAccount}
    \/ k = "delete" /\ todo \in {<<Remove("accounts")>>, <<>>} /\ "data-stores" \notin s
    \/ k = "write" /\ todo = <<Put("accounts"), Put("data-stores")>>
    \/ k = "write" /\ todo \in {<<Put("data-stores")>>, <<>>} /\ "accounts" \in s

DataHasAccount(h) == "data-stores" \in stored[h] => "accounts" \in stored[h]

Cut == \A h \in Handlers : Left(h) /\ DataHasAccount(h)

(* Nothing is closed before the job stopped, and without a time out nothing *)
(* works any more when the clean-up begins.                                 *)
Stopping ==
    /\ phase \in {"running", "draining", "stopping", "closing", "exit"}
    /\ phase \in {"running", "draining", "stopping"} => open = Databases /\ stores
    /\ phase \in {"closing", "exit"} => job = "stopped"
    /\ phase \in {"stopping", "closing", "exit"} => timedOut \/ \A h \in Handlers : ~Works(h)

Writes == [db : {"accounts", "data-stores", "auth-requests"}, put : BOOLEAN]

StopInv ==
    /\ handler \in [Handlers -> [kind : {"none", "activate", "delete", "write"}, todo : Seq(Writes)]]
    /\ answer \in [Handlers -> {"none", "ok", "error"}]
    /\ stored \in [Handlers -> SUBSET {"accounts", "data-stores", "auth-requests"}]
    /\ Cut /\ Stopping /\ OnlyLateOnesFail

(* Sequences of up to three writes.                                         *)
LEMMA Tuples ==
  ASSUME NEW S, NEW x \in S, NEW y \in S, NEW z \in S
  PROVE  /\ <<x>> # <<>> /\ Head(<<x>>) = x /\ Tail(<<x>>) = <<>>
         /\ <<x, y>> # <<>> /\ Head(<<x, y>>) = x /\ Tail(<<x, y>>) = <<y>>
         /\ <<x, y, z>> # <<>> /\ Head(<<x, y, z>>) = x /\ Tail(<<x, y, z>>) = <<y, z>>
         /\ <<x>> \in Seq(S) /\ <<x, y>> \in Seq(S) /\ <<x, y, z>> \in Seq(S)
<1>1. <<x>> \in Seq(S) /\ <<x, y>> \in Seq(S) /\ <<x, y, z>> \in Seq(S) /\ <<y, z>> \in Seq(S)
  OBVIOUS
<1>2. <<x>> # <<>> /\ <<x, y>> # <<>> /\ <<x, y, z>> # <<>>
  OBVIOUS
<1>3. Head(<<x>>) = x /\ Head(<<x, y>>) = x /\ Head(<<x, y, z>>) = x
  OBVIOUS
<1>4. Tail(<<x>>) = <<>>
  BY <1>1, <1>2, HeadTailProperties, EmptySeq
<1>5. Tail(<<x, y>>) = <<y>>
  <2>1. /\ Tail(<<x, y>>) \in Seq(S) /\ Len(Tail(<<x, y>>)) = 1
        /\ Tail(<<x, y>>)[1] = y
    BY <1>1, <1>2, HeadTailProperties
  <2>2. <<y>> \in Seq(S) /\ Len(<<y>>) = 1 /\ <<y>>[1] = y
    OBVIOUS
  <2>3. QED
    BY <2>1, <2>2, SeqEqual
<1>6. Tail(<<x, y, z>>) = <<y, z>>
  <2>1. /\ Tail(<<x, y, z>>) \in Seq(S) /\ Len(Tail(<<x, y, z>>)) = 2
        /\ Tail(<<x, y, z>>)[1] = y /\ Tail(<<x, y, z>>)[2] = z
    BY <1>1, <1>2, HeadTailProperties
  <2>2. <<y, z>> \in Seq(S) /\ Len(<<y, z>>) = 2 /\ <<y, z>>[1] = y /\ <<y, z>>[2] = z
    OBVIOUS
  <2>3. QED
    BY <2>1, <2>2, SeqEqual
<1>7. QED
  BY <1>1, <1>2, <1>3, <1>4, <1>5, <1>6

LEMMA Prepend ==
  ASSUME NEW S, NEW x \in S, NEW y \in S, NEW z \in S
  PROVE  <<x>> \o <<y, z>> = <<x, y, z>>
<1> DEFINE s == <<x>> \o <<y, z>>
           t == <<x, y, z>>
<1>1. <<x>> \in Seq(S) /\ <<y, z>> \in Seq(S)
  OBVIOUS
<1>2. /\ s \in Seq(S) /\ Len(s) = 3
      /\ s[1] = x /\ s[2] = y /\ s[3] = z
  BY <1>1, ConcatProperties
<1>3. t \in Seq(S) /\ Len(t) = 3 /\ t[1] = x /\ t[2] = y /\ t[3] = z
  OBVIOUS
<1> HIDE DEF s, t
<1>4. \A i \in 1 .. Len(s) : s[i] = t[i]
  BY <1>2, <1>3
<1>5. s = t
  BY <1>2, <1>3, <1>4, SeqEqual
<1>6. QED
  BY <1>5 DEF s, t

(* The programs, write by write.                                            *)
LEMMA Programs ==
  /\ /\ Activate # <<>> /\ Activate \in Seq(Writes)
     /\ Head(Activate) = Put("accounts") /\ Tail(Activate) = <<Remove("auth-requests")>>
  /\ LET p == <<Put("accounts")>> \o DeleteAccount IN
        /\ p # <<>> /\ p \in Seq(Writes)
        /\ Head(p) = Put("accounts") /\ Tail(p) = DeleteAccount
  /\ /\ DeleteAccount # <<>>
     /\ Head(DeleteAccount) = Remove("data-stores")
     /\ Tail(DeleteAccount) = <<Remove("accounts")>>
  /\ LET p == <<Put("accounts"), Put("data-stores")>> IN
        /\ p # <<>> /\ p \in Seq(Writes)
        /\ Head(p) = Put("accounts") /\ Tail(p) = <<Put("data-stores")>>
  /\ \A w \in Writes : <<w>> # <<>> /\ Head(<<w>>) = w /\ Tail(<<w>>) = <<>>
  /\ \A db \in {"accounts", "data-stores", "auth-requests"} :
        Put(db) \in Writes /\ Remove(db) \in Writes
<1>1. \A db \in {"accounts", "data-stores", "auth-requests"} :
         Put(db) \in Writes /\ Remove(db) \in Writes
  BY DEF Put, Remove, Writes
<1>2. \A w \in Writes : <<w>> # <<>> /\ Head(<<w>>) = w /\ Tail(<<w>>) = <<>>
  BY Tuples
<1> DEFINE a == Put("accounts")
           d == Put("data-stores")
           ra == Remove("accounts")
           rd == Remove("data-stores")
           rr == Remove("auth-requests")
<1>3. a \in Writes /\ d \in Writes /\ ra \in Writes /\ rd \in Writes /\ rr \in Writes
  BY <1>1
<1>4. Activate = <<a, rr>> /\ DeleteAccount = <<rd, ra>>
  BY DEF Activate, DeleteAccount
<1> HIDE DEF a, d, ra, rd, rr
<1>5. /\ <<a, rr>> # <<>> /\ Head(<<a, rr>>) = a /\ Tail(<<a, rr>>) = <<rr>>
      /\ <<a, rr>> \in Seq(Writes)
  BY <1>3, Tuples
<1>6. /\ <<rd, ra>> # <<>> /\ Head(<<rd, ra>>) = rd /\ Tail(<<rd, ra>>) = <<ra>>
  BY <1>3, Tuples
<1>7. /\ <<a, d>> # <<>> /\ Head(<<a, d>>) = a /\ Tail(<<a, d>>) = <<d>>
      /\ <<a, d>> \in Seq(Writes)
  BY <1>3, Tuples
<1>8. /\ <<a>> \o <<rd, ra>> # <<>> /\ Head(<<a>> \o <<rd, ra>>) = a
      /\ Tail(<<a>> \o <<rd, ra>>) = <<rd, ra>> /\ <<a>> \o <<rd, ra>> \in Seq(Writes)
  <2>1. <<a>> \o <<rd, ra>> = <<a, rd, ra>>
    BY <1>3, Prepend
  <2>2. <<a, rd, ra>> # <<>> /\ <<a, rd, ra>> \in Seq(Writes)
    BY <1>3, Tuples
  <2>3. Head(<<a, rd, ra>>) = a /\ Tail(<<a, rd, ra>>) = <<rd, ra>>
    BY <1>3, Tuples
  <2>4. QED
    BY <2>1, <2>2, <2>3
<1>9. QED
  BY <1>1, <1>2, <1>4, <1>5, <1>6, <1>7, <1>8 DEF a, d, ra, rd, rr

(* One write of a handler, wherever it is.                                  *)
LEMMA WriteLeaves ==
  ASSUME StopInv, NEW h \in Handlers, handler[h].todo # <<>>,
         stored' = [stored EXCEPT ![h] =
                      IF Head(handler[h].todo).put THEN @ \cup {Head(handler[h].todo).db}
                                                   ELSE @ \ {Head(handler[h].todo).db}],
         handler' = [handler EXCEPT ![h].todo = Tail(@)]
  PROVE  Left(h)' /\ DataHasAccount(h)'
<1> DEFINE k == handler[h].kind
           todo == handler[h].todo
           s == stored[h]
           op == Head(todo)
<1>1. /\ handler'[h].kind = k /\ handler'[h].todo = Tail(todo)
      /\ stored'[h] = IF op.put THEN s \cup {op.db} ELSE s \ {op.db}
  BY DEF StopInv
<1>2. Left(h) /\ DataHasAccount(h)
  BY DEF StopInv, Cut
<1>3. /\ \A db : Put(db).db = db /\ Put(db).put
      /\ \A db : Remove(db).db = db /\ ~Remove(db).put
  BY DEF Put, Remove
<1>4. \A db \in {"accounts", "data-stores", "auth-requests"} :
        /\ Head(<<Put(db)>>) = Put(db) /\ Tail(<<Put(db)>>) = <<>>
        /\ Head(<<Remove(db)>>) = Remove(db) /\ Tail(<<Remove(db)>>) = <<>>
  BY Programs
<1>5. CASE k = "activate" /\ todo = Activate /\ "auth-requests" \in s
  <2>1. op = Put("accounts") /\ Tail(todo) = <<Remove("auth-requests")>>
    BY <1>5, Programs
  <2>2. stored'[h] = s \cup {"accounts"}
    BY <1>1, <1>3, <2>1
  <2>3. QED
    BY <1>1, <1>5, <2>1, <2>2 DEF Left, DataHasAccount
<1>6. CASE k = "activate" /\ todo = <<Remove("auth-requests")>> /\ "accounts" \in s
  <2>1. op = Remove("auth-requests") /\ Tail(todo) = <<>>
    BY <1>4, <1>6
  <2>2. stored'[h] = s \ {"auth-requests"}
    BY <1>1, <1>3, <2>1
  <2>3. QED
    BY <1>1, <1>6, <2>1, <2>2 DEF Left, DataHasAccount
<1>7. CASE k = "delete" /\ todo = <<Put("accounts")>> \o DeleteAccount
  <2>1. op = Put("accounts") /\ Tail(todo) = DeleteAccount
    BY <1>7, Programs
  <2>2. stored'[h] = s \cup {"accounts"}
    BY <1>1, <1>3, <2>1
  <2>3. QED
    BY <1>1, <1>7, <2>1, <2>2 DEF Left, DataHasAccount
<1>8. CASE k = "delete" /\ todo = DeleteAccount
  <2>1. op = Remove("data-stores") /\ Tail(todo) = <<Remove("accounts")>>
    BY <1>8, Programs
  <2>2. stored'[h] = s \ {"data-stores"}
    BY <1>1, <1>3, <2>1
  <2>3. QED
    BY <1>1, <1>8, <2>1, <2>2 DEF Left, DataHasAccount
<1>9. CASE k = "delete" /\ todo = <<Remove("accounts")>> /\ "data-stores" \notin s
  <2>1. op = Remove("accounts") /\ Tail(todo) = <<>>
    BY <1>4, <1>9
  <2>2. stored'[h] = s \ {"accounts"}
    BY <1>1, <1>3, <2>1
  <2>3. QED
    BY <1>1, <1>9, <2>1, <2>2 DEF Left, DataHasAccount
<1>10. CASE k = "write" /\ todo = <<Put("accounts"), Put("data-stores")>>
  <2>1. op = Put("accounts") /\ Tail(todo) = <<Put("data-stores")>>
    BY <1>10, Programs
  <2>2. stored'[h] = s \cup {"accounts"}
    BY <1>1, <1>3, <2>1
  <2>3. QED
    BY <1>1, <1>10, <2>1, <2>2 DEF Left, DataHasAccount
<1>11. CASE k = "write" /\ todo = <<Put("data-stores")>> /\ "accounts" \in s
  <2>1. op = Put("data-stores") /\ Tail(todo) = <<>>
    BY <1>4, <1>11
  <2>2. stored'[h] = s \cup {"data-stores"}
    BY <1>1, <1>3, <2>1
  <2>3. QED
    BY <1>1, <1>11, <2>1, <2>2 DEF Left, DataHasAccount
<1>12. QED
  BY <1>2, <1>5, <1>6, <1>7, <1>8, <1>9, <1>10, <1>11 DEF Left

-----------------------------------------------------------------------------
(* Another phase, or a step of the job or the closing.                      *)
LEMMA PhasePreserves ==
  ASSUME StopInv, Stopping', UNCHANGED <<handler, answer, stored>>, timedOut => timedOut'
  PROVE  StopInv'
<1>1. Cut'
  BY DEF StopInv, Cut, Left, DataHasAccount
<1>2. OnlyLateOnesFail'
  BY DEF StopInv, OnlyLateOnesFail
<1>3. QED
  BY <1>1, <1>2 DEF StopInv

LEMMA AcceptPreserves ==
  ASSUME StopInv, NEW h \in Handlers, NEW kind \in {"activate", "delete", "write"},
         Accept(h, kind)
  PROVE  StopInv'
<1>1. /\ phase = "running" /\ handler[h].kind = "none"
      /\ IF kind = "activate" THEN "auth-requests" \in stored[h] ELSE "accounts" \in stored[h]
      /\ handler' = [handler EXCEPT ![h] = [kind |-> kind, todo |-> Program(kind)]]
      /\ UNCHANGED <<phase, timedOut, answer, stored, job, open, stores>>
  BY DEF Accept
<1>2. /\ kind = "activate" => Program(kind) = Activate
      /\ kind = "delete" => Program(kind) = <<Put("accounts")>> \o DeleteAccount
      /\ kind = "write" => Program(kind) = <<Put("accounts"), Put("data-stores")>>
  BY DEF Program
<1>3. Program(kind) \in Seq(Writes)
  BY <1>2, Programs
<1>4. handler' \in [Handlers -> [kind : {"none", "activate", "delete", "write"},
                                 todo : Seq(Writes)]]
  BY <1>1, <1>3 DEF StopInv
<1>5. handler'[h] = [kind |-> kind, todo |-> Program(kind)]
  BY <1>1 DEF StopInv
<1>6. Left(h)'
  BY <1>1, <1>2, <1>5 DEF Left
<1>7. \A g \in Handlers : g # h => Left(g)'
  BY <1>1 DEF StopInv, Cut, Left
<1>8. \A g \in Handlers : DataHasAccount(g)'
  BY <1>1 DEF StopInv, Cut, DataHasAccount
<1>9. Stopping'
  BY <1>1 DEF StopInv, Stopping
<1>10. QED
  BY <1>1, <1>4, <1>6, <1>7, <1>8, <1>9 DEF StopInv, Cut, OnlyLateOnesFail

LEMMA StepOfHandlerPreserves ==
  ASSUME StopInv, NEW h \in Handlers, Step(h)
  PROVE  StopInv'
<1> DEFINE op == Head(handler[h].todo)
<1>1. /\ Works(h) /\ handler[h].todo # <<>>
      /\ UNCHANGED <<phase, timedOut, job, tick, left, open, stores>>
  BY DEF Step
<1>2. /\ handler \in [Handlers -> [kind : {"none", "activate", "delete", "write"},
                                   todo : Seq(Writes)]]
      /\ answer \in [Handlers -> {"none", "ok", "error"}]
      /\ stored \in [Handlers -> SUBSET {"accounts", "data-stores", "auth-requests"}]
  BY DEF StopInv
<1>3. op \in Writes /\ Tail(handler[h].todo) \in Seq(Writes)
  BY <1>1, <1>2, HeadTailProperties
<1>4. CASE CanUse(op.db)
  <2>1. /\ stored' = [stored EXCEPT ![h] = IF op.put THEN @ \cup {op.db} ELSE @ \ {op.db}]
        /\ handler' = [handler EXCEPT ![h].todo = Tail(@)]
        /\ UNCHANGED answer
    BY <1>4 DEF Step
  <2>2. Left(h)' /\ DataHasAccount(h)'
    BY <1>1, <2>1, WriteLeaves
  <2>3. \A g \in Handlers : g # h => Left(g)' /\ DataHasAccount(g)'
    BY <1>2, <2>1 DEF StopInv, Cut, Left, DataHasAccount
  <2>4. handler' \in [Handlers -> [kind : {"none", "activate", "delete", "write"},
                                   todo : Seq(Writes)]]
    BY <1>2, <1>3, <2>1
  <2>5. stored' \in [Handlers -> SUBSET {"accounts", "data-stores", "auth-requests"}]
    BY <1>2, <1>3, <2>1 DEF Writes
  <2>6. \A g \in Handlers : handler'[g].kind = handler[g].kind
    BY <1>2, <2>1
  <2>7. Stopping'
    BY <1>1, <2>1, <2>6 DEF StopInv, Stopping, Works
  <2>8. QED
    BY <1>1, <1>2, <2>1, <2>2, <2>3, <2>4, <2>5, <2>7 DEF StopInv, Cut, OnlyLateOnesFail
<1>5. CASE ~CanUse(op.db)
  <2>1. /\ answer' = [answer EXCEPT ![h] = "error"]
        /\ UNCHANGED <<stored, handler>>
    BY <1>5 DEF Step
  <2>2. op.db \in Databases
    BY <1>3, ServerStopAssumption DEF Writes
  <2>3. phase \in {"closing", "exit"} /\ timedOut
    BY <1>1, <1>5, <2>2 DEF StopInv, Stopping, CanUse
  <2>4. Stopping'
    BY <1>1, <2>3 DEF StopInv, Stopping
  <2>5. Cut' /\ OnlyLateOnesFail'
    BY <1>1, <2>1, <2>3 DEF StopInv, Cut, Left, DataHasAccount, OnlyLateOnesFail
  <2>6. QED
    BY <1>2, <2>1, <2>4, <2>5 DEF StopInv
<1>6. QED
  BY <1>4, <1>5

LEMMA AnswerPreserves ==
  ASSUME StopInv, NEW h \in Handlers, Answer(h)
  PROVE  StopInv'
<1>1. /\ answer' = [answer EXCEPT ![h] = "ok"]
      /\ UNCHANGED <<phase, timedOut, handler, stored, job, open, stores>>
  BY DEF Answer
<1>2. answer \in [Handlers -> {"none", "ok", "error"}]
  BY DEF StopInv
<1>3. \A g \in Handlers : answer'[g] = IF g = h THEN "ok" ELSE answer[g]
  BY <1>1, <1>2
<1>4. Stopping'
  BY <1>1, <1>3 DEF StopInv, Stopping, Works
<1>5. Cut' /\ OnlyLateOnesFail'
  BY <1>1, <1>3 DEF StopInv, Cut, Left, DataHasAccount, OnlyLateOnesFail
<1>6. answer' \in [Handlers -> {"none", "ok", "error"}]
  BY <1>1, <1>2
<1>7. QED
  BY <1>1, <1>4, <1>5, <1>6 DEF StopInv

LEMMA StopStepPreserves ==
  ASSUME StopInv, [StopNext]_stopVars
  PROVE  StopInv'
<1>1. Stopping
  BY DEF StopInv
<1>2. CASE UNCHANGED stopVars
  <2>1. Stopping'
    BY <1>1, <1>2 DEF stopVars, Stopping, Works
  <2>2. QED
    BY <1>2, <2>1, PhasePreserves DEF stopVars
<1>3. ASSUME NEW h \in Handlers, Step(h) \/ Answer(h) PROVE StopInv'
  BY <1>3, StepOfHandlerPreserves, AnswerPreserves
<1>4. ASSUME NEW h \in Handlers, NEW kind \in {"activate", "delete", "write"}, Accept(h, kind)
      PROVE  StopInv'
  BY <1>4, AcceptPreserves
<1>5. CASE Signal \/ Drained \/ TimeOut \/ CannotListen
  <2>1. Stopping'
    BY <1>1, <1>5 DEF Signal, Drained, TimeOut, CannotListen, Stopping, Works
  <2>2. QED
    BY <1>5, <2>1, PhasePreserves DEF Signal, Drained, TimeOut, CannotListen
<1>6. CASE Ticks \/ StartSweep \/ SweepOne \/ EndSweep
  <2>1. Stopping'
    BY <1>1, <1>6 DEF Ticks, StartSweep, SweepOne, EndSweep, Stopping, Works
  <2>2. QED
    BY <1>6, <2>1, PhasePreserves DEF Ticks, StartSweep, SweepOne, EndSweep
<1>7. CASE StopJob \/ CloseFails \/ Closed \/ \E db \in Databases : CloseOne(db)
  <2>1. Stopping'
    BY <1>1, <1>7 DEF StopJob, CloseFails, Closed, CloseOne, Stopping, Works
  <2>2. QED
    BY <1>7, <2>1, PhasePreserves DEF StopJob, CloseFails, Closed, CloseOne
<1>8. QED
  BY <1>2, <1>3, <1>4, <1>5, <1>6, <1>7 DEF StopNext

LEMMA StopInitHolds == StopInit => StopInv
<1> SUFFICES ASSUME StopInit PROVE StopInv
  OBVIOUS
<1>1. \A h \in Handlers : handler[h].kind = "none" /\ handler[h].todo = <<>>
  BY DEF StopInit
<1>2. handler \in [Handlers -> [kind : {"none", "activate", "delete", "write"},
                                todo : Seq(Writes)]]
  <2>1. <<>> \in Seq(Writes)
    BY EmptySeq
  <2>2. QED
    BY <2>1 DEF StopInit
<1>3. /\ stored \in [Handlers -> {{"accounts", "data-stores"}, {"accounts"}, {"auth-requests"}}]
      /\ answer = [h \in Handlers |-> "none"]
      /\ phase = "running" /\ open = Databases /\ stores
  BY DEF StopInit
<1>4. \A h \in Handlers : stored[h] \in {{"accounts", "data-stores"}, {"accounts"}, {"auth-requests"}}
  BY <1>3
<1>5. Cut
  <2>1. \A h \in Handlers : Left(h)
    BY <1>1 DEF Left
  <2>2. \A h \in Handlers : DataHasAccount(h)
    BY <1>4 DEF DataHasAccount
  <2>3. QED
    BY <2>1, <2>2 DEF Cut
<1>6. Stopping /\ OnlyLateOnesFail
  BY <1>3 DEF Stopping, OnlyLateOnesFail
<1>7. stored \in [Handlers -> SUBSET {"accounts", "data-stores", "auth-requests"}]
  BY <1>3
<1>8. QED
  BY <1>2, <1>3, <1>5, <1>6, <1>7 DEF StopInv

LEMMA StopInvariance == StopSpec => []StopInv
<1>1. StopInv /\ [StopNext]_stopVars => StopInv'
  BY StopStepPreserves
<1>2. QED
  BY <1>1, StopInitHolds, PTL DEF StopSpec

-----------------------------------------------------------------------------
(* storage.go:114-126, job.go:13-27: no database is closed under an         *)
(* iterator of the job, however many old requests a sweep finds.            *)
THEOREM JobIsNotCutOff == StopSpec => []NoIteratorOnClosed
<1>1. StopInv => NoIteratorOnClosed
  BY DEF StopInv, Stopping, NoIteratorOnClosed
<1>2. QED
  BY <1>1, StopInvariance, PTL

(* server.go:585-593: only requests that outlive the graceful timeout fail  *)
(* for the stopping.                                                        *)
THEOREM InTimeIsServed == StopSpec => []OnlyLateOnesFail
<1>1. StopInv => OnlyLateOnesFail
  BY DEF StopInv
<1>2. QED
  BY <1>1, StopInvariance, PTL

(* server.go:155-168, handler.go:238-249: wherever the process ends, no     *)
(* data is left without an account and no activated request without token.  *)
THEOREM CutOffIsUsable == StopSpec => []CutOffLeavesUsable
<1>1. StopInv => CutOffLeavesUsable
  <2> SUFFICES ASSUME StopInv, NEW h \in Handlers
               PROVE  /\ "data-stores" \in stored[h] => "accounts" \in stored[h]
                      /\ handler[h].kind = "activate" /\ "auth-requests" \notin stored[h]
                           => "accounts" \in stored[h]
    BY DEF CutOffLeavesUsable
  <2>1. Left(h) /\ DataHasAccount(h)
    BY DEF StopInv, Cut
  <2>2. QED
    BY <2>1 DEF Left, DataHasAccount
<1>2. QED
  BY <1>1, StopInvariance, PTL

-----------------------------------------------------------------------------
(* Every entry is a mutex made for its account.                             *)
OwnMutex(e) == mutexOf[e] # NoMutex => mutexOf[e] \in {e} \X Threads

(* A thread inside the lock need not make a mutex: there is one; and what   *)
(* GetAccountMutex returns was made for the account.                        *)
Place(t) ==
    /\ holds[t] => pc[t] \in {"handle", "check", "get", "have"}
    /\ pc[t] = "handle" => holds[t]
    /\ holds[t] \/ pc[t] \in {"get", "have"} => mutexOf[email[t]] # NoMutex
    /\ pc[t] = "have" => found[t] \in {email[t]} \X Threads

(* Without a race all threads have found the one mutex of the account, and  *)
(* it is locked exactly when one of them is inside.                         *)
Found(t) ==
    email[t] \notin raced /\ pc[t] = "have" => found[t] = mutexOf[email[t]]

Inside(t) ==
    email[t] \notin raced /\ holds[t] => mutexOf[email[t]] \in locked

Locked(m) ==
    m[1] \notin raced =>
        /\ m = mutexOf[m[1]]
        /\ \E t \in Threads : holds[t] /\ email[t] = m[1]

LockInv ==
    /\ TypeOK
    /\ \A e \in Emails : OwnMutex(e)
    /\ \A t \in Threads : Place(t) /\ Found(t) /\ Inside(t)
    /\ \A m \in locked : Locked(m)
    /\ MutualExclusionUnlessRaced

USE LockAssumption

(* The invariant holds when the process starts.                             *)
LEMMA LockInitInv == Init => LockInv
  BY DEF Init, LockInv, TypeOK, OwnMutex, Place, Found, Inside, Locked,
         MutualExclusionUnlessRaced, Excluded, Mutexes, Pcs

(* Every step of a request, and a restart, preserves it.                    *)
LEMMA LockNextInv == LockInv /\ [Next]_vars => LockInv'
<1> SUFFICES ASSUME LockInv, [Next]_vars PROVE LockInv'
  OBVIOUS
<1> USE DEF LockInv, TypeOK, OwnMutex, Place, Found, Inside, Locked,
            MutualExclusionUnlessRaced, Excluded, Mutexes, Pcs, At, Goto
<1>1. ASSUME NEW t \in Threads, NEW e \in Emails, LockAccount(t, e) PROVE LockInv'
  BY <1>1 DEF LockAccount
<1>2. ASSUME NEW t \in Threads, UnlockAccount(t) PROVE LockInv'
  BY <1>2 DEF UnlockAccount
<1>3. ASSUME NEW t \in Threads, Check(t) PROVE LockInv'
  BY <1>3 DEF Check
<1>4. ASSUME NEW t \in Threads, Create(t) PROVE LockInv'
  BY <1>4 DEF Create
<1>5. ASSUME NEW t \in Threads, Store(t) PROVE LockInv'
  BY <1>5 DEF Store
<1>6. ASSUME NEW t \in Threads, Get(t) PROVE LockInv'
  BY <1>6 DEF Get
<1>7. ASSUME NEW t \in Threads, Lock(t) PROVE LockInv'
  <2>1. TypeOK'
    BY <1>7 DEF Lock
  <2>2. \A e \in Emails : OwnMutex(e)'
    BY <1>7 DEF Lock
  <2>3. \A u \in Threads : Place(u)'
    BY <1>7 DEF Lock
  <2>4. \A u \in Threads : Found(u)'
    BY <1>7 DEF Lock
  <2>5. \A u \in Threads : Inside(u)'
    BY <1>7 DEF Lock
  <2>6. \A m \in locked' : Locked(m)'
    BY <1>7 DEF Lock
  <2>7. MutualExclusionUnlessRaced'
    BY <1>7 DEF Lock
  <2>8. QED
    BY <2>1, <2>2, <2>3, <2>4, <2>5, <2>6, <2>7
<1>8. ASSUME NEW t \in Threads, Unlock(t) PROVE LockInv'
  <2>1. TypeOK'
    BY <1>8 DEF Unlock
  <2>2. \A e \in Emails : OwnMutex(e)'
    BY <1>8 DEF Unlock
  <2>3. \A u \in Threads : Place(u)'
    BY <1>8 DEF Unlock
  <2>4. \A u \in Threads : Found(u)'
    BY <1>8 DEF Unlock
  <2>5. \A u \in Threads : Inside(u)'
    BY <1>8 DEF Unlock
  <2>6. \A m \in locked' : Locked(m)'
    BY <1>8 DEF Unlock
  <2>7. MutualExclusionUnlessRaced'
    BY <1>8 DEF Unlock
  <2>8. QED
    BY <2>1, <2>2, <2>3, <2>4, <2>5, <2>6, <2>7
<1>9. ASSUME NEW t \in Threads, UnlockUnlocked(t) PROVE LockInv'
  BY <1>9 DEF UnlockUnlocked
<1>10. ASSUME NEW t \in Threads, NEW u \in Threads, MapInUse(t, u) PROVE LockInv'
  BY <1>10 DEF MapInUse
<1>11. ASSUME Restart PROVE LockInv'
  BY <1>11 DEF Restart
<1>12. ASSUME UNCHANGED vars PROVE LockInv'
  BY <1>12 DEF vars
<1>13. QED
  BY <1>1, <1>2, <1>3, <1>4, <1>5, <1>6, <1>7, <1>8, <1>9, <1>10, <1>11, <1>12
  DEF Next, LockStep

(* The invariant therefore holds throughout.                                *)
LEMMA LockInvariance == Spec => []LockInv
  BY LockInitInv, LockNextInv, PTL DEF Spec

(* The variables of the lock keep their types, for any number of requests.  *)
THEOREM LockTypeOK == Spec => []TypeOK
  BY LockInvariance, PTL DEF LockInv

(* middleware.go:70: two requests are inside the lock of one account only   *)
(* if two first requests raced to make its mutex.                           *)
THEOREM LockExcludes == Spec => []MutualExclusionUnlessRaced
  BY LockInvariance, PTL DEF LockInv

(* server.go:151: UnlockAccount finds the mutex that LockAccount locked.    *)
THEOREM LockUnlocks == Spec => []UnlocksWhatItLocked
<1>1. LockInv => UnlocksWhatItLocked
  BY DEF LockInv, TypeOK, Found, Inside, UnlocksWhatItLocked, At
<1>2. QED
  BY <1>1, LockInvariance, PTL

(* server.go:147: a request waits only while another one is inside.         *)
THEOREM LockWaits == Spec => []WaitsForAHolder
<1>1. LockInv => WaitsForAHolder
  <2> SUFFICES ASSUME LockInv, NEW t \in Threads, At(t, "have"),
                      email[t] \notin raced, found[t] \in locked
               PROVE  \E u \in Threads : holds[u] /\ email[u] = email[t]
    BY DEF WaitsForAHolder
  <2>1. found[t][1] = email[t]
    BY DEF LockInv, Place, At
  <2>2. QED
    BY <2>1 DEF LockInv, Locked
<1>2. QED
  BY <1>1, LockInvariance, PTL

-----------------------------------------------------------------------------
(* A step of the lock is a step of the abstract mutex, or none.             *)
LEMMA LockStepImplements ==
  ASSUME LockInv, [Next]_vars
  PROVE  [Mutex!MutexNext]_(Mutex!mutexVars)
<1> DEFINE In(e) == {t \in Threads : holds[t] /\ email[t] = e}
           Abstract == [e \in Emails |-> In(e)]
<1> USE DEF LockInv, TypeOK, Mutex!mutexVars, Mutex!MutexNext
<1>1. ASSUME UNCHANGED <<holds, raced>>, \A t \in Threads : holds[t] => email'[t] = email[t]
      PROVE  UNCHANGED <<Abstract, raced>>
  BY <1>1
<1>2. ASSUME NEW t \in Threads, NEW e \in Emails, LockAccount(t, e)
      PROVE  UNCHANGED <<Abstract, raced>>
  BY <1>1, <1>2 DEF LockAccount, At, Goto, Place
<1>3. ASSUME NEW t \in Threads,
             UnlockAccount(t) \/ Check(t) \/ Create(t) \/ Get(t) \/ UnlockUnlocked(t)
             \/ \E u \in Threads : MapInUse(t, u)
      PROVE  UNCHANGED <<Abstract, raced>>
  BY <1>1, <1>3 DEF UnlockAccount, Check, Create, Get, UnlockUnlocked, MapInUse
<1>4. ASSUME NEW t \in Threads, Store(t)
      PROVE  Mutex!Break(email[t]) \/ UNCHANGED <<Abstract, raced>>
  BY <1>4 DEF Store, Mutex!Break
<1>5. ASSUME NEW t \in Threads, Lock(t) PROVE Mutex!Enter(t, email[t])
  <2>1. email[t] \in raced \/ In(email[t]) = {}
    BY <1>5 DEF Lock, At, Found, Inside
  <2>2. Abstract' = [Abstract EXCEPT ![email[t]] = @ \cup {t}]
    BY <1>5 DEF Lock
  <2>3. QED
    BY <1>5, <2>1, <2>2 DEF Lock, Mutex!Enter
<1>6. ASSUME NEW t \in Threads, Unlock(t) PROVE Mutex!Leave(t, email[t])
  <2>1. Abstract' = [Abstract EXCEPT ![email[t]] = @ \ {t}]
    BY <1>6 DEF Unlock
  <2>2. QED
    BY <1>6, <2>1 DEF Unlock, Mutex!Leave
<1>7. ASSUME Restart PROVE Mutex!Reset
  BY <1>7 DEF Restart, Mutex!Reset
<1>8. ASSUME UNCHANGED vars PROVE UNCHANGED <<Abstract, raced>>
  BY <1>8 DEF vars
<1>9. ASSUME NEW t \in Threads, LockStep(t)
      PROVE  Mutex!MutexNext \/ UNCHANGED <<Abstract, raced>>
  <2>1. email[t] \in Emails
    OBVIOUS
  <2> HIDE DEF Abstract, LockInv, TypeOK
  <2>2. CASE Store(t)
    BY <1>4, <2>1, <2>2
  <2>3. CASE Lock(t)
    <3>1. Mutex!Enter(t, email[t])
      BY <1>5, <2>3
    <3>2. \E u \in Threads, e \in Emails : Mutex!Enter(u, e) \/ Mutex!Leave(u, e)
      BY <2>1, <3>1 DEF Mutex!Enter, Mutex!Leave
    <3>3. QED
      BY <3>2
  <2>4. CASE Unlock(t)
    <3>1. Mutex!Leave(t, email[t])
      BY <1>6, <2>4
    <3>2. \E u \in Threads, e \in Emails : Mutex!Enter(u, e) \/ Mutex!Leave(u, e)
      BY <2>1, <3>1 DEF Mutex!Enter, Mutex!Leave
    <3>3. QED
      BY <3>2
  <2>5. CASE ~(Store(t) \/ Lock(t) \/ Unlock(t))
    BY <1>2, <1>3, <1>9, <2>5 DEF LockStep
  <2>6. QED
    BY <2>2, <2>3, <2>4, <2>5
<1>10. QED
  BY <1>7, <1>8, <1>9 DEF Next

(* middleware.go:70-84: the map of mutexes implements a mutex per account   *)
(* that excludes until it is broken by a race for its first use.            *)
THEOREM LockImplementsMutex == Spec => ImplementsMutex
<1>1. Init => Mutex!MutexInit
  BY DEF Init, Mutex!MutexInit
<1>2. LockInv /\ [Next]_vars => [Mutex!MutexNext]_(Mutex!mutexVars)
  BY LockStepImplements
<1>3. QED
  BY <1>1, <1>2, LockInvariance, PTL DEF Spec, ImplementsMutex, Mutex!MutexSpec
=============================================================================
