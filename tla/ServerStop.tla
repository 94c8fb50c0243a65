----------------------------- MODULE ServerStop -----------------------------
(***************************************************************************)
(* How the server stops.  A signal ends the accepting of requests; those   *)
(* that run have ten seconds, then the server cleans up: it hands the job  *)
(* that sweeps old requests a message, which the job takes between two     *)
(* sweeps, and closes the databases one after another.  A handler that     *)
(* needed longer meets databases that are closed, or is killed with the    *)
(* process between two of its writes.                                      *)
(***************************************************************************)
EXTENDS Naturals, Sequences

CONSTANTS
    Handlers,   \* the requests, each with an account of its own
    Databases,  \* the leveldb databases
    MaxSweep    \* bound: how many old requests a sweep finds

ASSUME ServerStopAssumption ==
    /\ {"accounts", "data-stores", "auth-requests"} \subseteq Databases
    /\ MaxSweep \in Nat

VARIABLES
    phase,     \* "running", "draining", "stopping" the job, "closing", "exit"
    timedOut,  \* the graceful server gave up waiting
    handler,   \* each request: "none", "activate", "delete" or "write", and the writes it has to do
    answer,    \* "none", "ok" or "error"
    stored,    \* what the databases hold of each account
    job,       \* the goroutine: "waiting", "sweeping", "stopped"
    tick,      \* the ticker's channel holds a tick
    left,      \* the old requests that the iterator is still to come to
    open,      \* the databases that are open
    stores     \* LevelDBStorage.stores is not nil

stopVars == <<phase, timedOut, handler, answer, stored, job, tick, left, open, stores>>

(* The account, its data, a request to activate a token, and the token.     *)
StopInit ==
    /\ phase = "running" /\ timedOut = FALSE
    /\ handler = [h \in Handlers |-> [kind |-> "none", todo |-> <<>>]]
    /\ answer = [h \in Handlers |-> "none"]
    /\ stored \in [Handlers -> {{"accounts", "data-stores"}, {"accounts"}, {"auth-requests"}}]
    /\ job = "waiting" /\ tick = FALSE /\ left = 0
    /\ open = Databases /\ stores = TRUE

-----------------------------------------------------------------------------
Put(db) == [db |-> db, put |-> TRUE]

Remove(db) == [db |-> db, put |-> FALSE]

(* A mutant: the account goes before its data.                              *)
DeleteAccount_AccountFirst == <<Remove("accounts"), Remove("data-stores")>>

DeleteAccount == <<Remove("data-stores"), Remove("accounts")>>

Activate == <<Put("accounts"), Remove("auth-requests")>>

(* What a request does: one that is authenticated stores its account first. *)
Program(kind) ==
    CASE kind = "activate" -> Activate
      [] kind = "delete" -> <<Put("accounts")>> \o DeleteAccount
      [] kind = "write" -> <<Put("accounts"), Put("data-stores")>>

Accept(h, kind) ==
    /\ phase = "running"
    /\ handler[h].kind = "none"
    /\ IF kind = "activate" THEN "auth-requests" \in stored[h] ELSE "accounts" \in stored[h]
    /\ handler' = [handler EXCEPT ![h] = [kind |-> kind, todo |-> Program(kind)]]
    /\ UNCHANGED <<phase, timedOut, answer, stored, job, tick, left, open, stores>>

Works(h) == handler[h].kind # "none" /\ answer[h] = "none"

CanUse(db) == stores /\ db \in open

(* The first write that fails ends the request.                             *)
Step(h) ==
    /\ phase # "exit" /\ Works(h) /\ handler[h].todo # <<>>
    /\ LET op == Head(handler[h].todo)
       IN IF CanUse(op.db)
          THEN /\ stored' = [stored EXCEPT ![h] = IF op.put THEN @ \cup {op.db} ELSE @ \ {op.db}]
               /\ handler' = [handler EXCEPT ![h].todo = Tail(@)]
               /\ UNCHANGED answer
          ELSE /\ answer' = [answer EXCEPT ![h] = "error"]
               /\ UNCHANGED <<stored, handler>>
    /\ UNCHANGED <<phase, timedOut, job, tick, left, open, stores>>

Answer(h) ==
    /\ phase # "exit" /\ Works(h) /\ handler[h].todo = <<>>
    /\ answer' = [answer EXCEPT ![h] = "ok"]
    /\ UNCHANGED <<phase, timedOut, handler, stored, job, tick, left, open, stores>>

-----------------------------------------------------------------------------
(* The graceful server: a signal, then the requests end or the time does.   *)
Signal ==
    /\ phase = "running" /\ phase' = "draining"
    /\ UNCHANGED <<timedOut, handler, answer, stored, job, tick, left, open, stores>>

Drained ==
    /\ phase = "draining" /\ \A h \in Handlers : ~ Works(h)
    /\ phase' = "stopping"
    /\ UNCHANGED <<timedOut, handler, answer, stored, job, tick, left, open, stores>>

TimeOut ==
    /\ phase = "draining" /\ \E h \in Handlers : Works(h)
    /\ phase' = "stopping" /\ timedOut' = TRUE
    /\ UNCHANGED <<handler, answer, stored, job, tick, left, open, stores>>

(* The port is taken: the server ends at once, and cleans up.               *)
CannotListen ==
    /\ phase = "running" /\ \A h \in Handlers : handler[h].kind = "none"
    /\ phase' = "stopping"
    /\ UNCHANGED <<timedOut, handler, answer, stored, job, tick, left, open, stores>>

-----------------------------------------------------------------------------
Ticks ==
    /\ ~ tick /\ job # "stopped" /\ phase # "exit"
    /\ tick' = TRUE
    /\ UNCHANGED <<phase, timedOut, handler, answer, stored, job, left, open, stores>>

(* The goroutine chooses at random when a tick and the message wait.        *)
StartSweep ==
    /\ job = "waiting" /\ tick /\ phase # "exit"
    /\ tick' = FALSE
    /\ IF CanUse("auth-requests")
       THEN job' = "sweeping" /\ left' \in 0..MaxSweep
       ELSE UNCHANGED <<job, left>>
    /\ UNCHANGED <<phase, timedOut, handler, answer, stored, open, stores>>

(* An old request is deleted; an error is only logged.                      *)
SweepOne ==
    /\ job = "sweeping" /\ left > 0 /\ phase # "exit"
    /\ left' = left - 1
    /\ UNCHANGED <<phase, timedOut, handler, answer, stored, job, tick, open, stores>>

(* A mutant: the goroutine ends after its first sweep.                      *)
EndSweep_Returns ==
    /\ job = "sweeping" /\ left = 0 /\ phase # "exit"
    /\ job' = "stopped"
    /\ UNCHANGED <<phase, timedOut, handler, answer, stored, tick, left, open, stores>>

(* A mutant: the database goes with its iterator.                           *)
EndSweep_Closes ==
    /\ job = "sweeping" /\ left = 0 /\ phase # "exit"
    /\ job' = "waiting" /\ open' = open \ {"auth-requests"}
    /\ UNCHANGED <<phase, timedOut, handler, answer, stored, tick, left, stores>>

(* The iterator is released.                                                *)
EndSweep ==
    /\ job = "sweeping" /\ left = 0 /\ phase # "exit"
    /\ job' = "waiting"
    /\ UNCHANGED <<phase, timedOut, handler, answer, stored, tick, left, open, stores>>

(* A mutant: the message is put into a channel that has room for it.        *)
StopJob_Buffered ==
    /\ phase = "stopping" /\ phase' = "closing"
    /\ job' = IF job = "waiting" THEN "stopped" ELSE job
    /\ UNCHANGED <<timedOut, handler, answer, stored, tick, left, open, stores>>

(* The message is handed over: both wait for each other.                    *)
StopJob ==
    /\ phase = "stopping" /\ job = "waiting"
    /\ phase' = "closing" /\ job' = "stopped"
    /\ UNCHANGED <<timedOut, handler, answer, stored, tick, left, open, stores>>

CloseOne(db) ==
    /\ phase = "closing" /\ db \in open
    /\ open' = open \ {db}
    /\ UNCHANGED <<phase, timedOut, handler, answer, stored, job, tick, left, stores>>

(* One that cannot be closed ends the closing; the process ends too.        *)
CloseFails ==
    /\ phase = "closing" /\ open # {}
    /\ phase' = "exit"
    /\ UNCHANGED <<timedOut, handler, answer, stored, job, tick, left, open, stores>>

Closed ==
    /\ phase = "closing" /\ open = {}
    /\ IF stores THEN stores' = FALSE /\ UNCHANGED phase
       ELSE phase' = "exit" /\ UNCHANGED stores
    /\ UNCHANGED <<timedOut, handler, answer, stored, job, tick, left, open>>

StopNext ==
    \/ \E h \in Handlers : Step(h) \/ Answer(h)
    \/ \E h \in Handlers, kind \in {"activate", "delete", "write"} : Accept(h, kind)
    \/ Signal \/ Drained \/ TimeOut \/ CannotListen
    \/ Ticks \/ StartSweep \/ SweepOne \/ EndSweep
    \/ StopJob \/ CloseFails \/ Closed
    \/ \E db \in Databases : CloseOne(db)

(* Goroutines run on, the graceful server's time runs out, and a select     *)
(* between the tick and the message takes the message in the end.           *)
StopSpec ==
    /\ StopInit /\ [][StopNext]_stopVars
    /\ WF_stopVars(SweepOne \/ EndSweep)
    /\ WF_stopVars(Drained \/ TimeOut)
    /\ SF_stopVars(StopJob)
    /\ WF_stopVars(CloseFails \/ Closed \/ \E db \in Databases : CloseOne(db))

-----------------------------------------------------------------------------
(* storage.go:114-126, job.go:13-27: no database is closed while the job    *)
(* iterates over one, since CleanUp waits for the sweep, however long.      *)
NoIteratorOnClosed == job = "sweeping" => open = Databases

(* server.go:585-593: a request that ends in time is not disturbed by the   *)
(* stopping; only one that outlives the graceful timeout meets a closed     *)
(* storage, and it is told so.                                              *)
OnlyLateOnesFail == \A h \in Handlers : answer[h] = "error" => timedOut

(* server.go:155-168, handler.go:238-249: wherever the end of the process   *)
(* or a closed database cuts a request off, no data is left without its     *)
(* account, and no request to activate is gone without its token.           *)
CutOffLeavesUsable ==
    \A h \in Handlers :
        /\ "data-stores" \in stored[h] => "accounts" \in stored[h]
        /\ handler[h].kind = "activate" /\ "auth-requests" \notin stored[h] => "accounts" \in stored[h]

(* server.go:585-590, job.go:26-28: once the server is to stop it does,     *)
(* even if it was asked in the middle of a sweep.                           *)
StopsInTheEnd == phase = "draining" ~> phase = "exit"
=============================================================================
