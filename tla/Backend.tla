------------------------------ MODULE Backend ------------------------------
(***************************************************************************)
(* The life of the server processes (lifespan in main.py) and the way each *)
(* of their database calls takes: db/connection.py asks the SQL gRPC       *)
(* server, which all processes open on one port, so another process may    *)
(* answer, and falls back to the process's own pool (connection_real.py).  *)
(* Besides requests there are calls nobody waits for when a process stops: *)
(* the writes of tasks left behind by requests.                            *)
(***************************************************************************)
EXTENDS Naturals, FiniteSets

CONSTANTS Workers,    \* server processes
          Calls,      \* database calls that may be under way together
          Followed,   \* bound: those whose background tasks are followed
          PoolSize    \* DB_POOL_MAXSIZE

ASSUME BackendAssumption ==
  /\ Workers # {} /\ Followed \subseteq Workers
  /\ IsFiniteSet(Calls)
  /\ PoolSize \in Nat \ {0}

VARIABLES
  phase,    \* how far the lifespan of each process has come
  pool,     \* its _pool
  free,     \* connections of it nobody holds
  front,    \* its SQL gRPC server listens
  warm,     \* what its keep-warm task will ask the database next
  call,     \* the calls, on their caller's side
  handler   \* and what the gRPC server does for them

resources == <<pool, free>>
vars == <<phase, resources, front, warm, call, handler>>

Stopping == {"draining", "cancelling", "flushing", "stopping", "closing"}
Phases == {"down", "starting", "pinging", "serving"} \union Stopping

\* What a call is for. A request reads or writes, a task it leaves behind
\* writes; load is a table read by init_lookup_cache, check the keep-warm
\* task's SELECT 1, ticker a query of build_intelligence_cache, boot the
\* SELECT 1 of the start, final the limiter's last pass. Writes, and what
\* lookup_cache.py reads, do not go through the gRPC server.
Loops == {"load", "check", "ticker"}
Works == Loops \union {"request", "task", "boot", "final"}
Remote == {"request", "check", "ticker", "boot"}
Local == {"request", "load", "task", "final"}
Steps == {"none", "remote", "waiting", "running", "refused"}

NoHandler == [at |-> CHOOSE w \in Workers : TRUE, state |-> "none", holds |-> FALSE]
NoCall == [work |-> "none", home |-> CHOOSE w \in Workers : TRUE, step |-> "none"]

CallType == [work : Works \union {"none"}, home : Workers, step : Steps]
HandlerType == [at : Workers, state : {"none", "working", "ok", "cancelled"}, holds : BOOLEAN]

TypeOK ==
  /\ phase \in [Workers -> Phases]
  /\ pool \in [Workers -> {"none", "open", "closing"}]
  /\ free \in [Workers -> 0 .. PoolSize]
  /\ front \in [Workers -> BOOLEAN]
  /\ warm \in [Workers -> {"tables", "check", "nothing"}]
  /\ call \in [Calls -> CallType]
  /\ handler \in [Calls -> HandlerType]

Init ==
  /\ phase = [w \in Workers |-> "down"]
  /\ pool = [w \in Workers |-> "none"]
  /\ free = [w \in Workers |-> PoolSize]
  /\ front = [w \in Workers |-> FALSE]
  /\ warm = [w \in Workers |-> "tables"]
  /\ call = [c \in Calls |-> NoCall]
  /\ handler = [c \in Calls |-> NoHandler]

At(w, works) == {c \in Calls : call[c].home = w /\ call[c].work \in works}

-----------------------------------------------------------------------------
\* A read is sent to whichever process listens. With none, and for a call that
\* db/connection.py does not take, the process's own pool is asked, which
\* raises at once unless it is open.
Direct(w) == IF pool[w] = "open" THEN "waiting" ELSE "refused"

Begin(c, w, work) ==
  /\ call[c] = NoCall
  /\ handler[c] = NoHandler
  /\ \/ /\ work \in Remote
        /\ \E h \in Workers :
             /\ front[h]
             /\ handler' = [handler EXCEPT ![c] = [at |-> h, state |-> "working", holds |-> FALSE]]
        /\ call' = [call EXCEPT ![c] = [work |-> work, home |-> w, step |-> "remote"]]
     \/ /\ work \in Local \/ \A h \in Workers : ~front[h]
        /\ call' = [call EXCEPT ![c] = [work |-> work, home |-> w, step |-> Direct(w)]]
        /\ UNCHANGED handler

\* The gRPC server's side: a connection, the statement, the reply.
HandlerAcquire(c) ==
  LET h == handler[c].at IN
  /\ handler[c].state = "working" /\ ~handler[c].holds
  /\ pool[h] # "none" /\ free[h] > 0
  /\ free' = [free EXCEPT ![h] = @ - 1]
  /\ handler' = [handler EXCEPT ![c].holds = TRUE]
  /\ UNCHANGED <<phase, pool, front, warm, call>>

HandlerReleases(c) == free' = [free EXCEPT ![handler[c].at] = IF handler[c].holds THEN @ + 1 ELSE @]

HandlerExecutes(c) ==
  /\ handler[c].state = "working" /\ handler[c].holds
  /\ HandlerReleases(c)
  /\ handler' = [handler EXCEPT ![c].state = "ok", ![c].holds = FALSE]
  /\ UNCHANGED <<phase, pool, front, warm, call>>

\* The statement fails, or the five seconds of wait_for are over.
HandlerFails(c) ==
  /\ handler[c].state = "working"
  /\ HandlerReleases(c)
  /\ handler' = [handler EXCEPT ![c] = NoHandler]
  /\ UNCHANGED <<phase, pool, front, warm, call>>

\* Slip: the cancelled handler does not reach the end of its block.
HandlerUnwindsKeeping(c) ==
  /\ handler[c].state = "cancelled"
  /\ handler' = [handler EXCEPT ![c] = NoHandler]
  /\ UNCHANGED <<phase, resources, front, warm, call>>

\* A cancelled handler leaves its async with.
HandlerUnwinds(c) ==
  /\ handler[c].state = "cancelled"
  /\ HandlerReleases(c)
  /\ handler' = [handler EXCEPT ![c] = NoHandler]
  /\ UNCHANGED <<phase, pool, front, warm, call>>

\* The caller goes on, with the rows or with the exception.
Returns(c) == call' = [call EXCEPT ![c] = NoCall]

Answer(c) ==
  /\ call[c].step = "remote" /\ handler[c].state = "ok"
  /\ Returns(c)
  /\ handler' = [handler EXCEPT ![c] = NoHandler]
  /\ UNCHANGED <<phase, resources, front, warm>>

\* The server of the call is told that nobody waits for it any more.
Dropped(c) == IF handler[c].holds THEN [handler[c] EXCEPT !.state = "cancelled"] ELSE NoHandler

\* Any failure of the gRPC call, its five seconds included.
FallBack(c) ==
  /\ call[c].step = "remote"
  /\ call' = [call EXCEPT ![c].step = Direct(call[c].home)]
  /\ handler' = [handler EXCEPT ![c] = Dropped(c)]
  /\ UNCHANGED <<phase, resources, front, warm>>

Acquire(c) ==
  LET w == call[c].home IN
  /\ call[c].step = "waiting"
  /\ pool[w] # "none" /\ free[w] > 0
  /\ free' = [free EXCEPT ![w] = @ - 1]
  /\ call' = [call EXCEPT ![c].step = "running"]
  /\ UNCHANGED <<phase, pool, front, warm, handler>>

Releases(c) == free' = [free EXCEPT ![call[c].home] = IF call[c].step = "running" THEN @ + 1 ELSE @]

Execute(c) ==
  /\ call[c].step = "running"
  /\ Releases(c)
  /\ Returns(c)
  /\ UNCHANGED <<phase, pool, front, warm, handler>>

\* Slip: an exception leaves the block without giving the connection back.
FailKeeping(c) ==
  /\ call[c].step \in {"waiting", "running", "refused"}
  /\ Returns(c)
  /\ UNCHANGED <<phase, resources, front, warm, handler>>

\* wait_for covers the wait for a connection as well.
Fail(c) ==
  /\ call[c].step \in {"waiting", "running", "refused"}
  /\ Releases(c)
  /\ Returns(c)
  /\ UNCHANGED <<phase, pool, front, warm, handler>>

-----------------------------------------------------------------------------
\* Start. A pool that cannot be created ends the process before it serves.
Start(w) ==
  /\ phase[w] = "down"
  /\ phase' = [phase EXCEPT ![w] = "starting"]
  /\ pool' = [pool EXCEPT ![w] = "open"]
  /\ UNCHANGED <<free, front, warm, call, handler>>

Enter(w, from, to) ==
  /\ phase[w] = from
  /\ phase' = [phase EXCEPT ![w] = to]

Ping(w, c) ==
  /\ Enter(w, "starting", "pinging")
  /\ Begin(c, w, "boot")
  /\ UNCHANGED <<resources, front, warm>>

\* The servers may fail to start: calls then go to the pool.
Serve(w) ==
  /\ Enter(w, "pinging", "serving")
  /\ At(w, {"boot"}) = {}
  /\ \E up \in BOOLEAN : front' = [front EXCEPT ![w] = up]
  /\ UNCHANGED <<resources, warm, call, handler>>

\* The keep-warm task reads the tables, each query's failure caught by itself
\* (one query stands for the three), then sees whether the database answers.
\* Its rounds after that ask the cache and the models only.
Load(w, c) ==
  /\ phase[w] = "serving" /\ w \in Followed /\ warm[w] = "tables"
  /\ warm' = [warm EXCEPT ![w] = "check"]
  /\ Begin(c, w, "load")
  /\ UNCHANGED <<phase, resources, front>>

Check(w, c) ==
  /\ phase[w] = "serving" /\ w \in Followed /\ warm[w] = "check"
  /\ At(w, {"load"}) = {}
  /\ warm' = [warm EXCEPT ![w] = "nothing"]
  /\ Begin(c, w, "check")
  /\ UNCHANGED <<phase, resources, front>>

\* The ticker's pass asks one query after another, and passes follow each other.
Build(w, c) ==
  /\ phase[w] = "serving" /\ w \in Followed
  /\ At(w, {"ticker"}) = {}
  /\ Begin(c, w, "ticker")
  /\ UNCHANGED <<phase, resources, front, warm>>

Request(w, c) ==
  /\ phase[w] = "serving"
  /\ Begin(c, w, "request")
  /\ UNCHANGED <<phase, resources, front, warm>>

\* A task created by a request runs as long as its process does.
Detach(w, c) ==
  /\ phase[w] \in {"serving"} \union Stopping
  /\ Begin(c, w, "task")
  /\ UNCHANGED <<phase, resources, front, warm>>

Stop(w) ==
  /\ Enter(w, "serving", "draining")
  /\ UNCHANGED <<resources, front, warm, call, handler>>

\* The server has answered its requests: the background tasks are cancelled.
Cancel(w) ==
  /\ Enter(w, "draining", "cancelling")
  /\ At(w, {"request"}) = {}
  /\ UNCHANGED <<resources, front, warm, call, handler>>

Abandon(c) ==
  /\ call[c].work \in Loops
  /\ phase[call[c].home] = "cancelling"
  /\ Releases(c)
  /\ call' = [call EXCEPT ![c] = NoCall]
  /\ handler' = [handler EXCEPT ![c] = Dropped(c)]
  /\ UNCHANGED <<phase, pool, front, warm>>

Flush(w, c) ==
  /\ Enter(w, "cancelling", "flushing")
  /\ At(w, Loops) = {}
  /\ Begin(c, w, "final")
  /\ UNCHANGED <<resources, front, warm>>

\* Slip: the pool is closed before the servers that use it.
ClosePoolFirst(w) ==
  /\ Enter(w, "flushing", "stopping")
  /\ At(w, {"final"}) = {}
  /\ pool' = [pool EXCEPT ![w] = "closing"]
  /\ UNCHANGED <<free, front, warm, call, handler>>

\* stop(0): what the server is doing for others is cancelled.
StopFronts(w) ==
  /\ Enter(w, "flushing", "stopping")
  /\ At(w, {"final"}) = {}
  /\ front' = [front EXCEPT ![w] = FALSE]
  /\ handler' = [c \in Calls |-> IF handler[c].at = w THEN Dropped(c) ELSE handler[c]]
  /\ UNCHANGED <<resources, warm, call>>

ClosePool(w) ==
  /\ Enter(w, "stopping", "closing")
  /\ pool' = [pool EXCEPT ![w] = "closing"]
  /\ UNCHANGED <<free, front, warm, call, handler>>

\* The process is gone, with its calls and what it did for others'.
Gone(w) ==
  /\ phase' = [phase EXCEPT ![w] = "down"]
  /\ pool' = [pool EXCEPT ![w] = "none"]
  /\ front' = [front EXCEPT ![w] = FALSE]
  /\ warm' = [warm EXCEPT ![w] = "tables"]
  /\ call' = [c \in Calls |-> IF call[c].home = w THEN NoCall ELSE call[c]]
  /\ handler' = [c \in Calls |->
                   IF handler[c].at = w THEN NoHandler
                   ELSE IF call[c].home = w THEN Dropped(c) ELSE handler[c]]
  /\ free' = [free EXCEPT ![w] = PoolSize]

\* wait_closed: the process ends when it has every connection back.
Exit(w) == phase[w] = "closing" /\ free[w] = PoolSize /\ Gone(w)

Crash(w) == phase[w] # "down" /\ Gone(w)

-----------------------------------------------------------------------------
CallStep(c) ==
  \/ HandlerAcquire(c) \/ HandlerExecutes(c) \/ HandlerFails(c) \/ HandlerUnwinds(c)
  \/ Answer(c) \/ FallBack(c) \/ Acquire(c) \/ Execute(c) \/ Fail(c)
  \/ Abandon(c)

Advance(w) ==
  \/ Serve(w) \/ Cancel(w) \/ StopFronts(w) \/ ClosePool(w) \/ Exit(w)

Next ==
  \/ \E c \in Calls : CallStep(c)
  \/ \E w \in Workers : Start(w) \/ Stop(w) \/ Crash(w) \/ Advance(w)
  \/ \E w \in Workers, c \in Calls :
       Ping(w, c) \/ Load(w, c) \/ Check(w, c) \/ Build(w, c) \/ Request(w, c) \/ Detach(w, c) \/ Flush(w, c)

Spec == Init /\ [][Next]_vars

\* Every call has its time limits and the lifespan goes on by itself; Calls is
\* a bound of the model, so a call the lifespan makes is not kept waiting by it.
FairSpec ==
  /\ Spec
  /\ \A c \in Calls : WF_vars(CallStep(c))
  /\ \A w \in Workers : WF_vars(Advance(w)) /\ SF_vars(\E c \in Calls : Flush(w, c))

-----------------------------------------------------------------------------
\* Connections of w held for the callers of its gRPC server, and by its own.
Lent(w) == {c \in Calls : handler[c].at = w /\ handler[c].holds}
Used(w) == {c \in Calls : call[c].home = w /\ call[c].step = "running"}

\* Whatever fails, times out, is cancelled or dies, a pool gets each of its
\* connections back once, and one that is gone had them all.
PoolAccounted ==
  \A w \in Workers :
    /\ free[w] + Cardinality(Lent(w)) + Cardinality(Used(w)) = PoolSize
    /\ pool[w] = "none" => free[w] = PoolSize

\* A stop takes things down in an order in which no request, no background
\* pass and no other process's query still needs what is gone: only tasks
\* nobody waits for are refused a connection.
OnlyTasksRefused ==
  /\ \A c \in Calls : call[c].step = "refused" => call[c].work = "task"
  /\ \A w \in Workers : front[w] => pool[w] = "open"

\* A process that is told to stop ends, whatever its calls and the other
\* processes are doing.
StopEnds == \A w \in Workers : phase[w] \in Stopping ~> phase[w] = "down"

=============================================================================
