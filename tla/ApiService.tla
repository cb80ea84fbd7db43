----------------------------- MODULE ApiService -----------------------------
(***************************************************************************)
(* One process of settle-api (api.py): requests go through the thread pool *)
(* of the framework, the connection pool (db.py), the statements of their  *)
(* handler and, for execute, the LPUSH after the commit. Every stage has   *)
(* its own time limit, every one may fail, and the process is terminated   *)
(* or dies in between. Redis and PostgreSQL outlive it.                    *)
(*                                                                         *)
(* Time is in ticks; a stage with `left` ticks may end at any moment until *)
(* they are used up, and must end then; the delay of a report ends then    *)
(* and no sooner.                                                          *)
(***************************************************************************)
EXTENDS Integers, FiniteSets, Sequences

CONSTANTS
    Settlements,
    Requests, Kind, Target,  \* what each asks for, of which settlement
    Threads,            \* the framework's threads for handlers declared with def
    PoolSize,           \* DB_POOL_SIZE + DB_MAX_OVERFLOW
    PoolTimeout, ConnectTimeout, LockTimeout, StatementTimeout, ReportTimeout,  \* config.py
    ReportCost,         \* REPORT_SIMULATED_COST_SECONDS, 0 but for the local overlay
    CommitTime,         \* a commit takes no longer, by the health of the server
    PushTimeout,        \* connect and socket timeout of the Redis client
    Graceful,           \* graceful_timeout
    MaxFaults, MaxRequests,  \* bounds for TLC: failures, requests that are sent
    None

Kinds == {"livez", "list", "create", "execute", "report"}

ASSUME RequestAssumption ==
    /\ Kind \in [Requests -> Kinds] /\ Target \in [Requests -> Settlements]
    /\ \A r, o \in Requests : Kind[r] = "create" /\ Kind[o] = "execute" => Target[r] # Target[o]
ASSUME SizeAssumption ==
    /\ Threads \in Nat /\ PoolSize \in Nat /\ 0 < PoolSize /\ PoolSize < Threads
    /\ MaxFaults \in Nat /\ MaxRequests \in Nat
ASSUME TimeAssumption ==
    /\ {PoolTimeout, ConnectTimeout, LockTimeout, StatementTimeout, ReportTimeout,
        CommitTime, PushTimeout, Graceful} \subseteq Nat \ {0}
    /\ LockTimeout <= StatementTimeout /\ ReportCost \in Nat

VARIABLES
    settlement, \* settlements.status
    rows,       \* executes whose payouts row is committed
    jobs,       \* executes whose job was pushed
    req,        \* per request its stage, the statement it is at and the ticks left
    waiting,    \* requests that wait for a thread
    answer,     \* what the client got
    life, left, \* of the process, and the ticks it has
    faults

vars == <<settlement, rows, jobs, req, waiting, answer, life, left, faults>>
stored == <<settlement, rows, jobs>>

(* A 503 says in "kind" which limit was met (db_unavailable).              *)
Unavailable == {"pool_timeout", "statement_timeout", "operational"}
Answers == {"ok", "accepted", "conflict", "error"} \cup Unavailable
Gone == {"cut", "lost"}

ASSUME NoneAssumption == None \notin Answers \cup Gone

(* What a handler executes on its connection. *)
Program(kind) ==
    IF kind = "list" THEN <<"select">>
    ELSE IF kind = "create" THEN <<"insert", "commit">>
    ELSE IF kind = "report" THEN <<"set", "report", "commit">>
    ELSE <<"update", "insert", "commit">>

Limit(statement) ==
    IF statement = "report" THEN ReportTimeout
    ELSE IF statement = "commit" THEN CommitTime ELSE StatementTimeout

(* With the size of the pool as part of the type. *)
TypeOK ==
    /\ settlement \in [Settlements -> {"absent", "pending", "executing"}]
    /\ rows \subseteq Requests /\ jobs \subseteq Requests
    /\ req \in [Requests -> [pc : {"idle", "queued", "sleep", "pool", "connect", "sql", "push", "done"},
                             at : 0..3, left : Int, behind : BOOLEAN]]
    /\ waiting \in Seq(Requests)
    /\ answer \in [Requests -> Answers \cup Gone \cup {None}]
    /\ life \in {"up", "draining", "down"} /\ left \in Nat
    /\ faults \in 0..MaxFaults
    /\ Cardinality({r \in Requests : req[r].pc \in {"connect", "sql"}}) <= PoolSize

----------------------------------------------------------------------------
InThread == {r \in Requests : req[r].pc \in {"sleep", "pool", "connect", "sql", "push"}}
CheckedOut == {r \in Requests : req[r].pc \in {"connect", "sql"}}
Open == {r \in Requests : req[r].pc \notin {"idle", "done"}}
Busy == Cardinality(InThread) = Threads
FreeConnection == Cardinality(CheckedOut) < PoolSize

Statement(r) == Program(Kind[r])[req[r].at]

(* The settlement's row is locked from the UPDATE to the end of its         *)
(* transaction.                                                             *)
Locks(r, s) == Kind[r] = "execute" /\ Target[r] = s /\ req[r].pc = "sql" /\ req[r].at > 1

(* Mutation: no lock, the status is read before. *)
NeverBlocked(r) == FALSE

Blocked(r) ==
    /\ Kind[r] = "execute" /\ Statement(r) = "update"
    /\ \E o \in Requests \ {r} : Locks(o, Target[r])

LockExpired(r) == Blocked(r) /\ req[r].left + LockTimeout <= StatementTimeout

Stage(pc, at, limit) == [pc |-> pc, at |-> at, left |-> limit, behind |-> FALSE]
Enter(r, pc, at, limit) ==
    req' = [req EXCEPT ![r] = [Stage(pc, at, limit) EXCEPT !.behind = req[r].behind]]

(* Leaves the thread, and the connection if it had one: the transaction,    *)
(* if any, is rolled back.                                                  *)
Answer(r, a) ==
    /\ Enter(r, "done", 0, 0)
    /\ answer' = [answer EXCEPT ![r] = a]

Fault == faults < MaxFaults /\ faults' = faults + 1
Overrun(r) == req[r].left = 0 /\ UNCHANGED faults

Init ==
    /\ settlement \in [Settlements -> {"absent", "pending"}]
    /\ \A r \in Requests : Kind[r] = "create" => settlement[Target[r]] = "absent"
    /\ rows = {} /\ jobs = {}
    /\ req = [r \in Requests |-> Stage("idle", 0, 0)]
    /\ waiting = <<>>
    /\ answer = [r \in Requests |-> None]
    /\ life = "up" /\ left = 0 /\ faults = 0

----------------------------------------------------------------------------
(* The longest a request can wait for a thread: a thread that holds no      *)
(* connection sleeps for the report's cost, waits PoolTimeout for one or    *)
(* PushTimeout for Redis.                                                   *)
QueueLimit(ahead) == (ReportCost + PoolTimeout + PushTimeout) * (ahead \div (Threads - PoolSize) + 1)

(* Mutation: pool_timeout is what it was, many times as long. *)
AskPoolPatiently(r) ==
    /\ IF FreeConnection THEN Enter(r, "connect", 0, ConnectTimeout)
       ELSE Enter(r, "pool", 0, 15 * PoolTimeout)
    /\ UNCHANGED answer

AskPool(r) ==
    /\ IF FreeConnection THEN Enter(r, "connect", 0, ConnectTimeout)
       ELSE Enter(r, "pool", 0, PoolTimeout)
    /\ UNCHANGED answer

(* On its thread: /livez needs nothing else, the others a connection, a     *)
(* report after its delay.                                                  *)
Begin(r) ==
    IF Kind[r] = "livez" THEN Answer(r, "ok")
    ELSE IF Kind[r] = "report" /\ ReportCost > 0 THEN Enter(r, "sleep", 0, ReportCost) /\ UNCHANGED answer
    ELSE AskPool(r)

Arrive(r) ==
    /\ req[r].pc = "idle" /\ life = "up"
    /\ Cardinality({o \in Requests : req[o].pc # "idle"}) < MaxRequests
    /\ IF Busy \/ waiting # <<>>
       THEN /\ waiting' = Append(waiting, r)
            /\ req' = [req EXCEPT ![r] = [pc |-> "queued", at |-> 0, behind |-> TRUE,
                                          left |-> QueueLimit(Len(waiting))]]
            /\ UNCHANGED answer
       ELSE Begin(r) /\ UNCHANGED waiting
    /\ UNCHANGED <<stored, life, left, faults>>

TakeThread(r) ==
    /\ waiting # <<>> /\ r = Head(waiting) /\ ~Busy
    /\ waiting' = Tail(waiting)
    /\ Begin(r)
    /\ UNCHANGED <<stored, life, left, faults>>

(* time.sleep(REPORT_SIMULATED_COST_SECONDS) is over. *)
Awake(r) ==
    /\ req[r].pc = "sleep" /\ req[r].left = 0
    /\ AskPool(r)
    /\ UNCHANGED <<stored, waiting, life, left, faults>>

(* Mutation: the pool opens more connections than it was given. *)
CheckoutAnyway(r) ==
    /\ req[r].pc = "pool"
    /\ Enter(r, "connect", 0, ConnectTimeout)
    /\ UNCHANGED <<stored, waiting, answer, life, left, faults>>

Checkout(r) ==
    /\ req[r].pc = "pool" /\ FreeConnection
    /\ Enter(r, "connect", 0, ConnectTimeout)
    /\ UNCHANGED <<stored, waiting, answer, life, left, faults>>

PoolExhausted(r) ==
    /\ req[r].pc = "pool" /\ req[r].left = 0 /\ ~FreeConnection
    /\ Answer(r, "pool_timeout")
    /\ UNCHANGED <<stored, waiting, life, left, faults>>

(* pool_pre_ping: the pooled connection answers, or a new one is opened.    *)
Connected(r) ==
    /\ req[r].pc = "connect"
    /\ Enter(r, "sql", 1, Limit(Program(Kind[r])[1]))
    /\ UNCHANGED <<stored, waiting, answer, life, left, faults>>

ConnectFails(r) ==
    /\ req[r].pc = "connect" /\ (Fault \/ Overrun(r))
    /\ Answer(r, "operational")
    /\ UNCHANGED <<stored, waiting, life, left>>

----------------------------------------------------------------------------
(* UPDATE ... WHERE status = 'pending' found no row: 409, wherever the      *)
(* settlement is. *)
Conflict(r) ==
    /\ req[r].pc = "sql" /\ Statement(r) = "update" /\ ~Blocked(r)
    /\ settlement[Target[r]] # "pending"
    /\ Answer(r, "conflict")
    /\ UNCHANGED <<stored, waiting, life, left, faults>>

StatementEnds(r) ==
    /\ req[r].pc = "sql" /\ Statement(r) # "commit" /\ ~Blocked(r)
    /\ Statement(r) = "update" => settlement[Target[r]] = "pending"
    /\ IF req[r].at = Len(Program(Kind[r])) THEN Answer(r, "ok")
       ELSE /\ Enter(r, "sql", req[r].at + 1, Limit(Program(Kind[r])[req[r].at + 1]))
            /\ UNCHANGED answer
    /\ UNCHANGED <<stored, waiting, life, left, faults>>

(* statement_timeout or lock_timeout: "canceling statement due to ..."      *)
StatementCancelled(r) ==
    /\ req[r].pc = "sql" /\ Statement(r) # "commit"
    /\ req[r].left = 0 \/ LockExpired(r)
    /\ Answer(r, "statement_timeout")
    /\ UNCHANGED <<stored, waiting, life, left, faults>>

Committed(r) ==
    /\ settlement' = [settlement EXCEPT ![Target[r]] =
                         IF Kind[r] = "execute" THEN "executing"
                         ELSE IF Kind[r] = "create" /\ @ = "absent" THEN "pending" ELSE @]
    /\ rows' = IF Kind[r] = "execute" THEN rows \cup {r} ELSE rows
    /\ UNCHANGED jobs

(* Mutation: a lost connection is reported as a statement that was cancelled. *)
ConnectionLostAsCancelled(r) ==
    /\ req[r].pc = "sql" /\ Fault
    /\ \/ Statement(r) = "commit" /\ Committed(r)
       \/ UNCHANGED stored
    /\ Answer(r, "statement_timeout")
    /\ UNCHANGED <<waiting, life, left>>

(* The connection is lost; at the COMMIT, before or after it took effect.   *)
ConnectionLost(r) ==
    /\ req[r].pc = "sql" /\ Fault
    /\ \/ Statement(r) = "commit" /\ Committed(r)
       \/ UNCHANGED stored
    /\ Answer(r, "operational")
    /\ UNCHANGED <<waiting, life, left>>

(* Mutation: the answer does not wait for the LPUSH. *)
CommitAndAnswer(r) ==
    /\ req[r].pc = "sql" /\ Statement(r) = "commit"
    /\ Committed(r)
    /\ Answer(r, IF Kind[r] = "execute" THEN "accepted" ELSE "ok")
    /\ UNCHANGED <<waiting, life, left, faults>>

Commit(r) ==
    /\ req[r].pc = "sql" /\ Statement(r) = "commit"
    /\ Committed(r)
    /\ IF Kind[r] = "execute" THEN Enter(r, "push", 0, PushTimeout) /\ UNCHANGED answer
       ELSE Answer(r, "ok")
    /\ UNCHANGED <<waiting, life, left, faults>>

(* queue.client.lpush, with the connection already back in the pool.        *)
Push(r) ==
    /\ req[r].pc = "push"
    /\ jobs' = jobs \cup {r}
    /\ Answer(r, "accepted")
    /\ UNCHANGED <<settlement, rows, waiting, life, left, faults>>

(* An exception nothing handles, pushed or not: 500.                        *)
PushFails(r) ==
    /\ req[r].pc = "push" /\ (Fault \/ Overrun(r))
    /\ jobs' \in {jobs, jobs \cup {r}}
    /\ Answer(r, "error")
    /\ UNCHANGED <<settlement, rows, waiting, life, left>>

Handle(r) ==
    \/ Arrive(r) \/ TakeThread(r) \/ Awake(r)
    \/ Checkout(r) \/ PoolExhausted(r) \/ Connected(r) \/ ConnectFails(r)
    \/ Conflict(r) \/ StatementEnds(r) \/ StatementCancelled(r) \/ ConnectionLost(r)
    \/ Commit(r) \/ Push(r) \/ PushFails(r)

----------------------------------------------------------------------------
(* The process *)

(* Mutation: graceful_timeout is no longer than a connection takes. *)
SigtermInHaste ==
    /\ life = "up"
    /\ life' = "draining" /\ left' = ConnectTimeout
    /\ UNCHANGED <<stored, req, waiting, answer, faults>>

(* After the preStop hook: nothing is accepted any more.                    *)
Sigterm ==
    /\ life = "up"
    /\ life' = "draining" /\ left' = Graceful
    /\ UNCHANGED <<stored, req, waiting, answer, faults>>

(* Every open request ends without an answer; PostgreSQL rolls back.        *)
Abandon(how) ==
    /\ req' = [r \in Requests |-> IF r \in Open THEN [Stage("done", 0, 0) EXCEPT !.behind = req[r].behind]
                                     ELSE req[r]]
    /\ answer' = [r \in Requests |-> IF r \in Open THEN how ELSE answer[r]]
    /\ waiting' = <<>>
    /\ life' = "down" /\ left' = 0
    /\ UNCHANGED stored

(* The last request is answered: lifespan() sets draining, closes the pool. *)
Exit ==
    /\ life = "draining" /\ Open = {}
    /\ life' = "down" /\ left' = 0
    /\ UNCHANGED <<stored, req, waiting, answer, faults>>

GracefulTimeout == life = "draining" /\ Open # {} /\ left = 0 /\ Abandon("cut") /\ UNCHANGED faults
Crash == life # "down" /\ Fault /\ Abandon("lost")

(* Another pod, or the restarted container.                                 *)
Start ==
    /\ life = "down"
    /\ life' = "up" /\ left' = 0
    /\ UNCHANGED <<stored, req, waiting, answer, faults>>

Process == Sigterm \/ Exit \/ GracefulTimeout \/ Crash \/ Start

----------------------------------------------------------------------------
Timed == {"sleep", "pool", "connect", "sql", "push"}

(* What does not wait for anything happens before time goes on.             *)
Due ==
    \/ \E r \in Requests : \/ req[r].pc \in Timed /\ req[r].left = 0
                           \/ req[r].pc = "pool" /\ FreeConnection
                           \/ req[r].pc = "sql" /\ LockExpired(r)
    \/ waiting # <<>> /\ ~Busy
    \/ life = "draining" /\ (left = 0 \/ Open = {})

Tick ==
    /\ ~Due
    /\ Open # {}
    /\ req' = [r \in Requests |-> IF req[r].pc \in Timed \/ (req[r].pc = "queued" /\ req[r].left >= 0)
                                  THEN [req[r] EXCEPT !.left = @ - 1] ELSE req[r]]
    /\ left' = IF left > 0 THEN left - 1 ELSE 0
    /\ UNCHANGED <<stored, waiting, answer, life, faults>>

Next == (\E r \in Requests : Handle(r)) \/ Process \/ Tick

Spec == Init /\ [][Next]_vars

----------------------------------------------------------------------------
(* What an answer to execute says is so, whatever failed: after 202 the     *)
(* payout row is committed and its job pushed; after 409 the settlement is  *)
(* not pending, because another execute has committed or it never was; and  *)
(* a worker that takes a job finds its row.                                 *)
AnswersAreTrue ==
    /\ jobs \subseteq rows
    /\ \A r \in Requests :
          /\ answer[r] = "accepted" => r \in rows /\ r \in jobs
          /\ answer[r] = "conflict" => \/ settlement[Target[r]] = "absent"
                                       \/ \E o \in rows \ {r} : Target[o] = Target[r]

(* However many executes of a settlement race or are retried, one of them   *)
(* makes a payout: the row lock makes the second UPDATE wait for the first  *)
(* transaction and look at the status again.                                *)
OnePayout ==
    \A r, o \in rows : Target[r] = Target[o] => r = o

(* A 503 that names a timeout has left nothing behind, so the client may    *)
(* come back after Retry-After; only "operational" may hide a commit.       *)
RetryIsSafe ==
    \A r \in Requests : answer[r] \in {"pool_timeout", "statement_timeout"} => r \notin rows \cup jobs

(* Nobody waits for a thread longer than the requests ahead need with the   *)
(* delay of the report and the limits of the pool and of Redis, however     *)
(* long PostgreSQL takes with the connections it has. That is a bound, not  *)
(* a short one: 10 s a round with the limits of the code, 16 s with the     *)
(* local delay, where each liveness probe waits for 3 s.                    *)
ThreadsComeBack == \A r \in Requests : req[r].pc = "queued" => req[r].left >= 0

(* graceful_timeout cuts off no request for which a thread was free, except *)
(* those whose own limits add up to more: execute and report.               *)
ShortRequestsEnd ==
    \A r \in Requests : answer[r] = "cut" => Kind[r] \in {"execute", "report"} \/ req[r].behind
=============================================================================
