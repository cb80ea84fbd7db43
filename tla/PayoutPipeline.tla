-------------------------- MODULE PayoutPipeline --------------------------
(***************************************************************************)
(* How a settlement becomes money at the merchant's bank account:          *)
(*                                                                         *)
(*   the API      opens the payout row in the transaction that marks the   *)
(*                settlement as executing, then pushes a job (api.py)      *)
(*   Redis        holds the jobs: the lists `jobs`, `dead` and one         *)
(*                processing list per worker, the sorted set `retry`, and  *)
(*                a lease key per worker (queue.py)                        *)
(*   the workers  each run a fetch loop, a pool of payout threads and a    *)
(*                housekeeping thread (worker.py)                          *)
(*   the bank     moves money once per idempotency key (bank.py and the    *)
(*                contract the bank mock states, bankmock/main.py)         *)
(*                                                                         *)
(* The left end of a Redis list is the first element of the sequence.      *)
(* Everything that goes wrong is an action that spends one unit of a       *)
(* budget, so a run chooses which faults there are and how many.           *)
(***************************************************************************)
EXTENDS Naturals, FiniteSets, SequencesExt

CONSTANTS
    Settlements,    \* settlements.id
    Payouts,        \* payouts.id
    Workers,        \* WORKER_ID, the name of the pod
    Slots,          \* threads of one pool, WORKER_CONCURRENCY of them
    Keys,           \* the idempotency keys uuid4() can return
    Refs,           \* the references the bank can give a payout
    Errors,         \* what str(exc) can say, as the job's last_error
    None,
    MaxAttempts,    \* WORKER_MAX_ATTEMPTS
    PromoteBatch,   \* LIMIT of the promotion script
    Faults,         \* kinds of fault that happen in this instance
    MaxFaults       \* how many of them

FaultKinds == {"api", "bank", "refuse", "db", "redis", "lease",
               "sigterm", "kill", "restart", "operator"}

ASSUME FaultAssumption == Faults \subseteq FaultKinds /\ MaxFaults \in Nat
ASSUME AttemptAssumption == MaxAttempts \in Nat /\ PromoteBatch \in Nat
ASSUME NoneAssumption ==
    /\ None \notin Keys \cup Refs \cup Errors \cup Settlements \cup Workers
    /\ None \notin [payout : Payouts, attempt : Nat, error : Errors \cup {None}]

Threads == Workers \X Slots

(* A queue entry. The merchant, amount and currency it also carries are    *)
(* those of the payout row, and attempt and last_error are what a retry    *)
(* changes: two entries equal in these three fields are the same string.   *)
Job == [payout : Payouts, attempt : Nat, error : Errors \cup {None}]

NewJob(p) == [payout |-> p, attempt |-> 0, error |-> None]
NextAttempt(j, e) == [payout |-> j.payout, attempt |-> j.attempt + 1, error |-> e]

(* A row of payouts, the state of a payout thread and of a housekeeping    *)
(* pass, a request to the bank and an entry of its ledger.                 *)
WorkerStates == {"up", "stopping", "draining", "exiting", "down"}
Row == [state : {"none", "queued", "sending", "paid"}, of : Settlements \cup {None},
        key : Keys \cup {None}, ref : Refs \cup {None}]
Hand == [pc : {"idle", "claim", "await", "replied", "ack", "retry", "reject"},
         job : Job \cup {None}, key : Keys \cup {None}, ref : Refs \cup {None}]
Pass == [pc : {"wait", "beat", "scan", "move"}, todo : SUBSET Workers,
         from : Workers \cup {None}]
Request == [payout : Payouts, key : Keys]
Entry == [ref : Refs, payout : Payouts, key : Keys]

VARIABLES
    settlement, \* settlements.status, "absent" before the row exists
    payout,     \* the payouts table
    request,    \* per payout, where the execute request that opened it is
    jobs, retry, dead, processing, lease,
    status,     \* life of the worker process
    hk,         \* its housekeeping thread: step, owners left to look at, owner being emptied
    thread,     \* its payout threads: step, job in hand, key and bank_ref read so far
    orphans,    \* requests on the wire to the bank that nobody waits for
    ledger,     \* the bank's entries, which are also its by_key index
    faults      \* faults so far

database == <<settlement, payout>>
queue    == <<jobs, retry, dead, processing>>
process  == <<status, hk>>
vars == <<database, request, queue, lease, process, thread, orphans, ledger, faults>>

TypeOK ==
    /\ settlement \in [Settlements -> {"absent", "pending", "executing"}]
    /\ payout \in [Payouts -> Row]
    /\ request \in [Payouts -> {"none", "committed", "pushed", "lost"}]
    /\ jobs \in Seq(Job)
    /\ dead \in Seq(Job)
    /\ processing \in [Workers -> Seq(Job)]
    /\ retry \in SUBSET Job /\ IsFiniteSet(retry)
    /\ lease \in SUBSET Workers
    /\ status \in [Workers -> WorkerStates]
    /\ hk \in [Workers -> Pass]
    /\ thread \in [Threads -> Hand]
    /\ orphans \in SUBSET Request
    /\ ledger \in SUBSET Entry
    /\ faults \in Nat

----------------------------------------------------------------------------
(* Helpers *)

At(step, job) == [pc |-> step, job |-> job, key |-> None, ref |-> None]
Idle == At("idle", None)
Asleep == [pc |-> "wait", todo |-> {}, from |-> None]

Running(w) == status[w] \in {"up", "stopping", "draining", "exiting"}

Fault(kind) == kind \in Faults /\ faults < MaxFaults /\ faults' = faults + 1

JobOf(t) == thread[t].job
PayoutOf(t) == thread[t].job.payout
Goto(t, step) == thread' = [thread EXCEPT ![t] = At(step, JobOf(t))]
Release(t) == thread' = [thread EXCEPT ![t] = Idle]

(* Mutation: RPOP, the job that is there the longest. *)
UnprocessOldest(t) ==
    processing' = [processing EXCEPT ![t[1]] = IF @ = <<>> THEN @ ELSE Front(@)]

(* LREM processing 1 raw, in the worker's own list. *)
Unprocess(t) == processing' = [processing EXCEPT ![t[1]] = RemoveFirst(@, JobOf(t))]

(* A uuid4() that nothing carries yet. *)
KeysInUse == {payout[p].key : p \in Payouts} \cup {e.key : e \in ledger}
             \cup {o.key : o \in orphans} \cup {thread[t].key : t \in Threads}
RefsInUse == {e.ref : e \in ledger}
FreshKeys == Keys \ KeysInUse
FreshRefs == Refs \ RefsInUse

(* Mutations: a key per attempt, and no key at all. *)
KeyPerAttempt(p) == FreshKeys
KeyNeverSet(p) == {payout[p].key}

(* COALESCE(bank_idempotency_key, :key) *)
ClaimKeys(p) == IF payout[p].key = None THEN FreshKeys ELSE {payout[p].key}

(* The request a thread has on the wire, if it has one. *)
Waiting == {t \in Threads : thread[t].pc = "await"}
RequestOf(t) == [payout |-> PayoutOf(t), key |-> thread[t].key]

----------------------------------------------------------------------------
Init ==
    /\ settlement = [s \in Settlements |-> "absent"]
    /\ payout = [p \in Payouts |-> [state |-> "none", of |-> None, key |-> None, ref |-> None]]
    /\ request = [p \in Payouts |-> "none"]
    /\ jobs = <<>> /\ dead = <<>> /\ retry = {}
    /\ processing = [w \in Workers |-> <<>>]
    /\ lease = {}
    /\ status = [w \in Workers |-> "down"]
    /\ hk = [w \in Workers |-> Asleep]
    /\ thread = [t \in Threads |-> Idle]
    /\ orphans = {} /\ ledger = {}
    /\ faults = 0

----------------------------------------------------------------------------
(* The API *)

CreateSettlement(s) ==
    /\ settlement[s] = "absent"
    /\ settlement' = [settlement EXCEPT ![s] = "pending"]
    /\ UNCHANGED <<payout, request, queue, lease, process, thread, orphans, ledger, faults>>

(* Mutation: the UPDATE without its AND status = 'pending'. *)
ExecuteAgain(s) ==
    /\ settlement[s] # "absent"
    /\ settlement' = [settlement EXCEPT ![s] = "executing"]
    /\ \E p \in Payouts :
          /\ payout[p].state = "none"
          /\ payout' = [payout EXCEPT ![p] =
                           [state |-> "queued", of |-> s, key |-> None, ref |-> None]]
          /\ request' = [request EXCEPT ![p] = "committed"]
    /\ UNCHANGED <<queue, lease, process, thread, orphans, ledger, faults>>

(* The transaction of POST /settlements/{id}/execute: a settlement that is *)
(* not pending is a 409 and changes nothing.                               *)
ExecuteSettlement(s) ==
    /\ settlement[s] = "pending"
    /\ settlement' = [settlement EXCEPT ![s] = "executing"]
    /\ \E p \in Payouts :
          /\ payout[p].state = "none"
          /\ payout' = [payout EXCEPT ![p] =
                           [state |-> "queued", of |-> s, key |-> None, ref |-> None]]
          /\ request' = [request EXCEPT ![p] = "committed"]
    /\ UNCHANGED <<queue, lease, process, thread, orphans, ledger, faults>>

(* The LPUSH after the commit. *)
EnqueuePayout(p) ==
    /\ request[p] = "committed"
    /\ request' = [request EXCEPT ![p] = "pushed"]
    /\ jobs' = Cons(NewJob(p), jobs)
    /\ UNCHANGED <<database, retry, dead, processing, lease, process, thread, orphans, ledger, faults>>

(* The pod dies, the reply to COMMIT is lost or Redis refuses the LPUSH:   *)
(* the row is committed and no job is.                                     *)
EnqueueFails(p) ==
    /\ request[p] = "committed"
    /\ Fault("api")
    /\ request' = [request EXCEPT ![p] = "lost"]
    /\ UNCHANGED <<database, queue, lease, process, thread, orphans, ledger>>

API == \/ \E s \in Settlements : CreateSettlement(s) \/ ExecuteSettlement(s)
       \/ \E p \in Payouts : EnqueuePayout(p) \/ EnqueueFails(p)

----------------------------------------------------------------------------
(* The worker process and its fetch loop *)

(* The first heartbeat, then the fetch loop and the housekeeping thread.   *)
Boot(w) ==
    /\ status[w] = "down"
    /\ status' = [status EXCEPT ![w] = "up"]
    /\ lease' = lease \cup {w}
    /\ UNCHANGED <<database, request, queue, hk, thread, orphans, ledger, faults>>

(* A new pod, under a name never used: one that has neither a lease nor a  *)
(* processing list, and that no pass is emptying.                          *)
StartWorker(w) ==
    /\ w \notin lease /\ processing[w] = <<>>
    /\ \A v \in Workers : hk[v].from # w
    /\ Boot(w)

(* The kubelet restarts the container in its pod: WORKER_ID is the same.   *)
RestartInPlace(w) == "restart" \in Faults /\ Boot(w)

(* SIGTERM sets `stop`. The loop may be inside BLMOVE, whose job it still  *)
(* submits: "stopping" until that call has returned.                       *)
Sigterm(w) ==
    /\ status[w] = "up"
    /\ Fault("sigterm")
    /\ status' = [status EXCEPT ![w] = "stopping"]
    /\ UNCHANGED <<database, request, queue, lease, hk, thread, orphans, ledger>>

StopFetching(w) ==
    /\ status[w] = "stopping"
    /\ status' = [status EXCEPT ![w] = "draining"]
    /\ UNCHANGED <<database, request, queue, lease, hk, thread, orphans, ledger, faults>>

(* Mutation: BRPOP, which keeps no copy. *)
Brpop(w) ==
    /\ status[w] \in {"up", "stopping"}
    /\ jobs # <<>>
    /\ jobs' = Front(jobs)
    /\ status' = [status EXCEPT ![w] = IF @ = "stopping" THEN "draining" ELSE @]
    /\ UNCHANGED <<database, request, retry, dead, processing, lease, hk, orphans, ledger>>

(* BLMOVE jobs processing:w RIGHT LEFT, by a loop below its concurrency.   *)
Blmove(w) ==
    /\ status[w] \in {"up", "stopping"}
    /\ jobs # <<>>
    /\ jobs' = Front(jobs)
    /\ processing' = [processing EXCEPT ![w] = Cons(Last(jobs), @)]
    /\ status' = [status EXCEPT ![w] = IF @ = "stopping" THEN "draining" ELSE @]
    /\ UNCHANGED <<database, request, retry, dead, lease, hk, orphans, ledger>>

Fetch(w, s) ==
    /\ thread[<<w, s>>].pc = "idle"
    /\ Blmove(w)
    /\ thread' = [thread EXCEPT ![<<w, s>>] = At("claim", Last(jobs))]
    /\ UNCHANGED faults

(* The list moved and the reply did not arrive: nobody has the job in hand. *)
FetchReplyLost(w) ==
    /\ \E s \in Slots : thread[<<w, s>>].pc = "idle"
    /\ Blmove(w)
    /\ Fault("redis")
    /\ UNCHANGED thread

(* _drain: once every thread is done, or the deadline has passed, the lease *)
(* is deleted. The DEL may fail, and then the lease has to expire.          *)
DrainDone(w) ==
    /\ status[w] = "draining"
    /\ status' = [status EXCEPT ![w] = "exiting"]
    /\ \/ lease' = lease \ {w} /\ UNCHANGED faults
       \/ Fault("redis") /\ UNCHANGED lease
    /\ UNCHANGED <<database, request, queue, hk, thread, orphans, ledger>>

(* The interpreter waits for the pool's threads before it exits. *)
Exit(w) ==
    /\ status[w] = "exiting"
    /\ \A s \in Slots : thread[<<w, s>>].pc = "idle"
    /\ status' = [status EXCEPT ![w] = "down"]
    /\ hk' = [hk EXCEPT ![w] = Asleep]
    /\ UNCHANGED <<database, request, queue, lease, thread, orphans, ledger, faults>>

(* SIGKILL, out of memory or node loss. What is on the wire stays there.   *)
Kill(w) ==
    /\ Running(w)
    /\ Fault("kill")
    /\ status' = [status EXCEPT ![w] = "down"]
    /\ hk' = [hk EXCEPT ![w] = Asleep]
    /\ thread' = [t \in Threads |-> IF t[1] = w THEN Idle ELSE thread[t]]
    /\ orphans' = orphans \cup {RequestOf(t) : t \in {u \in Waiting : u[1] = w}}
    /\ UNCHANGED <<database, request, queue, lease, ledger>>

(* The key's TTL runs out. A worker that beats every 5 s loses its 30 s    *)
(* lease only to a fault; one that has stopped beating just loses it.      *)
LeaseExpires(w) ==
    /\ w \in lease
    /\ lease' = lease \ {w}
    /\ IF status[w] = "up" THEN Fault("lease") ELSE UNCHANGED faults
    /\ UNCHANGED <<database, request, queue, process, thread, orphans, ledger>>

Process == \E w \in Workers :
    \/ StartWorker(w) \/ RestartInPlace(w) \/ Sigterm(w) \/ StopFetching(w)
    \/ (\E s \in Slots : Fetch(w, s)) \/ FetchReplyLost(w)
    \/ DrainDone(w) \/ Exit(w) \/ Kill(w) \/ LeaseExpires(w)

----------------------------------------------------------------------------
(* A payout thread: handle(job), then the acknowledgement *)

(* Mutations: a claim that marks the row paid, one that does not store the *)
(* key, and one without AND state IN ('queued', 'sending').                *)
ClaimAsPaid(p, k) == payout' = [payout EXCEPT ![p].state = "paid", ![p].key = k]
ClaimWithoutKey(p, k) == payout' = [payout EXCEPT ![p].state = "sending"]
AnyRow(p) == payout[p].state # "none"

(* UPDATE payouts SET state = 'sending', bank_idempotency_key = COALESCE(..) *)
ClaimRow(p, k) == payout' = [payout EXCEPT ![p].state = "sending", ![p].key = k]
Claimable(p) == payout[p].state \in {"queued", "sending"}

(* claim, whose row the UPDATE found; the POST leaves with the key. *)
Claim(t) ==
    /\ thread[t].pc = "claim"
    /\ Claimable(PayoutOf(t))
    /\ \E k \in ClaimKeys(PayoutOf(t)) :
          /\ ClaimRow(PayoutOf(t), k)
          /\ thread' = [thread EXCEPT ![t].pc = "await", ![t].key = k]
    /\ UNCHANGED <<settlement, request, queue, lease, process, orphans, ledger, faults>>

(* claim, whose row is past sending: a paid payout is acknowledged, any    *)
(* other state is a PermanentError.                                        *)
ClaimSkipped(t) ==
    /\ thread[t].pc = "claim"
    /\ ~Claimable(PayoutOf(t))
    /\ Goto(t, IF payout[PayoutOf(t)].state = "paid" THEN "ack" ELSE "reject")
    /\ UNCHANGED <<database, request, queue, lease, process, orphans, ledger, faults>>

(* The database fails during claim: nothing happened, or the commit did    *)
(* and its reply is lost.                                                  *)
ClaimError(t) ==
    /\ thread[t].pc = "claim"
    /\ Fault("db")
    /\ \/ UNCHANGED payout
       \/ Claimable(PayoutOf(t)) /\ \E k \in ClaimKeys(PayoutOf(t)) : ClaimRow(PayoutOf(t), k)
    /\ Goto(t, "retry")
    /\ UNCHANGED <<settlement, request, queue, lease, process, orphans, ledger>>

(* UPDATE payouts SET state = 'paid' WHERE state = 'sending' *)
MarkRow(p, r) ==
    payout' = IF payout[p].state = "sending"
              THEN [payout EXCEPT ![p].state = "paid", ![p].ref = r]
              ELSE payout

MarkPaid(t) ==
    /\ thread[t].pc = "replied"
    /\ MarkRow(PayoutOf(t), thread[t].ref)
    /\ Goto(t, "ack")
    /\ UNCHANGED <<settlement, request, queue, lease, process, orphans, ledger, faults>>

MarkPaidError(t) ==
    /\ thread[t].pc = "replied"
    /\ Fault("db")
    /\ UNCHANGED payout \/ MarkRow(PayoutOf(t), thread[t].ref)
    /\ Goto(t, "retry")
    /\ UNCHANGED <<settlement, request, queue, lease, process, orphans, ledger>>

(* _ack *)
Ack(t) ==
    /\ thread[t].pc = "ack"
    /\ Unprocess(t)
    /\ Release(t)
    /\ UNCHANGED <<database, request, jobs, retry, dead, lease, process, orphans, ledger, faults>>

(* The LREM fails, before or after Redis ran it: a retryable error. *)
AckError(t) ==
    /\ thread[t].pc = "ack"
    /\ Fault("redis")
    /\ UNCHANGED processing \/ Unprocess(t)
    /\ Goto(t, "retry")
    /\ UNCHANGED <<database, request, jobs, retry, dead, lease, process, orphans, ledger>>

(* Mutation: a job out of attempts is dropped. *)
RetryOrDrop(t) ==
    /\ thread[t].pc \in {"retry", "reject"}
    /\ \E e \in Errors :
          LET next == NextAttempt(JobOf(t), e)
          IN  retry' = IF thread[t].pc = "retry" /\ next.attempt < MaxAttempts
                       THEN retry \cup {next} ELSE retry
    /\ Unprocess(t)
    /\ Release(t)
    /\ UNCHANGED <<database, request, jobs, dead, lease, process, orphans, ledger, faults>>

(* _retry_or_dead: one MULTI that adds the next attempt, to the retry set  *)
(* or to the dead list, and removes the job from the processing list.      *)
Retryable(t, attempt) == thread[t].pc = "retry" /\ attempt < MaxAttempts

RetryOrDead(t) ==
    /\ thread[t].pc \in {"retry", "reject"}
    /\ \E e \in Errors :
          LET next == NextAttempt(JobOf(t), e)
          IN  IF Retryable(t, next.attempt)
              THEN retry' = retry \cup {next} /\ UNCHANGED dead
              ELSE dead' = Cons(next, dead) /\ UNCHANGED retry
    /\ Unprocess(t)
    /\ Release(t)
    /\ UNCHANGED <<database, request, jobs, lease, process, orphans, ledger, faults>>

(* The MULTI fails: the exception ends in the pool's future. *)
RetryOrDeadError(t) ==
    /\ thread[t].pc \in {"retry", "reject"}
    /\ Fault("redis")
    /\ Release(t)
    /\ UNCHANGED <<database, request, queue, lease, process, orphans, ledger>>

PayoutThread == \E t \in Threads :
    \/ Claim(t) \/ ClaimSkipped(t) \/ ClaimError(t) \/ MarkPaid(t) \/ MarkPaidError(t)
    \/ Ack(t) \/ AckError(t) \/ RetryOrDead(t) \/ RetryOrDeadError(t)

----------------------------------------------------------------------------
(* The bank *)

(* A request it carries out: an entry that has the key is replayed, any    *)
(* other request moves money.                                              *)
Replay(req, r) == /\ \E e \in ledger : e.key = req.key /\ e.ref = r
                  /\ UNCHANGED ledger
MoveMoney(req, r) == /\ \A e \in ledger : e.key # req.key
                     /\ r \in FreshRefs
                     /\ ledger' = ledger \cup {[ref |-> r, payout |-> req.payout, key |-> req.key]}
Accept(req, r) == Replay(req, r) \/ MoveMoney(req, r)

BankAccepts(t) ==
    /\ t \in Waiting
    /\ \E r \in Refs : /\ Accept(RequestOf(t), r)
                       /\ thread' = [thread EXCEPT ![t].pc = "replied", ![t].ref = r]
    /\ UNCHANGED <<database, request, queue, lease, process, orphans, faults>>

(* It carries out a request whose client is gone. *)
BankAcceptsLate(req) ==
    /\ req \in orphans
    /\ orphans' = orphans \ {req}
    /\ \E r \in Refs : Accept(req, r)
    /\ UNCHANGED <<database, request, queue, lease, process, thread, faults>>

(* 5xx or 429: nothing moved. *)
BankUnavailable(t) ==
    /\ t \in Waiting
    /\ Fault("bank")
    /\ Goto(t, "retry")
    /\ UNCHANGED <<database, request, queue, lease, process, orphans, ledger>>

(* Any other 4xx: not retryable. *)
BankRefuses(t) ==
    /\ t \in Waiting
    /\ Fault("refuse")
    /\ Goto(t, "reject")
    /\ UNCHANGED <<database, request, queue, lease, process, orphans, ledger>>

(* TransportError: the request is still on its way, or its reply is lost. *)
BankTimeout(t) ==
    /\ thread[t].pc \in {"await", "replied"}
    /\ Fault("bank")
    /\ orphans' = orphans \cup (IF t \in Waiting THEN {RequestOf(t)} ELSE {})
    /\ Goto(t, "retry")
    /\ UNCHANGED <<database, request, queue, lease, process, ledger>>

Bank == \/ \E t \in Threads : \/ BankAccepts(t) \/ BankUnavailable(t)
                              \/ BankRefuses(t) \/ BankTimeout(t)
        \/ \E req \in orphans : BankAcceptsLate(req)

----------------------------------------------------------------------------
(* Housekeeping: one pass per 5 s until `stop` is set *)

HkStep(w, step) == hk' = [hk EXCEPT ![w].pc = step]

Wake(w) ==
    /\ status[w] = "up" /\ hk[w].pc = "wait"
    /\ HkStep(w, "beat")
    /\ UNCHANGED <<database, request, queue, lease, status, thread, orphans, ledger, faults>>

(* heartbeat, and the start of recover_dead_workers, which skips itself. *)
Heartbeat(w) ==
    /\ hk[w].pc = "beat"
    /\ lease' = lease \cup {w}
    /\ hk' = [hk EXCEPT ![w] = [pc |-> "scan", todo |-> Workers \ {w}, from |-> None]]
    /\ UNCHANGED <<database, request, queue, status, thread, orphans, ledger, faults>>

(* An owner with a lease, or without a processing list, is passed over. *)
SkipOwner(w, o) ==
    /\ hk[w].pc = "scan" /\ o \in hk[w].todo
    /\ o \in lease \/ processing[o] = <<>>
    /\ hk' = [hk EXCEPT ![w].todo = @ \ {o}]
    /\ UNCHANGED <<database, request, queue, lease, status, thread, orphans, ledger, faults>>

FindDeadOwner(w, o) ==
    /\ hk[w].pc = "scan" /\ o \in hk[w].todo
    /\ o \notin lease /\ processing[o] # <<>>
    /\ hk' = [hk EXCEPT ![w] = [pc |-> "move", todo |-> @.todo \ {o}, from |-> o]]
    /\ UNCHANGED <<database, request, queue, lease, status, thread, orphans, ledger, faults>>

(* LMOVE processing:owner jobs RIGHT RIGHT; the lease is not looked at again. *)
Recover(w) ==
    LET o == hk[w].from IN
    /\ hk[w].pc = "move" /\ processing[o] # <<>>
    /\ processing' = [processing EXCEPT ![o] = Front(@)]
    /\ jobs' = Append(jobs, Last(processing[o]))
    /\ UNCHANGED <<database, request, retry, dead, lease, process, thread, orphans, ledger, faults>>

Recovered(w) ==
    /\ hk[w].pc = "move" /\ processing[hk[w].from] = <<>>
    /\ hk' = [hk EXCEPT ![w] = [pc |-> "scan", todo |-> @.todo, from |-> None]]
    /\ UNCHANGED <<database, request, queue, lease, status, thread, orphans, ledger, faults>>

(* The script moves what is due, in the order it fell due, to the right of *)
(* the list. Which jobs are due is left open.                              *)
Promote(w, due) ==
    /\ hk[w].pc = "scan" /\ hk[w].todo = {}
    /\ Cardinality(due) <= PromoteBatch
    /\ retry' = retry \ due
    /\ \E order \in SetToSeqs(due) : jobs' = jobs \o order
    /\ hk' = [hk EXCEPT ![w] = Asleep]
    /\ UNCHANGED <<database, request, dead, processing, lease, status, thread, orphans, ledger, faults>>

(* RedisError: the rest of the pass is skipped. *)
PassAborted(w) ==
    /\ hk[w].pc # "wait"
    /\ Fault("redis")
    /\ hk' = [hk EXCEPT ![w] = Asleep]
    /\ UNCHANGED <<database, request, queue, lease, status, thread, orphans, ledger>>

Housekeeping == \E w \in Workers :
    \/ Wake(w) \/ Heartbeat(w) \/ (\E o \in Workers : SkipOwner(w, o) \/ FindDeadOwner(w, o))
    \/ Recover(w) \/ Recovered(w) \/ (\E due \in SUBSET retry : Promote(w, due))
    \/ PassAborted(w)

(* The runbook's RPOPLPUSH settle:dead settle:jobs. *)
OperatorRequeues ==
    /\ dead # <<>>
    /\ Fault("operator")
    /\ dead' = Front(dead)
    /\ jobs' = Cons(Last(dead), jobs)
    /\ UNCHANGED <<database, request, retry, processing, lease, process, thread, orphans, ledger>>

----------------------------------------------------------------------------
Next == API \/ Process \/ PayoutThread \/ Bank \/ Housekeeping \/ OperatorRequeues

Spec == Init /\ [][Next]_vars

----------------------------------------------------------------------------
(* Safety *)

(* A settlement is paid at the bank at most once, whatever is redelivered, *)
(* timed out, retried, stolen or restarted: what went wrong on 14 Aug.     *)
(* Rests on the conditional UPDATE of execute_settlement, the key claim    *)
(* keeps in the row, and the bank's replay of that key.                    *)
MerchantPaidOnce ==
    \A d, e \in ledger : payout[d.payout].of = payout[e.payout].of => d = e

(* A payout the database calls paid is in the bank's ledger under the      *)
(* reference it records: mark_paid never runs ahead of the bank.           *)
RecordMatchesBank ==
    \A p \in Payouts : payout[p].state = "paid" =>
        \E e \in ledger : e.payout = p /\ e.ref = payout[p].ref

(* The key under which money moved is the key in the payout's row, so that *)
(* a later attempt, or a person who follows the runbook, finds it there.   *)
MoneyCarriesRowKey ==
    \A e \in ledger : payout[e.payout].key = e.key

(* A pushed payout that is not paid has a job in some queue: no crash,     *)
(* lost reply, stale retry or recovery by another worker drops the last    *)
(* copy.                                                                   *)
JobsFor(p, list) == \E i \in 1..Len(list) : list[i].payout = p
NoJobLost ==
    \A p \in Payouts : request[p] = "pushed" /\ payout[p].state # "paid" =>
        \/ JobsFor(p, jobs) \/ JobsFor(p, dead)
        \/ \E j \in retry : j.payout = p
        \/ \E w \in Workers : JobsFor(p, processing[w])

(* What those rest on, and the proofs make an induction of: a settlement   *)
(* has one row, which keeps its key once it has one;                       *)
OneRowPerSettlement ==
    /\ \A p \in Payouts : IF payout[p].state = "none"
                          THEN payout[p].of = None /\ payout[p].key = None
                          ELSE /\ payout[p].of \in Settlements
                               /\ settlement[payout[p].of] = "executing"
    /\ \A p, q \in Payouts : payout[p].of = payout[q].of /\ payout[p].of # None => p = q

(* a request for a row, on the wire or carried out, has the row's key;     *)
KeysFollowRows ==
    /\ \A p, q \in Payouts : payout[p].key = payout[q].key /\ payout[p].key # None => p = q
    /\ \A t \in Threads : thread[t].pc \in {"await", "replied"} =>
          thread[t].key = payout[PayoutOf(t)].key
    /\ \A o \in orphans : o.key = payout[o.payout].key
    /\ MoneyCarriesRowKey

(* a key and a reference name one entry of the ledger, and what the bank   *)
(* answered is in it.                                                      *)
LedgerIsIndexed ==
    /\ \A d, e \in ledger : d.key = e.key \/ d.ref = e.ref => d = e
    /\ \A t \in Threads : thread[t].pc = "replied" =>
          \E e \in ledger : e.payout = PayoutOf(t) /\ e.ref = thread[t].ref
    /\ RecordMatchesBank

(* Only the job of a payout that is paid is acknowledged.                  *)
AcknowledgedIsPaid ==
    \A t \in Threads :
        /\ thread[t].pc \in {"await", "replied"} => payout[PayoutOf(t)].state \in {"sending", "paid"}
        /\ thread[t].pc = "ack" => payout[PayoutOf(t)].state = "paid"

(* A payout's state and key only move forward: no stale worker resets a    *)
(* row another worker advanced.                                            *)
Rank(state) == CASE state = "none" -> 0 [] state = "queued" -> 1
                 [] state = "sending" -> 2 [] state = "paid" -> 3
RowForward(p) ==
    /\ Rank(payout[p].state) <= Rank(payout'[p].state)
    /\ payout[p].key # None => payout'[p].key = payout[p].key
    /\ payout[p].state = "paid" => payout'[p] = payout[p]
RowsOnlyMoveForward == [][\A p \in Payouts : RowForward(p)]_vars

(* The pipeline keeps the promise: PayoutPromise, with the bank's ledger   *)
(* read by settlement and the rows that say 'paid' as what is recorded.    *)
RowsOf(s) == {p \in Payouts : payout[p].of = s}
MovedFor(s) == {e.ref : e \in {d \in ledger : d.payout \in RowsOf(s)}}
RecordedFor(s) == {payout[p].ref : p \in {q \in RowsOf(s) : payout[q].state = "paid"}}

Promise == INSTANCE PayoutPromise WITH
    owed <- {s \in Settlements : settlement[s] = "executing"},
    moved <- [s \in Settlements |-> MovedFor(s)],
    recorded <- [s \in Settlements |-> RecordedFor(s)]

KeepsPromise == Promise!Spec

----------------------------------------------------------------------------
(* Fairness: handlers, threads and loops that can take their next step do; *)
(* the bank answers what it is asked; a key that nobody refreshes expires; *)
(* the deployment starts its pods. No fault and no late acceptance is owed. *)
ThreadProgress(t) ==
    Claim(t) \/ ClaimSkipped(t) \/ BankAccepts(t) \/ MarkPaid(t) \/ Ack(t) \/ RetryOrDead(t)

PassProgress(w) ==
    \/ Wake(w) \/ Heartbeat(w) \/ (\E o \in Workers : SkipOwner(w, o) \/ FindDeadOwner(w, o))
    \/ Recover(w) \/ Recovered(w) \/ (\E due \in SUBSET retry : Promote(w, due))

(* A retry's due time comes and stays: a promotion in the future takes it. *)
Due(p) == \E w \in Workers, due \in SUBSET retry :
              (\E j \in due : j.payout = p) /\ Promote(w, due)

Fairness ==
    /\ \A p \in Payouts : WF_vars(EnqueuePayout(p)) /\ SF_vars(Due(p))
    /\ \A t \in Threads : WF_vars(ThreadProgress(t))
    /\ \A w \in Workers :
          /\ WF_vars(StartWorker(w)) /\ WF_vars(RestartInPlace(w))
          /\ WF_vars(\E s \in Slots : Fetch(w, s))
          /\ WF_vars(StopFetching(w)) /\ WF_vars(DrainDone(w)) /\ WF_vars(Exit(w))
          /\ WF_vars(status[w] # "up" /\ LeaseExpires(w))
          /\ WF_vars(PassProgress(w))

FairSpec == Spec /\ Fairness

(* Every job the API pushed ends: its payout is paid, or the job has used  *)
(* up its attempts and is where the runbook has a person look at it. A     *)
(* crash or a lost lease between two attempts costs no attempt and stops   *)
(* nothing. The one way not to end is a job stranded in the processing     *)
(* list of a worker that is up: the MULTI of _retry_or_dead failed, or the *)
(* reply of BLMOVE was lost, no thread has it, and this worker never reads *)
(* the list again while others respect its lease.                          *)
Exhausted(p) == \E i \in 1..Len(dead) : dead[i].payout = p /\ dead[i].attempt = MaxAttempts
Stranded(p) ==
    \E w \in Workers : /\ status[w] = "up" /\ JobsFor(p, processing[w])
                       /\ \A s \in Slots : thread[<<w, s>>].pc = "idle" \/ PayoutOf(<<w, s>>) # p
PushedIsSettled ==
    \A p \in Payouts :
        request[p] = "pushed" ~> payout[p].state = "paid" \/ Exhausted(p) \/ []Stranded(p)

(* The runbook's "A dead worker's jobs are recovered automatically": what  *)
(* a dead worker held leaves its processing list.                          *)
DeadWorkersJobsAreRecovered ==
    \A w \in Workers, p \in Payouts :
        status[w] = "down" /\ JobsFor(p, processing[w]) ~> ~JobsFor(p, processing[w])
=============================================================================
