# settle: a verification project in TLA+

settle executes the daily settlements of merchants: an HTTP API opens a payout
row and queues a job, workers take the job, ask the bank to move the money
under an idempotency key and record the outcome. The project models the parts
of the repository that carry that logic, model-checks them with TLC on small
instances, and proves the central properties with TLAPS for every value of the
constants. Paths below are relative to the repository.

## 1. Inventory

| Component | State it keeps | Operations | Made correct by |
|---|---|---|---|
| API (`app/settle/api.py`, `gunicorn.conf.py`) | rows of `settlements` and `payouts`; threads and connections in use | create settlement; execute: one transaction, then `LPUSH`; list, report, liveness; graceful shutdown | a settlement gets one payout row; what an answer says is so; threads and connections come back |
| Redis queue (`queue.py`) | lists `jobs`, `dead`, one `processing` list per worker; sorted set `retry`; a lease key per worker | LPUSH, BLMOVE, LREM, LMOVE, the promotion script, SET EX | a pushed job stays in some queue until its payout is paid |
| Worker (`worker.py`) | process status, thread pool, `inflight`, `stop`, housekeeping pass | fetch, `handle`, ack, retry or dead-letter, heartbeat, recovery, promotion, drain | no double payment; rows only move forward; dead workers' jobs come back |
| Bank client and mock (`bank.py`, `bankmock/main.py`) | ledger keyed by `Idempotency-Key` | accept, replay, refuse, fail, time out | money moves once per key |
| Migration runner (`migrate.py`, `migrations/`) | `schema_migrations`, catalog, table locks; the text of a file | split and apply files in order, drop invalid indexes, retry on lock timeout | old and new application read the same rows at every step; what runs is what is written |
| Migration linter (`lint_migrations.py`) | none | reads the text of a file | a file that passes does nothing forbidden |
| Release pipeline (`deploy.yml`, `scripts/ci/`) | revisions of two Deployments, the verified-image annotation, migration Jobs | record target, migrate, roll out, verify, mark, roll back | schema before code; a concluded run leaves api and worker on one release; the rollback target is a verified one |
| Database access (`db.py`, `check_db_budget.py`) | connection pool; pods of both Deployments | checkout, ping, back-off; budget arithmetic | every error reaches a retry; pods fit `max_connections` |
| Queue metrics, reconciliation, alert (`worker.py:185-212`, `settle-slo-rules.yaml`) | gauges per worker, the rule's pending time | export, reconcile, evaluate, replay | a payout that is not paid pages somebody |
| Dashboards, policy, Terraform, local tools | configuration | none of their own | out of scope, see section 8 |

How they interact: API and worker share PostgreSQL rows and Redis lists and
never call each other. Each worker process runs a fetch loop, a pool of payout
threads and a housekeeping thread; they share `stop`, `inflight` and the
processing list. Workers see each other only through leases and processing
lists. The migration runner meets the application in row and table locks. The
release pipeline starts the runner as a Job, and rolls the Deployments only when
it has succeeded. Both Deployments and the runner share the connections of one
PostgreSQL server, which nothing but arithmetic in CI divides among them.

What is hard here:

* the money moves at the bank *before* the row says so, so every crash, lost
  reply and timeout in between ends in a second delivery;
* a lease is a guess about another process: recovery checks it and moves jobs
  in separate calls, and a draining worker stops renewing it;
* each thread writes Redis and PostgreSQL without a common transaction;
* the release pipeline is a script with a cluster as its only memory: what a cut
  run leaves behind is what the next one takes for given;
* a request passes through four limited resources (thread, connection, row lock,
  Redis), each with its own timeout, and the answer is the client's only knowledge;
* the gauges that should tell of a lost payout are kept by processes that fail;
* two application versions write two columns of one row while a third party
  fills one of them in.

`PROJECT.json` lists each hazard at its line, with the properties that watch it.

## 2. Modules

| Module | What it is |
|---|---|
| `PayoutPromise` | abstract: a settlement is executed, its money moves once, the reference is recorded once |
| `PayoutPipeline` | API, queues, workers and bank; implements `PayoutPromise` (`KeepsPromise`) |
| `MCPayoutPipeline` | model values and symmetry for TLC |
| `PayoutPipelineProofs` | types; a merchant is paid once; records are true; rows go forward; no job is lost; the promise is kept |
| `WorkerLease` | the clocks behind one lease: heartbeats, drain, another worker's passes |
| `WorkerLeaseProofs` | its types and its properties, for all durations; what durations would keep a job with its worker |
| `Migrations`, `MCMigrations` | 0008 to 0011 applied beside both application versions |
| `MigrationsProofs` | column agreement, completeness and valid indexes, for all rows and faults |
| `Release`, `MCRelease` | the deploy job and its scripts, with everything in it that may fail |
| `ReleaseProofs` | its properties, for all releases, runs and faults, the rollback target included |
| `ApiService`, `MCApiService` | one API process: threads, connections, statements, push, time limits, shutdown |
| `ApiServiceProofs` | one execute wins, answers are true, timeouts leave nothing; threads and connections stay within their limits and come back, slow reports included; short requests outlive SIGTERM; for all sizes and failures |
| `ConnectionBudget`, `MCConnectionBudget` | pods and connections during rollouts, against the script's formula |
| `ConnectionBudgetProofs` | the formula covers them, for all manifests |
| `PayoutFreshness`, `MCPayoutFreshness` | gauges, reconciliation, the alert rule and its replay |
| `PayoutFreshnessProofs` | the replay is the rule, and an unpaid payout pages in time, for all payouts and workers |
| `MigrationText`, `MCMigrationText` | how runner, linter and PostgreSQL read one file |
| `MigrationTextProofs` | the runner executes what is written and the linter sees what runs, for texts of any length |

### PayoutPipeline and the code

| Variable | Code |
|---|---|
| `settlement`, `payout` | columns `settlements.status`; `payouts.state`, `settlement_id`, `bank_idempotency_key`, `bank_ref` |
| `request` | where `execute_settlement` is: committed, pushed, or lost between |
| `jobs`, `dead`, `processing`, `retry`, `lease` | the Redis keys; the left end of a list is the first element |
| `status` | `run()`: up; stopping (SIGTERM while BLMOVE may be pending); draining; exiting (after `_drain`, waiting for threads); down |
| `hk` | a housekeeping pass: its step, the owners SCAN has still to give, the owner being emptied |
| `thread` | a pool thread: step of `process`, job, key, bank reference |
| `orphans` | bank requests on the wire that nobody waits for any more |
| `ledger` | the bank's entries |

`_retry_or_dead` is one MULTI and so one action; `claim` is one UPDATE;
`handle` is split at every network call. Every Redis or database error, bank
timeout, lost lease or kill is an action that spends one of `MaxFaults`, so a
run says which kinds it allows. A timed-out or killed bank request stays in
`orphans` and may be accepted at any later time (`BankAcceptsLate`). A database
error at `claim` or `mark_paid`, and a Redis error at the acknowledgement,
appear in two variants each: the write took effect or it did not.

Amounts, currencies, log lines and metric values are left out. Backoff delays
are abstracted: any retry may be due at any pass, in any order. Two branches of
`process` are in the code but no state reaches them: malformed JSON (all
entries are written by `json.dumps`) and `PermanentError` (a row that exists is
queued, sending or paid).

A pod's name is used again in the model only when nothing of the former pod is
left (`StartWorker`), which stands for names never used before with a finite
set; `RestartInPlace` is the container restart that keeps the name.
Keys and references are drawn from finite supplies, as `uuid4` never repeats.
A run that exhausts a supply just stops taking new ones.

### WorkerLease and the code

A tick is 5 s. `Lease`, `Period` and `Drain` are `WORKER_LEASE_SECONDS` (30),
`stop.wait(5)` and `WORKER_SHUTDOWN_TIMEOUT` (45). `Call` is a Redis call, 3 s to
connect and 5 s to answer (`queue.py:14-15`), so 2 ticks; it stands for all attempts
the client makes of one call, and a command Redis carries out after its client has
given up appears only as one that failed and took effect. `LastFetch` is the fetch
loop's way out, `Work` a job: claim 2 + 3 + 5 s (pool, connect, statement), bank 10 s
for each of its phases, `mark_paid` 2 + 3 + 5 s, acknowledgement 5 s, 55 s in all,
which is 11 ticks. `Pass` is the rest of a housekeeping pass. The code sets no limit
for it: `reconcile` alone may use 5 s to connect to the bank and 5 s to read, 2 for
the pool, 3 to connect and 5 for its query (`worker.py:200-206`), after recovery and
promotion. The runs give it 20 s (4 ticks), and no property depends on its being
short: what a short one would give is `RoomForPass`, the hypothesis of one theorem.

`status`, `ttl`, `hk`, `missed`, `busy`, `list` and `clock` are the owner's; `rescue`
is the housekeeping thread of one other worker that is up. `list` tells the job a
thread has (`hand`) from jobs no thread has (`left`): a BLMOVE whose reply is lost
(`FetchLost`) and a retry whose MULTI fails (`JobLeft`) leave one behind. `Tick` does
not pass a deadline whose step has not been taken; the step may always come earlier.

### Migrations and the code

`row` is the committed version of each row and `tx` what an open transaction
wrote: holding it is holding the row lock. `lock` is the runner's ACCESS
EXCLUSIVE request; while it is queued, later writers wait behind it, which is
PostgreSQL's rule and the reason for `lock_timeout` in 0008. `OnInsert` and
`OnUpdate` are the trigger. v1.7 is not in the repository: its statements are
those of `app/tests/integration/test_migrations_pg.py:63-64`. v1.9 is rolled
out after the runner has succeeded (`scripts/ci/deploy.sh:93`), so its writes
need 0011; v1.7's go on, as in a rolling update or a rollback. `"repeat"`, an
UPDATE that sets the status a row already has, is a kind of fault only in the
sense that a run chooses it.

### Release and the code

A release is an image digest with its version; `Broken` says on which Deployment
its pods never get ready, `Bad` whether it fails a gate of `verify_release.py`.
`live` and `before` are the current template of a Deployment and that of the
revision before it: consecutive revisions differ, so these two are all that
`apply`, `rollout undo` and `set image` ever look at (`revisionHistoryLimit` 5).
A template is an image and the version annotation kustomize puts on it, because
a pinned image keeps the annotation of the template it is pinned in.
`step`, `at`, `image` and `prev` are the run's own, `outcome` how the last one
ended: released, rolled back, failed without a complete rollback, or cut off
with its runner. `Interrupted` is a step that fails or is cancelled though the
release is fine; at `apply` it may have reached some of the Deployments. A failed
`kubectl get` of the target reads as empty (`|| true`). Under `set -e` a failed
undo, or a status that does not get there, ends `rollback.sh` where it is.
The freeze window needs a clock and is left out: a dispatch is one outside it.

### ApiService and the code

`req` is where a request is: waiting for one of the framework's threads
(`queued`), a report in its simulated cost, which holds a thread and no connection
(`sleep`, `api.py:197-198`), for a connection (`pool`), on the way to a checked connection
(`connect`, which is the pre-ping or a new connection), at a statement of its
handler (`sql`), or at the LPUSH (`push`, after `with engine.begin()` has given the
connection back). `Program` lists the statements of a handler; what a transaction
wrote counts at its commit (`Committed`). A statement ends by itself, by
`statement_timeout` or `lock_timeout` (`StatementCancelled`), or with its
connection; at the COMMIT the connection may be lost before or after it took
effect. `Blocked` is the row lock. Answers are those of `db_unavailable`, the
handlers, and 500. `settlement`, `rows` and `jobs` outlive the process, which gets
SIGTERM, drains for `graceful_timeout`, or dies.

A stage may end at any time until its ticks are used up. The run's ticks stand for the
limits in small numbers, not to scale: pool (2 s), connect (3 s), a statement (5 s), lock
(2 s), commit and Redis (3 s to connect, 5 s to answer) are one tick each, a report's
query (15 s) and its cost (6 s in `deploy/k8s/overlays/local`, none elsewhere) two,
`graceful_timeout` (25 s) five, so that, as in seconds, it covers pool, connect,
statement and commit, and neither an execute nor a report. The theorems are for all
values. `PushTimeout` stands for all attempts of the Redis client. The default thread pool is 40 for at most 2
connections per process; the run has 3 for 2. A commit has no limit in the code
(`statement_timeout` does not end a COMMIT that waits for the disk); `CommitTime` is
an assumption.

### ConnectionBudget and the code

`Resolve` to `Admitted` are the script, with its defaults where a value is
missing; `Processes` and `PoolLimit` are what `gunicorn.conf.py` and `config.py`
make of the same manifests, with theirs. `pods` and `leaving` count what
Kubernetes has: it starts pods up to `desired` plus surge, takes any away, and the
HPA moves `desired`. A pod has the sizes of the manifests it was started with;
`Apply` requires that the pods before the last release are gone, so two sets of
sizes are all there are. `job` is the migration Job: one connection for the lock
and one for the file.

### PayoutFreshness and the code

A tick is one evaluation of the rule. `place` and `queue` are a view of the lists of
`PayoutPipeline`, reduced to what the gauges can see, with the row that was
committed and never pushed (`nowhere`). `gauges` holds, per worker, whether its
gauge exceeds the rule's limit; a pass sets it or leaves it, and a worker's end
removes its series. `Evaluate` is the rule with its `for:`, `Replay` the counter of
`first_sustained`. The run's tick is coarse: 10 minutes of the oldest job are less
than a tick, the 15 of a stale payout one, and `for: 5m` one.

### MigrationText and the code

A text is a sequence of tokens: the quotes the splitter knows (`'` and two dollar
tags), two that only PostgreSQL knows (`$b1$`, for the tags with digits which
`\$[A-Za-z_]*\$` at `migrate.py:70` misses, and `dquote`, a quoted identifier's),
comments (plain, the runner's header, and a lint:allow for each shape of rule and
for the baseline), blanks, semicolon, and words that matter to the linter.
`split_statements` is its loop, one action per branch, over positions; a statement
is the set of positions it copies, so nothing is put together character by
character. `at` is the loop of `apply_file` over them: `Execute` runs the statement
it has come to, `Skip` is its `continue`. `Mode` is PostgreSQL's reading of the same
text, what each position is inside of. `Init` admits every such text.

`Errors` is `lint()`: the rules by shape (`Matches`), each passed over for its
lint:allow or, if it is destructive, in `contract/`; `lock_timeout` but for `lint:allow
baseline`; CONCURRENTLY and the header. "destructive" stands for the five rules of
`DESTRUCTIVE`, "rewriting" for `add-column-not-null` and `volatile-default`, which
both look from ADD COLUMN up to a semicolon, "blocking" for the index rule with its
lookahead. `migrations/0007` is one of the texts: it allows two rules, builds an
index with writers locked out and sets no `lock_timeout`.

Two conditions are part of properties, not of the texts. `Familiar`: what opens a
quote is known to the splitter. `CommentsStandApart`: a comment follows a blank, a
semicolon or a comment; otherwise the splitter makes `ab` of `a--x` and `b` on the
next line (`migrate.py:59-62`).

## 3. Runs

| Run | Question | Result |
|---|---|---|
| `redelivery` | one payout, two workers, three faults, an operator's re-queue included: can copies of a job pay twice, run ahead of the bank, reset the row, or all vanish? | no |
| `batch` | two payouts, two workers of two threads, any one fault, an in-place restart included: do payouts or threads get mixed up? is a last copy dropped? is every step one of `PayoutPromise`? | no; no; yes |
| `settles` | liveness with `MaxAttempts` 2 under kills, SIGTERM, lost leases, bank and Redis errors: does a pushed payout end paid or dead-lettered after its last attempt? | yes, unless its job is left for ever in the list of a worker that is up |
| `restart_in_place` | are a dead worker's jobs always recovered, as the runbook says? | no, a finding |
| `lease` | passes of up to 20 s, a failed heartbeat, jobs left behind by failed calls: what does it take for a worker that is up to lose its lease? how late is recovery? does a lease outlive a drain that gives up on its work? | slow passes and failed heartbeats that add up to 30 s, nothing less; one lease and one pass; no |
| `drain_theft` | with passes so short that only the drain matters: is work taken from a worker that is still draining? | yes, a finding |
| `migrate` | kills, lock timeouts, failed builds, rollbacks, repeated writes: do columns agree, are indexes valid, is every row filled after 0011? does the runner get through when it is started again? | yes, unless stuck at a skipped row |
| `sql` | every text of up to four tokens, and of six or seven of those that matter: does the runner execute the statements that are written? does the linter see what runs? | yes, where the splitter knows the quotes; yes, but for lint:allow and behind an executed `--` |
| `release` | four runs of the pipeline, a good, a bad and a broken release, three faults of any kind: does code run before its schema? is the recorded release what ran? do concluded runs leave one release? is the target the verified one as long as nothing fails by itself? | no; yes; yes; yes |
| `budget` | releases with other sizes, scaling, rollbacks and the migration Job at once: do pods hold more connections than the formula says? | no, under its assumptions |
| `api` | four of six requests, two of them executes of one settlement, a fault and a SIGTERM anywhere: are answers true? does one execute win? do threads come back? whom does `graceful_timeout` cut off? | yes; yes; yes, in a bounded time; only execute and report |
| `freshness` | two payouts anywhere, two workers that come and go, failing passes: is somebody paged in time? does the replay fire when the rule does? | yes, with one reconciling worker per interval; yes |

Bounds and why they are enough. Two workers are one that is wrong about
the other; two payouts are one that may take the other's key, row or queue
entry, and two threads share a list. Three faults suffice to pay at the
bank, lose the answer, and lose the retry or the lease as well. `MaxAttempts` 3
lets a job be retried twice before it is dead-lettered; `settles` and `batch`
have 2, so that the limit is met. `PromoteBatch` 2 is never exceeded by the two
payouts, so the LIMIT of the script is not what the runs test. Two rows and two
indexes are what a batch may take one of; three faults are a kill of each run at a
different file. Four runs of the pipeline are a good release, two that go wrong
in different ways, and one that starts from what they left. In `api` three threads
and two connections are the smallest with a thread beyond the pool; four requests
fill the threads and leave one waiting, and two executes race for one row. In
`budget` two terminating pods are one more than the formula counts, so its
assumption fails in some states and holds in others. In `freshness` one payout may
hide the other in the queue, and one worker's gauges differ from the other's. In
`sql` six tokens open and close two kinds of nesting inside each other with a
separator in each. Keys, references, threads and workers are interchangeable in
`redelivery` and `batch`, the two executes in `api`, payouts and workers in
`freshness`, and these runs check no liveness and use that symmetry. Every run
checks for deadlock except `release`, where nobody dispatches another run,
and `sql`, where a file comes to its end. Four tokens of the whole alphabet
are a word, a quote that opens and one that closes, and what is between; the alphabets of
six or seven are chosen each for one part: nested quotes of either kind, a rule of the
linter with what may stand between its words, the header.

## 4. Findings

* **Restart in place** (`worker.py:173`). A killed container restarted in its
  pod has the same `WORKER_ID`. It renews the lease of the list its former
  process left, others skip it for the lease, and it skips itself: the job stays
  there until the pod is replaced. `docs/RUNBOOK.md:140-141` says a dead
  worker's jobs are recovered automatically. Nothing is paid twice or lost.
* **Drain without heartbeat** (`worker.py:216`). `stop` ends the housekeeping
  loop, so the 30 s lease runs out during a 45 s drain and another worker takes
  the job in hand. `app/tests/test_worker.py:99`: "must not steal work from a
  live worker". `KeepsJobsWhileDraining` proves what durations would do.
What else was met on the way, beside what the runs check:

* *Slow pass* (`worker.py:222`). The thread that renews the lease also reconciles.
  A pass of 20 s, the wait of 5 s and one call to Redis are the 30 s of the lease: a
  worker that is up loses its jobs to another one without any heartbeat failing,
  against the same test. `LapsesOnlyWhenSlow` says exactly what it takes,
  `KeepsJobsWhileUp` what durations would do. Nothing is paid twice.
* *Stuck job* (`worker.py:124`). When the MULTI of `_retry_or_dead` fails, or the
  reply of BLMOVE is lost, the job stays in the list of a worker that lives on, with no
  thread that has it: neither retried nor dead-lettered until the pod is replaced.
  `docs/DECISIONS.md:176-177`: "bounded retries with backoff go to a dead-letter
  list". `NoJobLost` holds, for the job is in a queue; `PushedIsSettled` has it
  (`Stranded`) as the one way not to end.
* *Rollback target of a repair* (`deploy.sh:37`). A verified release that is deployed
  again is not its own target: after a runner died while it rolled out another one,
  that unverified one is the target, against the comment at `deploy.sh:25-27`.
  `TargetIsVerified` is about runs in which nothing of the kind happens and does not
  catch this.
* *The slowest endpoint* (`gunicorn.conf.py:20`). The limits a report may use one
  after the other are 31 s with the cost of the local overlay (6 + 2 + 3 + 5 + 15), and
  25 s and a commit without it, where `gunicorn.conf.py:6` says that 25 s cover it.
  `ShortRequestsEnd` excepts the report.
* *Bodies with other tags* (`migrate.py:70`). Of `$b1$ ; $b1$` the splitter makes two
  statements, and a quoted identifier may hold a semicolon or a quote; `migrate.py:48`:
  "Split on semicolons outside quotes, dollar-quoted bodies and comments". No
  migration of the repository has either; `RunsWhatIsWritten` excepts them (`Familiar`).
* *Skipped rows* (`0010:22`). A row locked at the last batch whose transaction
  rolls back stays without state; 0010 is recorded and never runs again, so 0011
  fails at every later run. `Migrates` states it as the one way to get stuck.
  0011 is also what keeps v1.9 away from such rows (`EveryRowHasState`).
* *Scan under the exclusive lock* (`0011:18`). The file lacks the
  `migrate:no-transaction` header, so ADD CONSTRAINT's lock is kept while
  VALIDATE scans, against the file's own comment (`0011:3-4`).
* *Rollback* (`rollback.sh:21`). `rollout undo` leaves ConfigMap and HPA as the failed
  release set them.
* *Defaults* (`check_db_budget.py:89`). Without `GUNICORN_WORKERS` the script counts
  one process, `gunicorn.conf.py:17` starts four; the base sets it. Without pool
  sizes it counts 5 + 10 where `config.py:15-16` gives 2 + 0, on the safe side.
  Its docstring gives 640 connections for the incident, `docs/CHANGES.md:35` 1,323.
* *Shutdown of the API* (`gunicorn.conf.py:20`). An execute may use 28 s
  of limits one after the other, against 25 s of `graceful_timeout`. The lifespan hook sets `draining` only after the last
  request has ended, so readiness does not turn 503 while a pod drains. nginx
  answers 504 after 10 s while the handler goes on, so the client of an execute
  may see 504 for a payout that is made.
* *Threads* (`api.py:77`). A Redis that hangs may hold every thread for 8 s at a
  time, and reports for their cost; /livez waits behind them. The round in which the
  threads come back is 10 s (16 s with the local overlay), and a liveness probe waits
  3 s: the bound says that the process recovers by itself, not that no probe fails. A lost TCP peer is noticed by keepalives only
  after a minute, which no limit above covers and the model leaves out.
* *Freshness* (`settle-slo-rules.yaml:88`). With no worker at all there is no series
  and the rule does not fire. A worker restarted during an outage of the bank
  starts with a stale gauge of zero; one that cannot reconcile keeps its last value,
  also after the payouts are paid.
* *Splitter* (`migrate.py:59`). `a--x` and `b` on the next line become `ab`; BEGIN and
  COMMIT are skipped only when they stand alone; block comments and `E''` literals are
  unknown to it and have no tokens in the model. None of it occurs in `migrations/`.
* *Linter* (`lint_migrations.py:25`). With several blanks before CONCURRENTLY the
  index rule complains of a file that is right; `lint:allow` counts anywhere in the
  file; `lock_timeout` has to occur, not to be set first.

## 5. Properties

Safety. `MerchantPaidOnce`: a settlement has at most one entry in the bank's
ledger. `RecordMatchesBank`: a row says paid only with the bank's reference.
`MoneyCarriesRowKey`: the key the money moved under is in the row.
`NoJobLost`: a pushed, unpaid payout has a job in some queue.
`RowsOnlyMoveForward` (an action property): state and key of a row never go
back. `KeepsPromise`: refinement of `PayoutPromise`, the ledger read by
settlement. `LapsesOnlyWhenSlow`: a worker that is up is without a lease only when its
last pass, the wait and its heartbeats took that long; `RecoveredInTime`;
`AbandonedWorkHasNoLease`: what a drain gives up on is free to be taken over, jobs that
failed calls left included. `ColumnsAgree`, `EveryRowHasState`,
`IndexesAreValid` of the migrations. `SchemaFirst`: whatever a Deployment runs, or
may be undone to, has its migrations applied. `ConcludedRunsAgree`: a run that
ends released or rolled back leaves both Deployments on the release it means.
`RecordedAsItRan` (action): only what ran, was ready and passed is recorded.
`TargetIsVerified`: without interference a run goes back to the release last verified.

`AnswersAreTrue`, `OnePayout`, `RetryIsSafe`: what 202, 409 and a 503 tell the client
holds in the database and the queue. `ThreadsComeBack` bounds the wait for a thread by
the report's cost and the limits of pool and Redis, however slow PostgreSQL is; `ShortRequestsEnd` says
whom the graceful shutdown may cut off. `FormulaCovers`: the script's worst case is the
worst case. `PagedInTime`: an unpaid payout pages somebody, wherever its job is;
`ReplayAgrees`: the replay is the rule. `RunsWhatIsWritten`: where the splitter knows
the quotes, runner and PostgreSQL agree on a text. `LintSeesWhatRuns` and
`ConcurrentlyOutsideTransaction`, for any quotes: what a file that passes the lint executes
and the lint forbids was asked for by lint:allow or stands behind an executed `--`.

Liveness and the fairness it needs. Threads, passes, the fetch loop and the
shutdown are loops of running threads: weak fairness of their next step. The
bank answers a request or the client times out; the deployment controller
starts pods (`StartWorker`), the kubelet restarts containers; a key nobody
refreshes expires. A retry's due time comes and stays, and a later pass takes
it: strong fairness of promotion, because a pass may be aborted or its worker
killed in between. No fault, lock timeout, late acceptance or operator action
is fair. The migration runner is started again by the Job's `backoffLimit` or
by the next release, and application transactions end
(`idle_in_transaction_session_timeout`, `db.py:19`). `Migrates` says that the runner
gets through all files or is, from some point on, for ever behind 0010 with a row
it skipped. `PushedIsSettled` counts a payout as settled
only if it is paid or its job is dead with every attempt used, and has one way out: from
some point on the job is for ever in the list of a worker that is up and of no thread.

## 6. Proofs

Everything is proved from the assumptions named in the modules
(`NoneAssumption`, `AttemptAssumption`, `FaultAssumption`,
`DurationAssumption`, `MigrationAssumption`,
`ReleaseAssumption`, `BudgetAssumption`; `RequestAssumption`, `SizeAssumption`,
`TimeAssumption` of the API; `LimitAssumption`, `PlaceAssumption` of the gauges), which TLC evaluates in the runs.

*Pipeline, types* (`TypeCorrect`). `TypeOK` is not inductive: what a thread or
pass has in hand depends on its step. `TypeInv` adds `InHand`. The operators on
lists (`Cons`, `Front`, `RemoveFirst`, `SetToSeqs`) get their types from the
lemmas at the head of the module.

*Paid once* (`PaidOnce`, `RecordsAreTrue`, `KeysAreInRows`). The inductive
invariant is `TypeInv /\ KeyInv`, three links of a chain:
`OneRowPerSettlement` (from the conditional UPDATE of `execute_settlement`),
`KeysFollowRows` (COALESCE: a request for a row, on the wire, orphaned or
carried out, has the row's key, and no two rows share one) and
`LedgerIsIndexed` (one ledger entry per key and per reference). Two entries for
one settlement are for one row, so under one key, so the same entry. Every
action is one of four kinds, each with its lemma: it leaves rows and ledger
alone (`FrameKeeps`), claims (`ClaimKeeps`), marks paid (`MarkKeeps`), or is
carried out by the bank (`BankKeeps`). No assumption on leases, faults or
numbers of workers enters: the lease limits how often work is repeated, not
whether it is safe.

*Forward, kept, promised* (`RowsKeepForward`, `JobsAreKept`, `PromiseIsKept`). All
rest on `TypeInv /\ KeyInv`. `RowsChange` says what a step may do to the table: open
a row, claim one, mark one. `JobsAreKept` adds `AcknowledgedIsPaid`: a thread at the
acknowledgement has a paid row. Each move of a job between lists leaves a copy
(`JobsStay`, one lemma per Redis operation), so only an acknowledgement can take the
last one, and its payout is paid. `PromiseIsKept` is the refinement: `MoneyChanges`
sorts the steps by what they do to settlement, rows and ledger, and one lemma per
kind shows a step of `PayoutPromise` or none: executing opens the only row of its
settlement, a claim changes nothing promised, the first mark records a reference the
bank has, and the bank moves money only under a key the ledger lacks, which is a
settlement it lacks.

*Lease* (`TypeCorrect`, `LosesLeaseOnlyWhenSlow`, `KeepsJobsWhileUp`,
`KeepsJobsWhileDraining`, `RecoveryIsBounded`, `DrainDropsTheLease`). `LeaseInv` relates
clocks to the TTL. `LeaseCovers`: what is left of the lease and what the loop has used
since its last good heartbeat, the pass, the waits and the calls that failed, make up at
least a lease; so they account for a lease that is gone (`LosesLeaseOnlyWhenSlow`, for
all durations). `NobodyMoves`: under `RoomForPass` a
rescuer that found no lease found a worker that is not up. `DrainOutlives`: a heartbeat
that was under way at SIGTERM has run out by the end of a long drain. `Rescued`: time
since death, the TTL left and the rescuer's round add up to the bound. Two theorems
say what the configuration would need: `KeepsJobsWhileUp` has the hypothesis
`RoomForPass` and `KeepsJobsWhileDraining` the hypothesis `RoomToDrain`, and 30 s satisfy
neither (a pass of 20 s, the wait and a call are a whole lease; run `drain_theft`). `DrainDropsTheLease` has `LongDrain`, a lease
and one Redis call (30 + 8 s) within the drain, which 45 s satisfy.

*Migrations* (`TypeCorrect`, `VersionsAgree`, `StateIsSet`, `IndexesBuilt`).
`IInv` is `TypeOK` with `Mirrored` (a version with a state has the state equal
to its status, and the trigger exists), `TriggerFirst` (the runner is beyond
0008 only with the trigger), `Built` (an index neither absent nor valid is the
one being built) and `Scanned` (the lock is held from ADD CONSTRAINT to the
end of VALIDATE, nobody writes meanwhile, and after 0011 no version, committed
or in a transaction, lacks a state). `StateIsSet` holds although the backfill
may miss rows.

*Release* (`TypeCorrect`, `SchemaBeforeCode`, `RunsAgree`, `RecordsAreVerified`,
`TargetWasVerified`).
`IInv` adds to the properties what the run knows at each step: `Migrated` (what
the pipeline may still bring up has its migrations applied, the target
included), `Seen` (what the rollout and the gates have established), `GoingBack`
(the loop invariant of `rollback.sh`) and `Pending` (a run that is on has no
outcome). `RollKeeps` is the lemma on a new revision, `FailKeeps` the one on
every failed step. The rollback target needs `Undisturbed`: while nothing has
failed by itself and a release has been verified, that release is fine
(`VerifiedIsFine`), both Deployments run it between two runs, and during a run it is
at most one revision away on each Deployment (`Returnable`), so that a rollback
always finds it. A step that is a fault leaves this true because it counts one.

*Budget* (`TypeCorrect`, `BudgetSuffices`). `IInv` adds that both sets of manifests in
force were admitted and that, for each Deployment, `desired` is at most the larger base
and the live pods at most that plus the larger surge (`BoundsHold`). From it, with
the lemmas on products and on the rounding of a percentage, the pods of either
release hold no more than the larger of each term, and with equal terms no more than
what was admitted.

*API, answers* (`OneExecuteWins`, `AnswersHold`, `TimeoutsLeaveNothing`). `IInv` says of each
request what its stage implies: who waits is in the queue once (`QueueInv`), who is
past its UPDATE has a pending settlement and is alone past it (`LockInv`), whose row is
committed is at the push or answered (`RowInv`), and what each answer means
(`AnswerInv`). The commit is the one action in which all four meet (`CommitInv`).
No assumption on the time limits enters.

*API, sizes and time* (`PoolHolds`, `ThreadsReturn`, `ShortOnesEnd`). `RoomInv` adds
the counts (`SizeInv`: requests in a thread, connections out) and the clocks
(`TimerInv`, `WaitInv`). `ThreadsComeBack` says that the time left of a queued request
is never used up; the reason is that threads beyond the pool's connections hold up
at most a report's cost, `PoolTimeout` and then a push. `WaitInv` counts that in rounds
of these three: whoever is at place i of the queue has left k rounds and
v ticks (`Enough`), each whole round lets through as many as there are threads
beyond the pool (`Extra`), and in the v ticks those come back that are at the end of
their wait or at their push (`Spare`). Each kind of step moves one request between
these counts, which is what its lemma shows (`QueueWaits`, `BeginWaits`, `WorkWaits`, the tick).
`ShortOnesEnd` assumes `GracefulSuffices`: pool 2 s, connect 3 s, one statement 5 s
and a commit are less than `graceful_timeout` 25 s, so commits of less than 15 s. `GraceInv`
says that what a list or create request may still need is less than what is left of
it. The request that got no thread before SIGTERM is excepted in the property.

*Freshness* (`TypeCorrect`, `ReplayIsTheRule`, `PagesInTime`). `LinkInv` ties the pending
time of the rule to the counter of the replay, which is the whole of `ReplayAgrees`.
`PagedInTime` needs two more: a worker whose reconciliation succeeded in this
interval exports each payout beyond the limit (`StaleInv`), so the expression has held
for as long as some worker was current or the payout has been stale (`HeldInv`). The
queue's order does not enter; `Holds` says only that it has each of its jobs once.

*Migration texts* (`TypeCorrect`, `FileRunsAsWritten`, `LintIsRight`,
`ConcurrentlyHasHeader`). They hold for texts of every length, under the conditions in the
properties; the assumptions are `InputAssumption` and `NoneAssumption`. The splitter has a
reading of its own, `Seen`, which differs from PostgreSQL's `Mode` by the quotes it does
not know. The inductive invariant `IInv` runs the splitter beside it (`SplitInv`): between
two steps it is inside of the body that `Seen` says its position is inside of, its buffer
is what lies since its last cut without the comments (`Segment`), and `out` holds, in
order, the segments that have ended and are not blank. A jump over a literal or a
comment needs that what is seen stays what it is until the end that `str.find` returns
(`SeenStays`, `SeenEntered`, `FindProperties`). `RanInv` is the loop of `apply_file`: what
has run is what `out` has so far, but for what was skipped. None of this needs familiar
quotes. They enter with `Agreement`, where `Seen` and `Mode` are one, and so only in
`FileRunsAsWritten`; `GapAfterBlank` is its part on joined words. Of the lint,
`MissedIsHidden` is the core: a word that is executed and that the lint does not see is
behind a `--` on its line which the splitter took for part of a quote, and which is
therefore executed, too (`WordsRun`). `RewritingIsSeen` and `BlockingIsSeen` carry the
search for NOT NULL and the lookahead for CONCURRENTLY over what only one of the two
sees. The provers have no induction over a text. What is said of all positions is shown
for the least one for which it would fail (`LeastPosition`, from the well-foundedness of
< that the library proves).

Checked by TLC only: liveness and everything under fairness (`Migrates`,
`PushedIsSettled`), which the prover does not reach. Every invariant and action property
of the passing runs is proved. A call that Redis carries out after its client has given
up, block comments, `E''` literals and words cut in two by a comment are in no module.

## 7. Plan

1. `Release` composed with `Migrations`: how many releases behind its schema the
   running code may be when releases in a row are rolled back (`rollback.sh:5`), when
   the contents of a second set of migrations are there to model; the freeze window.

## 8. Not modelled

Terraform, Kyverno policy, dashboards, the other alert rules and network policies
are data for other programs. Build, signing and the local cluster are calls of
external tools. Logging formats text. The incident evidence is a record that
`tools/reconstruct_evidence.py` generates from a fixed timeline, and
`tools/gen_dashboard.py` prints a dashboard: neither has states. The burn rates of
`replay_alerts.py` are sums over that record. Health and metrics endpoints,
`db.ping` and `wait_for_db` change nothing that others see. Loss of Redis itself
(`docs` list it as not done) is outside the pipeline's promise: the lists are taken
to be durable. The contract migration 0012 is applied by hand after v1.7 is gone.
The freeze window of `deploy.sh:20` needs a clock.

## 9. Running it

`tlc -config <run>.cfg <module>.tla` with the modules of `PROJECT.json`;
`tlapm <module>.tla` for the modules with `Proofs` in their name.
