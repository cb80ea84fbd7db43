-------------------------- MODULE PayoutFreshness --------------------------
(***************************************************************************)
(* What on-call is told of payouts that do not get paid: the gauges each   *)
(* worker exports in its housekeeping pass (worker.py), the alert rule     *)
(* SettlePayoutsDelayed over them, and tools/replay_alerts.py, with which  *)
(* the rules were tried on the incident's data.                            *)
(*                                                                         *)
(* A tick is the interval of the rule's evaluation; within one, every      *)
(* worker that is up completes or fails a housekeeping pass. Where the     *)
(* payouts and their jobs are is a view of PayoutPipeline: a job may also  *)
(* be nowhere, when the API committed the row and could not push it.       *)
(***************************************************************************)
EXTENDS Integers, FiniteSets, SequencesExt

CONSTANTS
    Payouts, Workers,
    OldestLimit, StaleLimit, For,   \* of the rule and of reconcile(), in ticks
    None

ASSUME LimitAssumption == OldestLimit \in Nat /\ StaleLimit \in Nat /\ For \in Nat
ASSUME PlaceAssumption == Workers \cap {"nowhere", "queue", "retry", "dead"} = {} /\ None \notin Nat

VARIABLES
    row,        \* payouts.state
    age,        \* ticks since created_at, which is also the job's enqueued_at
    place,      \* where the payout's job is: a list, or the worker that holds it
    queue,      \* settle:jobs, taken from the right
    up,         \* workers that run
    gauges,     \* whether each exports more than the rule's limit for each gauge
    passed,     \* workers that had their pass in this tick
    current,    \* those whose reconciliation succeeded in it
    pending,    \* Prometheus: evaluations since the expression became true
    run,        \* replay_alerts.py's counter over the same evaluations
    watched     \* evaluations in a row at which a running worker was current

vars == <<row, age, place, queue, up, gauges, passed, current, pending, run, watched>>
told == <<gauges, passed, current, pending, run, watched>>

OldestAge == StaleLimit + For + 3   \* ages are not told apart beyond it

TypeOK ==
    /\ row \in [Payouts -> {"none", "queued", "sending", "paid"}]
    /\ age \in [Payouts -> 0..OldestAge]
    /\ place \in [Payouts -> {"nowhere", "queue", "retry", "dead"} \cup Workers]
    /\ queue \in Seq(Payouts) /\ IsInjective(queue)
    /\ \A p \in Payouts : place[p] = "queue" <=> Contains(queue, p)
    /\ up \subseteq Workers /\ current \subseteq passed /\ passed \subseteq up
    /\ gauges \in [Workers -> [old : BOOLEAN, stale : BOOLEAN, dead : BOOLEAN]]
    /\ pending \in 0..For \cup {None} /\ run \in 0..For + 1 /\ watched \in 0..For + 1

Unpaid(p) == row[p] \in {"queued", "sending"}
Nothing == [old |-> FALSE, stale |-> FALSE, dead |-> FALSE]

Init ==
    /\ row = [p \in Payouts |-> "none"]
    /\ age = [p \in Payouts |-> 0]
    /\ place = [p \in Payouts |-> "nowhere"]
    /\ queue = <<>>
    /\ up = {} /\ gauges = [w \in Workers |-> Nothing]
    /\ passed = {} /\ current = {}
    /\ pending = None /\ run = 0 /\ watched = 0

----------------------------------------------------------------------------
(* Payouts and their jobs *)

(* execute_settlement: the row is committed, then the job pushed, or not.   *)
Execute(p) ==
    /\ row[p] = "none"
    /\ row' = [row EXCEPT ![p] = "queued"]
    /\ \/ place' = [place EXCEPT ![p] = "queue"] /\ queue' = Cons(p, queue)
       \/ UNCHANGED <<place, queue>>
    /\ UNCHANGED <<age, up, told>>

(* BLMOVE and claim(), which may fail.                                      *)
Take(w) ==
    /\ w \in up /\ queue # <<>>
    /\ place' = [place EXCEPT ![Last(queue)] = w]
    /\ queue' = Front(queue)
    /\ row' \in {row, [row EXCEPT ![Last(queue)] = IF @ = "queued" THEN "sending" ELSE @]}
    /\ UNCHANGED <<age, up, told>>

(* Paid and acknowledged, or to be retried, or dead-lettered; the payment   *)
(* may have been recorded in either case.                                   *)
Finish(p) ==
    /\ place[p] \in up
    /\ \/ row[p] # "queued" /\ row' = [row EXCEPT ![p] = "paid"] /\ place' = [place EXCEPT ![p] = "nowhere"]
       \/ /\ place' \in {[place EXCEPT ![p] = "retry"], [place EXCEPT ![p] = "dead"]}
          /\ row' \in {row, [row EXCEPT ![p] = IF @ = "sending" THEN "paid" ELSE @]}
    /\ UNCHANGED <<age, queue, up, told>>

(* The runbook's RPOPLPUSH of a dead letter. *)
Requeue(p) ==
    /\ place[p] = "dead"
    /\ place' = [place EXCEPT ![p] = "queue"] /\ queue' = Cons(p, queue)
    /\ UNCHANGED <<row, age, up, told>>

StartWorker(w) ==
    /\ w \notin up
    /\ up' = up \cup {w}
    /\ UNCHANGED <<row, age, place, queue, told>>

(* Mutation: the gauges and the turn of a dead worker are kept. *)
StopWorkerUnnoticed(w) ==
    /\ w \in up
    /\ up' = up \ {w}
    /\ UNCHANGED <<row, age, place, queue, told>>

(* Its series end with it. *)
StopWorker(w) ==
    /\ w \in up
    /\ up' = up \ {w} /\ passed' = passed \ {w} /\ current' = current \ {w}
    /\ gauges' = [gauges EXCEPT ![w] = Nothing]
    /\ UNCHANGED <<row, age, place, queue, pending, run, watched>>

----------------------------------------------------------------------------
(* The housekeeping pass *)

(* recover_dead_workers and promote_due_retries put jobs at the end that is *)
(* taken from, in whatever order they come.                                 *)
MoveBack(moved) ==
    /\ \E s \in SetToSeqs(moved) : queue' = queue \o s
    /\ place' = [p \in Payouts |-> IF p \in moved THEN "queue" ELSE place[p]]

(* export_queue_metrics, after them. *)
OldGauge == queue' # <<>> /\ age[Last(queue')] > OldestLimit
DeadGauge == \E p \in Payouts : place'[p] = "dead"

(* Mutation: only payouts that no worker has claimed. *)
StaleQueued == \E p \in Payouts : row[p] = "queued" /\ age[p] > StaleLimit

(* The count of reconcile(). *)
StaleGauge == \E p \in Payouts : Unpaid(p) /\ age[p] > StaleLimit

(* The last pass of the tick. *)
Pass(w) ==
    /\ w \in up \ passed
    /\ \E due \in SUBSET {p \in Payouts : place[p] = "retry"} :
          MoveBack({p \in Payouts : place[p] \in Workers \ up} \cup due)
    /\ \/ (* the bank's ledger and the database answer *)
          /\ current' = current \cup {w}
          /\ gauges' = [gauges EXCEPT ![w] = [old |-> OldGauge, stale |-> StaleGauge, dead |-> DeadGauge]]
       \/ (* one of them does not: the gauge of stale payouts stays *)
          /\ UNCHANGED current
          /\ gauges' = [gauges EXCEPT ![w] = [old |-> OldGauge, stale |-> @.stale, dead |-> DeadGauge]]
    /\ passed' = passed \cup {w}
    /\ UNCHANGED <<row, age, up, pending, run, watched>>

(* Redis does not answer: the pass ends at the heartbeat. *)
PassFails(w) ==
    /\ w \in up \ passed
    /\ passed' = passed \cup {w}
    /\ UNCHANGED <<row, age, place, queue, up, gauges, current, pending, run, watched>>

----------------------------------------------------------------------------
(* The alert *)

(* max(...) > 600 or max(...) > 0 or max(...) > 0, over the series there are. *)
Expression ==
    \E w \in up : gauges[w].old \/ gauges[w].stale \/ gauges[w].dead

AtMost(n, limit) == IF n < limit THEN n ELSE limit

(* for: 5m *)
Evaluate ==
    pending' = IF ~Expression THEN None ELSE IF pending = None THEN 0 ELSE AtMost(pending + 1, For)
Firing == pending # None /\ pending >= For

(* Mutation: the counter goes on after an evaluation that was false. *)
ReplayNoReset == run' = IF Expression THEN AtMost(run + 1, For + 1) ELSE run

(* first_sustained() *)
Replay == run' = IF Expression THEN AtMost(run + 1, For + 1) ELSE 0
ReplayFires == run > For

Tick ==
    /\ passed = up
    /\ Evaluate /\ Replay
    /\ watched' = IF current = {} THEN 0 ELSE AtMost(watched + 1, For + 1)
    /\ age' = [p \in Payouts |-> IF row[p] = "none" THEN 0 ELSE AtMost(age[p] + 1, OldestAge)]
    /\ passed' = {} /\ current' = {}
    /\ UNCHANGED <<row, place, queue, up, gauges>>

Next ==
    \/ \E p \in Payouts : Execute(p) \/ Finish(p) \/ Requeue(p)
    \/ \E w \in Workers : Take(w) \/ StartWorker(w) \/ StopWorker(w) \/ Pass(w) \/ PassFails(w)
    \/ Tick

Spec == Init /\ [][Next]_vars

----------------------------------------------------------------------------
(* A payout that is not recorded as paid pages somebody at the latest when  *)
(* the rule has held for its time after the limit of reconcile(), wherever  *)
(* its job is: in a queue behind others, in the hands of workers that come  *)
(* and go, waiting for a retry, dead, or never pushed. It takes one worker, *)
(* not always the same, whose reconciliation succeeds in each interval; the *)
(* gauge of the oldest job does not matter to it.                           *)
PagedInTime ==
    \A p \in Payouts :
        Unpaid(p) /\ age[p] >= StaleLimit + For + 2 /\ watched > For => Firing

(* The replay of the rule on recorded data fires at the same evaluation as  *)
(* the rule does.                                                           *)
ReplayAgrees == ReplayFires <=> Firing
=============================================================================
