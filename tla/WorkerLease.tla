----------------------------- MODULE WorkerLease -----------------------------
(***************************************************************************)
(* The clocks behind the lease of one worker, the owner: its TTL, the      *)
(* owner's heartbeats, its shutdown (fetch loop and drain deadline) and    *)
(* the passes of another worker, the rescuer, that empties the processing  *)
(* lists of owners without a lease.                                        *)
(*                                                                         *)
(* PayoutPipeline lets a lease that nobody refreshes expire at any moment; *)
(* here the durations of config.py and the manifests decide when. Time     *)
(* advances in ticks, and not past a deadline whose step is still to come. *)
(***************************************************************************)
EXTENDS Naturals

CONSTANTS
    Lease,      \* WORKER_LEASE_SECONDS
    Period,     \* stop.wait(5) between two housekeeping passes
    Call,       \* longest one Redis call takes, socket_timeout
    Pass,       \* longest the rest of a pass takes after its heartbeat
    Misses,     \* heartbeats in a row that may fail, a bound on faults
    LastFetch,  \* longest the fetch loop takes to see `stop`
    Drain,      \* WORKER_SHUTDOWN_TIMEOUT
    Work        \* longest a thread works on a job

Cycle == Period + Call
Silence == Pass + (Misses + 1) * Cycle

ASSUME DurationAssumption ==
    /\ {Lease, Period, Call, Pass, Misses, LastFetch, Drain, Work} \subseteq Nat
    /\ Period > 0 /\ Lease > 0

(* What config.py has, and what it would need for slow passes and for a    *)
(* drain without theft.                                                    *)
LongDrain == Lease + Call <= Drain
RoomForPass == Silence < Lease
RoomToDrain == Silence + LastFetch + Drain < Lease

VARIABLES
    status,     \* life of the owner's process
    ttl,        \* ticks its lease has left, 0 when there is none
    hk,         \* its housekeeping thread
    missed,     \* heartbeats that failed since the last one that did not
    busy,       \* one of its payout threads has a job in hand
    list,       \* its processing list: that job, and jobs that no thread has
    rescue,     \* the rescuer's housekeeping thread
    clock

vars == <<status, ttl, hk, missed, busy, list, rescue, clock>>

Clocks == {"hk", "pass", "work", "phase", "rescue", "dead"}

TypeOK ==
    /\ status \in {"up", "stopping", "draining", "exiting", "gone"}
    /\ ttl \in 0..Lease
    /\ hk \in {"wait", "beat", "scan", "ended"}
    /\ missed \in 0..Misses
    /\ busy \in BOOLEAN /\ list \subseteq {"hand", "left"}
    /\ rescue \in {"wait", "beat", "look", "move"}
    /\ clock \in [Clocks -> Nat]

Reset(cs) == [c \in Clocks |-> IF c \in cs THEN 0 ELSE clock[c]]

----------------------------------------------------------------------------
(* The first heartbeat is set and the threads of run() are started. *)
Init ==
    /\ status = "up" /\ ttl = Lease
    /\ hk = "wait" /\ missed = 0
    /\ busy = FALSE /\ list = {}
    /\ rescue = "wait"
    /\ clock = [c \in Clocks |-> 0]

(* Which clocks run, and the deadlines; "pass", how long the last pass has  *)
(* taken, is bounded with the step, "dead" by nothing.                     *)
Ticking == {c \in Clocks : \/ c = "hk" /\ hk # "ended"
                           \/ c = "pass" /\ hk = "scan"
                           \/ c = "work" /\ busy
                           \/ c = "phase" /\ status \in {"stopping", "draining"}
                           \/ c = "rescue"
                           \/ c = "dead" /\ status = "gone" /\ list # {}}

StepLimit(step) == IF step = "wait" THEN Period ELSE IF step = "beat" THEN Call ELSE Pass

Limit == [hk     |-> StepLimit(hk),
          work   |-> Work,
          phase  |-> IF status = "stopping" THEN LastFetch ELSE Drain,
          rescue |-> StepLimit(rescue)]

Tick ==
    /\ \A c \in Ticking \ {"pass", "dead"} : clock[c] < Limit[c]
    /\ clock' = [c \in Clocks |-> IF c \in Ticking THEN clock[c] + 1 ELSE clock[c]]
    /\ ttl' = IF ttl = 0 THEN 0 ELSE ttl - 1
    /\ UNCHANGED <<status, hk, missed, busy, list, rescue>>

----------------------------------------------------------------------------
(* The owner's fetch loop and threads *)

(* A job comes in: BLMOVE, then submit. After SIGTERM it is the last one.  *)
Fetch ==
    /\ status \in {"up", "stopping"} /\ ~busy
    /\ busy' = TRUE /\ list' = list \cup {"hand"}
    /\ IF status = "stopping"
       THEN status' = "draining" /\ clock' = Reset({"work", "phase"})
       ELSE UNCHANGED status /\ clock' = Reset({"work"})
    /\ UNCHANGED <<ttl, hk, missed, rescue>>

(* BLMOVE took effect and its reply is lost: the loop goes on without it.  *)
FetchLost ==
    /\ status \in {"up", "stopping"}
    /\ list' = list \cup {"left"}
    /\ UNCHANGED <<status, ttl, hk, missed, busy, rescue, clock>>

(* The thread is done with it: acknowledged, retried or dead-lettered, its *)
(* LREM finds the job if it is still there.                                *)
JobDone ==
    /\ busy
    /\ busy' = FALSE /\ list' = list \ {"hand"}
    /\ UNCHANGED <<status, ttl, hk, missed, rescue, clock>>

(* The MULTI of _retry_or_dead fails: the exception ends in the future,    *)
(* and nobody has the job any more.                                        *)
JobLeft ==
    /\ busy
    /\ busy' = FALSE
    /\ list' = IF "hand" \in list THEN {"left"} ELSE list
    /\ UNCHANGED <<status, ttl, hk, missed, rescue, clock>>

Sigterm ==
    /\ status = "up"
    /\ status' = "stopping"
    /\ clock' = Reset({"phase"})
    /\ UNCHANGED <<ttl, hk, missed, busy, list, rescue>>

StopFetching ==
    /\ status = "stopping"
    /\ status' = "draining"
    /\ clock' = Reset({"phase"})
    /\ UNCHANGED <<ttl, hk, missed, busy, list, rescue>>

(* _drain is over; the DEL of the lease may fail. *)
DrainDone ==
    /\ status = "draining"
    /\ ~busy \/ clock["phase"] >= Drain
    /\ status' = "exiting"
    /\ ttl' \in {0, ttl}
    /\ UNCHANGED <<hk, missed, busy, list, rescue, clock>>

Gone ==
    /\ status' = "gone" /\ hk' = "ended"
    /\ clock' = Reset({"dead"})
    /\ UNCHANGED <<ttl, missed, list, rescue>>

Exit == status = "exiting" /\ ~busy /\ UNCHANGED busy /\ Gone

(* A crash, or SIGKILL at the end of the grace period or earlier. *)
Kill == status # "gone" /\ busy' = FALSE /\ Gone

(* Its housekeeping thread *)
HkGoto(step) == hk' = step /\ clock' = Reset(IF step = "scan" THEN {"hk", "pass"} ELSE {"hk"})

(* Mutation: a loop that does not look at `stop`. *)
WakeAlways ==
    /\ hk = "wait" /\ clock["hk"] = Period
    /\ HkGoto("beat")
    /\ UNCHANGED <<status, ttl, missed, busy, list, rescue>>

Wake ==
    /\ hk = "wait" /\ clock["hk"] = Period /\ status = "up"
    /\ HkGoto("beat")
    /\ UNCHANGED <<status, ttl, missed, busy, list, rescue>>

Stopped ==
    /\ hk = "wait" /\ status # "up"
    /\ HkGoto("ended")
    /\ UNCHANGED <<status, ttl, missed, busy, list, rescue>>

(* Mutations: SET with NX, and a TTL added to what is left. *)
HeartbeatNx ==
    /\ hk = "beat"
    /\ ttl' = IF ttl = 0 THEN Lease ELSE ttl
    /\ missed' = 0
    /\ HkGoto("scan")
    /\ UNCHANGED <<status, busy, list, rescue>>

HeartbeatExtends ==
    /\ hk = "beat"
    /\ ttl' = ttl + Lease /\ missed' = 0
    /\ HkGoto("scan")
    /\ UNCHANGED <<status, busy, list, rescue>>

Heartbeat ==
    /\ hk = "beat"
    /\ ttl' = Lease /\ missed' = 0
    /\ HkGoto("scan")
    /\ UNCHANGED <<status, busy, list, rescue>>

(* An error, though the SET may have been carried out. *)
HeartbeatFails ==
    /\ hk = "beat" /\ missed < Misses
    /\ missed' = missed + 1 /\ ttl' \in {ttl, Lease}
    /\ HkGoto("wait")
    /\ UNCHANGED <<status, busy, list, rescue>>

(* The rest of the pass: recovery, promotion, gauges, reconciliation, or   *)
(* what came before an error of Redis.                                     *)
PassDone ==
    /\ hk = "scan"
    /\ HkGoto("wait")
    /\ UNCHANGED <<status, ttl, missed, busy, list, rescue>>

Owner ==
    \/ Fetch \/ FetchLost \/ JobDone \/ JobLeft
    \/ Sigterm \/ StopFetching \/ DrainDone \/ Exit \/ Kill
    \/ Wake \/ Stopped \/ Heartbeat \/ HeartbeatFails \/ PassDone

----------------------------------------------------------------------------
(* The rescuer, which is up and reaches Redis *)

RescueGoto(step) == rescue' = step /\ clock' = Reset({"rescue"})

RescuerWakes ==
    /\ rescue = "wait" /\ clock["rescue"] = Period
    /\ RescueGoto("beat")
    /\ UNCHANGED <<status, ttl, hk, missed, busy, list>>

RescuerBeats ==
    /\ rescue = "beat"
    /\ RescueGoto("look")
    /\ UNCHANGED <<status, ttl, hk, missed, busy, list>>

(* The owner has a list and no lease. The moves come later in the pass.    *)
FindsNoLease ==
    /\ rescue = "look" /\ ttl = 0 /\ list # {}
    /\ rescue' = "move"
    /\ UNCHANGED <<status, ttl, hk, missed, busy, list, clock>>

(* Mutation: a SCAN that stops before it has seen every key. *)
PassesOverAny ==
    /\ rescue = "look"
    /\ RescueGoto("wait")
    /\ UNCHANGED <<status, ttl, hk, missed, busy, list>>

PassesOver ==
    /\ rescue = "look" /\ (ttl > 0 \/ list = {})
    /\ RescueGoto("wait")
    /\ UNCHANGED <<status, ttl, hk, missed, busy, list>>

(* LMOVE until the list is empty. *)
Recover ==
    /\ rescue = "move"
    /\ \E job \in list : list' = list \ {job}
    /\ UNCHANGED <<status, ttl, hk, missed, busy, rescue, clock>>

RescuerDone ==
    /\ rescue = "move" /\ list = {}
    /\ RescueGoto("wait")
    /\ UNCHANGED <<status, ttl, hk, missed, busy, list>>

Rescuer ==
    \/ RescuerWakes \/ RescuerBeats \/ FindsNoLease \/ PassesOver \/ Recover \/ RescuerDone

Next == Tick \/ Owner \/ Rescuer

Spec == Init /\ [][Next]_vars

----------------------------------------------------------------------------
(* A job leaves the owner's list while the thread that has it still works. *)
Robbed == "hand" \in list \ list' /\ busy /\ busy'

(* "must not steal work from a live worker" (test_worker.py): a worker that *)
(* nobody told to stop keeps its jobs.                                     *)
NotRobbedWhileUp == [][Robbed => status # "up"]_vars

(* The same for one that drains: until _drain drops the lease, nobody      *)
(* takes the jobs it may still finish inside its deadline.                 *)
NotRobbedWhileDraining == [][Robbed => status = "exiting"]_vars

(* A worker that is up is without a lease only if the pass since its last  *)
(* good heartbeat, one wait and one call for each heartbeat that failed    *)
(* and for the next one make up a whole lease: nothing else in the loop,   *)
(* no interleaving with fetch, rescue or lost replies, costs it its lease. *)
LapsesOnlyWhenSlow ==
    status = "up" /\ ttl = 0 => clock["pass"] + (missed + 1) * Cycle >= Lease

(* What a dead worker left, in hand or by a call that failed, is back in   *)
(* the queue one lease and one pass of another worker later ("recovered    *)
(* automatically after 30 s", RUNBOOK).                                    *)
RecoveredInTime ==
    status = "gone" /\ list # {} => clock["dead"] <= Lease + Cycle + Pass

(* When _drain gives up at its deadline, whatever is in the list is        *)
(* without a lease and stays so, whatever the DEL did and whatever         *)
(* heartbeat was under way, so that another worker takes it over. A drain  *)
(* that ends early has no work in hand; if its DEL fails, or a heartbeat   *)
(* comes after it, jobs that failed calls left wait as those of the dead.  *)
AbandonedWorkHasNoLease ==
    status = "exiting" /\ list # {} => ttl = 0 \/ (clock["phase"] < Drain /\ "hand" \notin list)

=============================================================================
