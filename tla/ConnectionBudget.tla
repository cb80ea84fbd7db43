-------------------------- MODULE ConnectionBudget --------------------------
(***************************************************************************)
(* The connections to PostgreSQL that the pods of settle-api and           *)
(* settle-worker may hold while releases are rolled out, rolled back and   *)
(* scaled, against the sum that check_db_budget.py lets through.           *)
(*                                                                         *)
(* A pod opens what the pools of its processes may open (db.py) and keeps  *)
(* it until it has exited; a terminating pod is no longer counted by its   *)
(* Deployment but still there. Its sizes are those in force when it was    *)
(* started. Kubernetes starts a pod within desired plus maxSurge and may   *)
(* take any pod away: a rollout, a rollback, a scale-down, an eviction.    *)
(***************************************************************************)
EXTENDS Integers

CONSTANTS
    Manifests,          \* what the rendered manifests may say
    MaxConnections, SuperuserReserved, AdminHeadroom, Reserved,  \* the script's arguments
    MaxTerminating,     \* bound for TLC: terminating pods of a Deployment
    None

Deployments == {"api", "worker"}
Variables == {"GUNICORN_WORKERS", "DB_POOL_SIZE", "DB_MAX_OVERFLOW"}
Value == Nat \cup {None}

(* What a Deployment's manifest, its HPA and its container say.            *)
Manifest == [replicas : Nat, hpaMin : Value, hpaMax : Value,
             percent : BOOLEAN, maxSurge : Nat,
             command : BOOLEAN, env : [Variables -> Value], envFrom : [Variables -> Value]]

ASSUME BudgetAssumption ==
    /\ Manifests \subseteq [Deployments -> Manifest]
    /\ \A m \in Manifests, d \in Deployments :
          IF m[d].hpaMax = None THEN m[d].hpaMin = None
          ELSE m[d].hpaMin \in Nat /\ m[d].hpaMin <= m[d].hpaMax
    /\ MaxConnections \in Nat /\ SuperuserReserved \in Nat /\ AdminHeadroom \in Nat
    /\ Reserved \in Nat /\ Reserved >= 3 /\ MaxTerminating \in Nat
    /\ None \notin Nat

VARIABLES
    before, manifest,   \* the manifests in force before, and now
    next,               \* those of the release that deploy.sh is at, once the gate let them through
    job,                \* connections of the migration Job
    desired,            \* replicas each Deployment is to have
    pods, leaving       \* pods and terminating pods of each, by the manifests they were started with

vars == <<before, manifest, next, job, desired, pods, leaving>>
Ages == {"before", "now"}

----------------------------------------------------------------------------
(* check_db_budget.py *)

(* math.ceil(total * int(value[:-1]) / 100), or the number itself. *)
Resolve(m, total) == IF m.percent THEN (total * m.maxSurge + 99) \div 100 ELSE m.maxSurge

(* The container's own entry, else the config map it takes all from. *)
EnvValue(m, name) == IF m.env[name] # None THEN m.env[name] ELSE m.envFrom[name]
Or(value, default) == IF value = None THEN default ELSE value

(* Mutation: the manifest's replicas, whatever the HPA may do. *)
BaseOfReplicas(m) == m.replicas
Base(m) == IF m.hpaMax = None THEN m.replicas ELSE m.hpaMax
PodsMax(m) == Base(m) + Resolve(m, Base(m)) + 1

CheckedPerPod(m) ==
    (IF m.command THEN 1 ELSE Or(EnvValue(m, "GUNICORN_WORKERS"), 1))
    * (Or(EnvValue(m, "DB_POOL_SIZE"), 5) + Or(EnvValue(m, "DB_MAX_OVERFLOW"), 10))

Demand(ms) == Reserved + PodsMax(ms["api"]) * CheckedPerPod(ms["api"])
                       + PodsMax(ms["worker"]) * CheckedPerPod(ms["worker"])
Budget == MaxConnections - SuperuserReserved - AdminHeadroom

(* A demand above the budget ends the CI job, and deploy.sh. *)
Admitted(ms) == Demand(ms) <= Budget

----------------------------------------------------------------------------
(* What the pods open *)

(* gunicorn.conf.py and config.py have defaults of their own. *)
Processes(m) == IF m.command THEN 1 ELSE Or(EnvValue(m, "GUNICORN_WORKERS"), 4)
PoolLimit(m) == Or(EnvValue(m, "DB_POOL_SIZE"), 2) + Or(EnvValue(m, "DB_MAX_OVERFLOW"), 0)
PerPod(m) == Processes(m) * PoolLimit(m)

Live(d) == pods[d]["before"] + pods[d]["now"]
Terminating(d) == leaving[d]["before"] + leaving[d]["now"]
Holds(d) == (pods[d]["before"] + leaving[d]["before"]) * PerPod(before[d])
            + (pods[d]["now"] + leaving[d]["now"]) * PerPod(manifest[d])

(* With the exporter's one connection. *)
Held == Holds("api") + Holds("worker") + job + 1

----------------------------------------------------------------------------
Counts == [Deployments -> [Ages -> Nat]]

TypeOK ==
    /\ before \in Manifests /\ manifest \in Manifests /\ next \in Manifests \cup {None}
    /\ job \in 0..2
    /\ desired \in [Deployments -> Nat]
    /\ pods \in Counts /\ leaving \in Counts

Smallest(m) == IF m.hpaMin = None THEN m.replicas ELSE m.hpaMin

Init ==
    /\ manifest \in {ms \in Manifests : Admitted(ms)}
    /\ before = manifest /\ next = None /\ job = 0
    /\ desired = [d \in Deployments |-> Smallest(manifest[d])]
    /\ pods = [d \in Deployments |-> [a \in Ages |-> IF a = "now" THEN desired[d] ELSE 0]]
    /\ leaving = [d \in Deployments |-> [a \in Ages |-> 0]]

----------------------------------------------------------------------------
(* deploy.sh: the budget is a gate before the migrations.                   *)
Gate(ms) ==
    /\ next = None /\ job = 0
    /\ Admitted(ms)
    /\ next' = ms /\ job' = 1
    /\ UNCHANGED <<before, manifest, desired, pods, leaving>>

(* The Job: the lock's connection, and the one a file is applied on.        *)
JobSteps ==
    /\ \/ job = 1 /\ job' \in {0, 2}
       \/ job = 2 /\ job' = 1
    /\ UNCHANGED <<before, manifest, next, desired, pods, leaving>>

(* The script fails on the way, or waits no longer for the Job.             *)
GiveUp ==
    /\ next # None
    /\ next' = None
    /\ UNCHANGED <<before, manifest, job, desired, pods, leaving>>

(* The last rollout is over: no pod of former sizes is left, the HPA has    *)
(* brought the Deployment within its bounds, and its pods are as many.      *)
Settled(d) ==
    /\ pods[d]["before"] + leaving[d]["before"] = 0
    /\ desired[d] <= Base(manifest[d])
    /\ Live(d) <= desired[d] + Resolve(manifest[d], desired[d])

(* The manifests are applied when the Job has succeeded. Without an HPA     *)
(* they set the replicas.                                                   *)
Apply ==
    /\ next # None /\ job = 0
    /\ \A d \in Deployments : Settled(d)
    /\ before' = manifest /\ manifest' = next /\ next' = None
    /\ desired' = [d \in Deployments |-> IF next[d].hpaMax = None THEN next[d].replicas ELSE desired[d]]
    /\ pods' = [d \in Deployments |-> [a \in Ages |-> IF a = "before" THEN pods[d]["now"] ELSE 0]]
    /\ leaving' = [d \in Deployments |-> [a \in Ages |-> IF a = "before" THEN leaving[d]["now"] ELSE 0]]
    /\ UNCHANGED job

----------------------------------------------------------------------------
(* The HPA, within its bounds.                                              *)
Scale(d) ==
    /\ manifest[d].hpaMax # None
    /\ \E n \in Smallest(manifest[d])..manifest[d].hpaMax :
          /\ n # desired[d]
          /\ desired' = [desired EXCEPT ![d] = n]
    /\ UNCHANGED <<before, manifest, next, job, pods, leaving>>

(* A pod of the template of a release or of a rollback, with the sizes of   *)
(* the config map as it is now.                                             *)
StartPod(d) ==
    /\ Live(d) < desired[d] + Resolve(manifest[d], desired[d])
    /\ pods' = [pods EXCEPT ![d]["now"] = @ + 1]
    /\ UNCHANGED <<before, manifest, next, job, desired, leaving>>

Terminate(d, a) ==
    /\ pods[d][a] > 0 /\ Terminating(d) < MaxTerminating
    /\ pods' = [pods EXCEPT ![d][a] = @ - 1]
    /\ leaving' = [leaving EXCEPT ![d][a] = @ + 1]
    /\ UNCHANGED <<before, manifest, next, job, desired>>

(* Mutation: an exit is counted for pods that are not there. *)
PodExitsTwice(d, a) ==
    /\ Terminating(d) > 0
    /\ leaving' = [leaving EXCEPT ![d][a] = @ - 1]
    /\ UNCHANGED <<before, manifest, next, job, desired, pods>>

(* A terminating pod has finished its requests or jobs, or is killed: its   *)
(* connections are closed.                                                  *)
PodExits(d, a) ==
    /\ leaving[d][a] > 0
    /\ leaving' = [leaving EXCEPT ![d][a] = @ - 1]
    /\ UNCHANGED <<before, manifest, next, job, desired, pods>>

Next ==
    \/ \E ms \in Manifests : Gate(ms)
    \/ JobSteps \/ GiveUp \/ Apply
    \/ \E d \in Deployments :
          Scale(d) \/ StartPod(d) \/ \E a \in Ages : Terminate(d, a) \/ PodExits(d, a)

Spec == Init /\ [][Next]_vars

----------------------------------------------------------------------------
(* What main() assumes of a container: its number of processes is written   *)
(* in the manifests. Without GUNICORN_WORKERS the script counts one process *)
(* where gunicorn.conf.py starts four.                                      *)
StatesProcesses(m) == m.command \/ EnvValue(m, "GUNICORN_WORKERS") # None

Larger(a, b) == IF a >= b THEN a ELSE b

(* The script's formula for a Deployment that goes from one release to      *)
(* another: the larger of each term.                                        *)
BaseOver(d) == Larger(Base(before[d]), Base(manifest[d]))
PodsOver(d) == BaseOver(d) + Larger(Resolve(before[d], BaseOver(d)), Resolve(manifest[d], BaseOver(d))) + 1
PerPodOver(d) == Larger(CheckedPerPod(before[d]), CheckedPerPod(manifest[d]))

SameSizes(d) ==
    /\ Base(before[d]) = Base(manifest[d])
    /\ Resolve(before[d], Base(before[d])) = Resolve(manifest[d], Base(before[d]))
    /\ CheckedPerPod(before[d]) = CheckedPerPod(manifest[d])

(* The worst case that check_db_budget.py names is the worst case: whatever *)
(* rollouts, rollbacks, scaling and the migration Job do at once, as long   *)
(* as no Deployment has more than one terminating pod (its "+ 1") and each  *)
(* states its processes, the pods hold no more than the formula with the    *)
(* larger terms of the two releases; and if the release leaves the sizes    *)
(* alone, no more than the budget, so PostgreSQL refuses nobody and the     *)
(* admin headroom is free.                                                  *)
FormulaCovers ==
    (\A d \in Deployments : /\ Terminating(d) <= 1
                            /\ StatesProcesses(before[d]) /\ StatesProcesses(manifest[d]))
    => /\ Held <= Reserved + PodsOver("api") * PerPodOver("api")
                           + PodsOver("worker") * PerPodOver("worker")
       /\ (\A d \in Deployments : SameSizes(d)) => Held <= Budget
=============================================================================
