------------------------- MODULE MCConnectionBudget -------------------------
(* Manifests for TLC: values by variable name, None where one is not set.  *)
EXTENDS ConnectionBudget

Env(workers, pool, overflow) ==
    [v \in Variables |-> IF v = "GUNICORN_WORKERS" THEN workers
                         ELSE IF v = "DB_POOL_SIZE" THEN pool ELSE overflow]

(* deploy/k8s/base with a smaller HPA *)
Api == [replicas |-> 1, hpaMin |-> 2, hpaMax |-> 3, percent |-> FALSE, maxSurge |-> 1,
        command |-> FALSE, env |-> Env(None, 2, 0), envFrom |-> Env(4, None, None)]
Worker == [replicas |-> 1, hpaMin |-> None, hpaMax |-> None, percent |-> FALSE, maxSurge |-> 1,
           command |-> TRUE, env |-> Env(None, 5, 0), envFrom |-> Env(4, None, None)]

Small == [api |-> Api, worker |-> Worker]
(* a quarter of three pods, and a pool size left to the default *)
Percent == [Small EXCEPT !.api.percent = TRUE, !.api.maxSurge = 25, !.api.env = Env(1, None, 2)]
(* a pool the gate refuses *)
TooLarge == [Small EXCEPT !.api.env = Env(None, 5, 0)]

(* more pods of the API with smaller pools, fewer of the worker *)
Wider == [Small EXCEPT !.api.hpaMax = 4, !.api.envFrom = Env(3, None, None),
                       !.worker.replicas = 2, !.worker.env = Env(None, 3, 1)]

MCManifests == {Small, Percent, Wider, TooLarge}
=============================================================================
