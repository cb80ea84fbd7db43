----------------------- MODULE ConnectionBudgetProofs -----------------------
(***************************************************************************)
(* For any manifests, limits and number of releases: the variables keep    *)
(* their types and check_db_budget.py's formula covers what the pods hold. *)
(***************************************************************************)
EXTENDS ConnectionBudget, TLAPS

USE DEF Ages

----------------------------------------------------------------------------
(* Arithmetic *)

(* A product of naturals is a natural and grows with its factors.          *)
LEMMA ProductMonotone ==
    ASSUME NEW a \in Nat, NEW b \in Nat, NEW x \in Nat, NEW y \in Nat, a <= b, x <= y
    PROVE  a * x \in Nat /\ b * y \in Nat /\ a * x <= b * y
<1>1. a * x \in Nat /\ b * x \in Nat /\ b * y \in Nat
  BY SMT
<1>2. a * x <= b * x
  BY SMT
<1>3. b * x <= b * y
  BY SMT
<1> QED
  BY <1>1, <1>2, <1>3

(* Pods of two sizes hold no more than as many pods of the larger size.    *)
LEMMA MixedPods ==
    ASSUME NEW x \in Nat, NEW y \in Nat, NEW p \in Nat, NEW q \in Nat,
           NEW n \in Nat, NEW m \in Nat, p <= m, q <= m, x + y <= n
    PROVE  x * p + y * q <= n * m
<1>1. x * p \in Nat /\ x * m \in Nat /\ x * p <= x * m
  BY ProductMonotone
<1>2. y * q \in Nat /\ y * m \in Nat /\ y * q <= y * m
  BY ProductMonotone
<1>3. (x + y) * m \in Nat /\ n * m \in Nat /\ (x + y) * m <= n * m
  BY ProductMonotone
<1>4. (x + y) * m = x * m + y * m
  BY SMT
<1> QED
  BY <1>1, <1>2, <1>3, <1>4

(* What resolve() returns is a natural number and grows with the replicas. *)
LEMMA ResolveMonotone ==
    ASSUME NEW m \in Manifest, NEW a \in Nat, NEW b \in Nat, a <= b
    PROVE  /\ Resolve(m, a) \in Nat /\ Resolve(m, b) \in Nat
           /\ Resolve(m, a) <= Resolve(m, b)
<1>1. m.maxSurge \in Nat /\ m.percent \in BOOLEAN
  BY DEF Manifest
<1>2. a * m.maxSurge \in Nat /\ b * m.maxSurge \in Nat /\ a * m.maxSurge <= b * m.maxSurge
  BY <1>1, ProductMonotone
<1> DEFINE s == a * m.maxSurge   t == b * m.maxSurge
<1>3. ASSUME NEW u \in Nat, NEW v \in Nat, u <= v
      PROVE  (u + 99) \div 100 \in Nat /\ (v + 99) \div 100 \in Nat /\ (u + 99) \div 100 <= (v + 99) \div 100
  BY <1>3, SMT
<1>4. (s + 99) \div 100 \in Nat /\ (t + 99) \div 100 \in Nat /\ (s + 99) \div 100 <= (t + 99) \div 100
  BY <1>2, <1>3
<1> QED
  BY <1>1, <1>4 DEF Resolve

----------------------------------------------------------------------------
(* The manifests *)

LEMMA ManifestType ==
    ASSUME NEW ms \in Manifests, NEW d \in Deployments
    PROVE  /\ ms[d] \in Manifest
           /\ Base(ms[d]) \in Nat /\ Smallest(ms[d]) \in Nat /\ Smallest(ms[d]) <= Base(ms[d])
           /\ ms[d].hpaMax # None => ms[d].hpaMax \in Nat /\ Base(ms[d]) = ms[d].hpaMax
           /\ ms[d].replicas \in Nat /\ (ms[d].hpaMax = None => Base(ms[d]) = ms[d].replicas)
  BY BudgetAssumption DEF Base, Smallest, Manifest, Value

(* The connections the script counts for a pod, and those it may open.     *)
LEMMA PerPodCounted ==
    ASSUME NEW m \in Manifest
    PROVE  /\ CheckedPerPod(m) \in Nat /\ PerPod(m) \in Nat
           /\ StatesProcesses(m) => PerPod(m) <= CheckedPerPod(m)
<1> DEFINE w == EnvValue(m, "GUNICORN_WORKERS")
           p == EnvValue(m, "DB_POOL_SIZE")
           o == EnvValue(m, "DB_MAX_OVERFLOW")
           checked == IF m.command THEN 1 ELSE Or(w, 1)
           pool == Or(p, 5) + Or(o, 10)
<1>1. w \in Value /\ p \in Value /\ o \in Value
  BY DEF EnvValue, Manifest, Variables
<1>2. checked \in Nat /\ Processes(m) \in Nat
  BY <1>1 DEF Processes, Or, Value
<1>3. pool \in Nat /\ PoolLimit(m) \in Nat /\ PoolLimit(m) <= pool
  BY <1>1 DEF PoolLimit, Or, Value
<1>4. StatesProcesses(m) => Processes(m) = checked
  BY DEF StatesProcesses, Processes, Or
<1>5. CheckedPerPod(m) = checked * pool /\ PerPod(m) = Processes(m) * PoolLimit(m)
  BY DEF CheckedPerPod, PerPod
<1> HIDE DEF checked, pool
<1>6. checked * pool \in Nat /\ Processes(m) * PoolLimit(m) \in Nat
  BY <1>2, <1>3, ProductMonotone
<1>7. checked * PoolLimit(m) <= checked * pool
  BY <1>2, <1>3, ProductMonotone
<1> QED
  BY <1>4, <1>5, <1>6, <1>7

----------------------------------------------------------------------------
(* The type of the state *)

LEMMA TypeInit == Init => TypeOK
<1> SUFFICES ASSUME Init PROVE TypeOK
  OBVIOUS
<1>1. manifest \in Manifests /\ before \in Manifests /\ next = None /\ job = 0
  BY DEF Init
<1>2. desired \in [Deployments -> Nat]
  BY <1>1, ManifestType DEF Init
<1> QED
  BY <1>1, <1>2 DEF Init, TypeOK, Counts

LEMMA TypeNext == TypeOK /\ [Next]_vars => TypeOK'
<1> SUFFICES ASSUME TypeOK, [Next]_vars PROVE TypeOK'
  OBVIOUS
<1> USE DEF TypeOK, Counts
<1>1. ASSUME NEW ms \in Manifests, Gate(ms) PROVE TypeOK'
  BY <1>1 DEF Gate
<1>2. CASE JobSteps
  BY <1>2 DEF JobSteps
<1>3. CASE GiveUp
  BY <1>3 DEF GiveUp
<1>4. CASE Apply
  <2>1. next \in Manifests
    BY <1>4 DEF Apply
  <2>2. desired' \in [Deployments -> Nat]
    BY <1>4, <2>1, ManifestType DEF Apply
  <2> QED
    BY <1>4, <2>1, <2>2 DEF Apply
<1>5. ASSUME NEW d \in Deployments, Scale(d) PROVE TypeOK'
  <2>1. Smallest(manifest[d]) \in Nat /\ manifest[d].hpaMax \in Nat
    BY <1>5, ManifestType DEF Scale
  <2> QED
    BY <1>5, <2>1 DEF Scale
<1>6. ASSUME NEW d \in Deployments, StartPod(d) PROVE TypeOK'
  BY <1>6 DEF StartPod
<1>7. ASSUME NEW d \in Deployments, NEW a \in Ages, Terminate(d, a) PROVE TypeOK'
  BY <1>7 DEF Terminate
<1>8. ASSUME NEW d \in Deployments, NEW a \in Ages, PodExits(d, a) PROVE TypeOK'
  BY <1>8 DEF PodExits
<1>9. CASE UNCHANGED vars
  BY <1>9 DEF vars
<1> QED
  BY <1>1, <1>2, <1>3, <1>4, <1>5, <1>6, <1>7, <1>8, <1>9 DEF Next

(* Every variable keeps its type, for any manifests: in particular no pod  *)
(* is counted out twice.                                                   *)
THEOREM TypeCorrect == Spec => []TypeOK
  BY TypeInit, TypeNext, PTL DEF Spec

----------------------------------------------------------------------------
(* The inductive invariant: what is in force was let through by the gate,  *)
(* and a Deployment has no more pods that are not terminating than the     *)
(* larger replicas and the larger surge of its two manifests allow.        *)
AllAdmitted ==
    Admitted(before) /\ Admitted(manifest) /\ (next # None => Admitted(next))

SurgeOver(d) == Larger(Resolve(before[d], BaseOver(d)), Resolve(manifest[d], BaseOver(d)))
Within(d) == desired[d] <= BaseOver(d) /\ Live(d) <= BaseOver(d) + SurgeOver(d)
BoundsHold == \A d \in Deployments : Within(d)

IInv == TypeOK /\ AllAdmitted /\ BoundsHold

LEMMA OverType ==
    ASSUME TypeOK, NEW d \in Deployments
    PROVE  /\ BaseOver(d) \in Nat /\ SurgeOver(d) \in Nat
           /\ Base(before[d]) <= BaseOver(d) /\ Base(manifest[d]) <= BaseOver(d)
           /\ Base(before[d]) \in Nat /\ Base(manifest[d]) \in Nat
           /\ Resolve(manifest[d], BaseOver(d)) \in Nat /\ Resolve(before[d], BaseOver(d)) \in Nat
           /\ Resolve(manifest[d], BaseOver(d)) <= SurgeOver(d)
           /\ Resolve(before[d], BaseOver(d)) <= SurgeOver(d)
           /\ Live(d) \in Nat
<1>1. before[d] \in Manifest /\ manifest[d] \in Manifest
      /\ Base(before[d]) \in Nat /\ Base(manifest[d]) \in Nat
  BY ManifestType DEF TypeOK
<1>2. BaseOver(d) \in Nat /\ Base(before[d]) <= BaseOver(d) /\ Base(manifest[d]) <= BaseOver(d)
  BY <1>1 DEF BaseOver, Larger
<1>3. Resolve(manifest[d], BaseOver(d)) \in Nat /\ Resolve(before[d], BaseOver(d)) \in Nat
  BY <1>1, <1>2, ResolveMonotone
<1>4. Live(d) \in Nat
  BY DEF TypeOK, Counts, Live
<1> QED
  BY <1>1, <1>2, <1>3, <1>4 DEF SurgeOver, Larger

LEMMA BoundsInit == Init => IInv
<1> SUFFICES ASSUME Init PROVE IInv
  OBVIOUS
<1>1. TypeOK
  BY TypeInit
<1>2. AllAdmitted
  BY DEF Init, AllAdmitted
<1>3. ASSUME NEW d \in Deployments PROVE Within(d)
  <2>1. desired[d] = Smallest(manifest[d]) /\ Live(d) = desired[d] /\ desired[d] \in Nat
    BY <1>1 DEF Init, Live, TypeOK
  <2>2. Smallest(manifest[d]) <= Base(manifest[d])
    BY <1>1, ManifestType DEF TypeOK
  <2> QED
    BY <1>1, <2>1, <2>2, OverType DEF Within
<1> QED
  BY <1>1, <1>2, <1>3 DEF IInv, BoundsHold

LEMMA BoundsNext == IInv /\ [Next]_vars => IInv'
<1> SUFFICES ASSUME IInv, [Next]_vars PROVE IInv'
  OBVIOUS
<1>0. TypeOK /\ TypeOK' /\ AllAdmitted /\ BoundsHold
  BY TypeNext DEF IInv
<1> SUFFICES AllAdmitted' /\ BoundsHold'
  BY <1>0 DEF IInv
<1>s. ASSUME before' = before, manifest' = manifest
      PROVE  \A d \in Deployments : BaseOver(d)' = BaseOver(d) /\ SurgeOver(d)' = SurgeOver(d)
  BY <1>s DEF BaseOver, SurgeOver
<1>k. ASSUME UNCHANGED <<before, manifest, desired, pods>> PROVE BoundsHold'
  BY <1>0, <1>k, <1>s DEF BoundsHold, Within, Live
<1>1. ASSUME NEW ms \in Manifests, Gate(ms) PROVE AllAdmitted' /\ BoundsHold'
  BY <1>0, <1>1, <1>k DEF Gate, AllAdmitted, Admitted
<1>2. CASE JobSteps
  BY <1>0, <1>2, <1>k DEF JobSteps, AllAdmitted, Admitted
<1>3. CASE GiveUp
  BY <1>0, <1>3, <1>k DEF GiveUp, AllAdmitted, Admitted
<1>4. CASE Apply
  <2>1. AllAdmitted'
    BY <1>0, <1>4 DEF Apply, AllAdmitted, Admitted
  <2>2. ASSUME NEW d \in Deployments PROVE Within(d)'
    <3> DEFINE b == Base(manifest[d])
    <3>1. Settled(d) /\ before'[d] = manifest[d] /\ manifest'[d] = next[d] /\ next \in Manifests
      BY <1>0, <1>4, <2>2 DEF Apply, TypeOK
    <3>2. manifest[d] \in Manifest /\ b \in Nat /\ desired[d] \in Nat /\ Live(d) \in Nat
      BY <1>0, ManifestType, OverType DEF TypeOK
    <3>3. desired[d] <= b /\ Live(d) <= desired[d] + Resolve(manifest[d], desired[d])
      BY <3>1 DEF Settled
    <3>4. Live(d)' = pods[d]["now"] /\ pods[d]["now"] <= Live(d)
      BY <1>0, <1>4, <2>2 DEF Apply, Live, TypeOK, Counts
    <3>5. b <= BaseOver(d)' /\ BaseOver(d)' \in Nat /\ SurgeOver(d)' \in Nat
          /\ Resolve(manifest[d], BaseOver(d)') <= SurgeOver(d)' /\ Base(next[d]) <= BaseOver(d)'
      <4>1. BaseOver(d)' = Larger(b, Base(next[d])) /\ next[d] \in Manifest /\ Base(next[d]) \in Nat
        BY <3>1, ManifestType DEF BaseOver
      <4>2. b <= BaseOver(d)' /\ Base(next[d]) <= BaseOver(d)' /\ BaseOver(d)' \in Nat
        BY <3>2, <4>1 DEF Larger
      <4>3. /\ Resolve(manifest[d], BaseOver(d)') \in Nat
            /\ Resolve(next[d], BaseOver(d)') \in Nat
        BY <3>2, <4>1, <4>2, ResolveMonotone
      <4>4. SurgeOver(d)' = Larger(Resolve(manifest[d], BaseOver(d)'), Resolve(next[d], BaseOver(d)'))
        BY <3>1 DEF SurgeOver
      <4> QED
        BY <4>2, <4>3, <4>4 DEF Larger
    <3>6. desired[d] <= BaseOver(d)'
      BY <3>2, <3>3, <3>5
    <3>7. Resolve(manifest[d], desired[d]) \in Nat /\ Resolve(manifest[d], BaseOver(d)') \in Nat
          /\ Resolve(manifest[d], desired[d]) <= Resolve(manifest[d], BaseOver(d)')
      BY <3>2, <3>5, <3>6, ResolveMonotone
    <3>8. desired'[d] <= BaseOver(d)'
      BY <1>4, <3>1, <3>5, <3>6, ManifestType DEF Apply
    <3>9. Live(d)' <= BaseOver(d)' + SurgeOver(d)'
      BY <1>0, <3>2, <3>3, <3>4, <3>5, <3>6, <3>7 DEF TypeOK, Counts
    <3> QED
      BY <3>8, <3>9 DEF Within
  <2> QED
    BY <2>1, <2>2 DEF BoundsHold
<1>5. ASSUME NEW d \in Deployments, Scale(d) PROVE AllAdmitted' /\ BoundsHold'
  <2>1. \A e \in Deployments : desired'[e] <= BaseOver(e)
    <3>1. Smallest(manifest[d]) \in Nat /\ manifest[d].hpaMax \in Nat /\ Base(manifest[d]) = manifest[d].hpaMax
      BY <1>0, <1>5, ManifestType DEF Scale, TypeOK
    <3>2. PICK n \in Smallest(manifest[d])..manifest[d].hpaMax : desired' = [desired EXCEPT ![d] = n]
      BY <1>5 DEF Scale
    <3>3. n <= BaseOver(d)
      BY <1>0, <3>1, <3>2, OverType
    <3> QED
      BY <1>0, <3>2, <3>3 DEF TypeOK, BoundsHold, Within
  <2> QED
    BY <1>0, <1>5, <1>s, <2>1 DEF Scale, BoundsHold, Within, Live, AllAdmitted, Admitted
<1>6. ASSUME NEW d \in Deployments, StartPod(d) PROVE AllAdmitted' /\ BoundsHold'
  <2>1. Live(d)' <= BaseOver(d) + SurgeOver(d)
    <3>1. desired[d] \in Nat /\ desired[d] <= BaseOver(d) /\ manifest[d] \in Manifest
      BY <1>0, ManifestType DEF BoundsHold, Within, TypeOK
    <3>2. Resolve(manifest[d], desired[d]) \in Nat
          /\ Resolve(manifest[d], desired[d]) <= Resolve(manifest[d], BaseOver(d))
      BY <1>0, <3>1, OverType, ResolveMonotone
    <3>3. Live(d)' = Live(d) + 1 /\ Live(d) < desired[d] + Resolve(manifest[d], desired[d])
      BY <1>0, <1>6 DEF StartPod, Live, TypeOK, Counts
    <3> QED
      BY <1>0, <3>1, <3>2, <3>3, OverType
  <2>2. \A e \in Deployments \ {d} : Live(e)' = Live(e)
    BY <1>0, <1>6 DEF StartPod, Live, TypeOK, Counts
  <2> QED
    BY <1>0, <1>6, <1>s, <2>1, <2>2 DEF StartPod, BoundsHold, Within, AllAdmitted, Admitted
<1>7. ASSUME NEW d \in Deployments, NEW a \in Ages, Terminate(d, a) PROVE AllAdmitted' /\ BoundsHold'
  <2>1. \A e \in Deployments : Live(e)' \in Nat /\ Live(e) \in Nat /\ Live(e)' <= Live(e)
    BY <1>0, <1>7 DEF Terminate, Live, TypeOK, Counts
  <2>2. \A e \in Deployments : BaseOver(e) \in Nat /\ SurgeOver(e) \in Nat
    BY <1>0, OverType
  <2> QED
    BY <1>0, <1>7, <1>s, <2>1, <2>2 DEF Terminate, BoundsHold, Within, AllAdmitted, Admitted
<1>8. ASSUME NEW d \in Deployments, NEW a \in Ages, PodExits(d, a) PROVE AllAdmitted' /\ BoundsHold'
  BY <1>0, <1>8, <1>k DEF PodExits, AllAdmitted, Admitted
<1>9. CASE UNCHANGED vars
  BY <1>0, <1>9, <1>k DEF vars, AllAdmitted, Admitted
<1> QED
  BY <1>1, <1>2, <1>3, <1>4, <1>5, <1>6, <1>7, <1>8, <1>9 DEF Next

----------------------------------------------------------------------------
(* What one Deployment holds, if at most one of its pods is terminating.   *)
LEMMA HoldsCovered ==
    ASSUME IInv, NEW d \in Deployments, Terminating(d) <= 1,
           StatesProcesses(before[d]), StatesProcesses(manifest[d])
    PROVE  /\ Holds(d) \in Int /\ PodsOver(d) \in Nat /\ PerPodOver(d) \in Nat
           /\ Holds(d) <= PodsOver(d) * PerPodOver(d)
<1> DEFINE x == pods[d]["before"] + leaving[d]["before"]
           y == pods[d]["now"] + leaving[d]["now"]
<1>1. TypeOK /\ Within(d)
  BY DEF IInv, BoundsHold
<1>2. before[d] \in Manifest /\ manifest[d] \in Manifest
  BY <1>1, ManifestType DEF TypeOK
<1>3. /\ PerPod(before[d]) \in Nat /\ PerPod(manifest[d]) \in Nat /\ PerPodOver(d) \in Nat
      /\ PerPod(before[d]) <= PerPodOver(d) /\ PerPod(manifest[d]) <= PerPodOver(d)
  BY <1>2, PerPodCounted DEF PerPodOver, Larger
<1>4. x \in Nat /\ y \in Nat /\ x + y = Live(d) + Terminating(d)
  BY <1>1 DEF TypeOK, Counts, Live, Terminating
<1>5. PodsOver(d) = BaseOver(d) + SurgeOver(d) + 1
  BY DEF PodsOver, SurgeOver
<1>6. PodsOver(d) \in Nat /\ x + y <= PodsOver(d)
  BY <1>1, <1>4, <1>5, OverType DEF Within, Terminating, TypeOK, Counts
<1>7. Holds(d) = x * PerPod(before[d]) + y * PerPod(manifest[d])
  BY DEF Holds
<1> HIDE DEF x, y
<1>8. x * PerPod(before[d]) + y * PerPod(manifest[d]) <= PodsOver(d) * PerPodOver(d)
  BY <1>3, <1>4, <1>6, MixedPods
<1>9. x * PerPod(before[d]) \in Nat /\ y * PerPod(manifest[d]) \in Nat
  BY <1>3, <1>4, ProductMonotone
<1> QED
  BY <1>3, <1>6, <1>7, <1>8, <1>9

LEMMA Covered == IInv => FormulaCovers
<1> SUFFICES ASSUME IInv,
                    \A d \in Deployments : /\ Terminating(d) <= 1
                                           /\ StatesProcesses(before[d]) /\ StatesProcesses(manifest[d])
             PROVE  /\ Held <= Reserved + PodsOver("api") * PerPodOver("api")
                                        + PodsOver("worker") * PerPodOver("worker")
                    /\ (\A d \in Deployments : SameSizes(d)) => Held <= Budget
  BY DEF FormulaCovers
<1>1. "api" \in Deployments /\ "worker" \in Deployments
  BY DEF Deployments
<1> DEFINE A == PodsOver("api") * PerPodOver("api")
           W == PodsOver("worker") * PerPodOver("worker")
<1>2. Holds("api") \in Int /\ Holds("worker") \in Int /\ A \in Nat /\ W \in Nat
      /\ Holds("api") <= A /\ Holds("worker") <= W
  <2>1. /\ Holds("api") \in Int /\ PodsOver("api") \in Nat /\ PerPodOver("api") \in Nat /\ Holds("api") <= A
    BY <1>1, HoldsCovered
  <2>2. /\ Holds("worker") \in Int /\ PodsOver("worker") \in Nat /\ PerPodOver("worker") \in Nat
        /\ Holds("worker") <= W
    BY <1>1, HoldsCovered
  <2>3. A \in Nat /\ W \in Nat
    BY <2>1, <2>2, ProductMonotone
  <2> QED
    BY <2>1, <2>2, <2>3
<1>3. job + 1 <= Reserved /\ job \in Nat /\ Reserved \in Nat
  BY BudgetAssumption DEF IInv, TypeOK
<1> HIDE DEF A, W
<1>4. Held <= Reserved + A + W
  BY <1>2, <1>3 DEF Held
<1>5. ASSUME \A d \in Deployments : SameSizes(d) PROVE Held <= Budget
  <2>1. \A d \in Deployments : /\ PodsOver(d) = PodsMax(manifest[d])
                               /\ PerPodOver(d) = CheckedPerPod(manifest[d])
    BY <1>5 DEF SameSizes, PodsOver, BaseOver, PerPodOver, PodsMax, Larger
  <2>2. Reserved + A + W = Demand(manifest)
    BY <1>1, <2>1 DEF A, W, Demand
  <2>3. Demand(manifest) <= Budget
    BY DEF IInv, AllAdmitted, Admitted
  <2>4. Demand(manifest) \in Int /\ Budget \in Int /\ Held \in Int
    BY <1>2, <1>3, <2>2, BudgetAssumption DEF Budget, Held
  <2> QED
    BY <1>4, <2>2, <2>3, <2>4
<1> QED
  BY <1>4, <1>5 DEF A, W

(* check_db_budget.py's worst case is the worst case, for any manifests it *)
(* lets through, any limits, and any number of releases, rollbacks and     *)
(* scalings, as long as it counts the terminating pods there are.          *)
THEOREM BudgetSuffices == Spec => []FormulaCovers
  BY BoundsInit, BoundsNext, Covered, PTL DEF Spec
=============================================================================
