--------------------------- MODULE ReleaseProofs ---------------------------
(***************************************************************************)
(* The properties of Release for any releases, broken or bad in any way,   *)
(* any number of runs and any faults.                                      *)
(***************************************************************************)
EXTENDS Release, TLAPS

(* Whatever the pipeline may still bring up has its migrations applied.    *)
Migrated ==
    /\ \A r \in Releases : job[r] = "succeeded" => r \in migrated
    /\ {verified, prev} \subseteq migrated \cup {None}
    /\ step \in {"apply", "rollout", "verify", "mark"} => image \in migrated

(* What the deploy steps have seen of the rollout so far.                  *)
Seen ==
    /\ step \in {"rollout", "verify", "mark"} => \A d \in Deployments : Image(d) = image
    /\ step = "rollout" /\ at = "worker" => Ready("api", image)
    /\ step \in {"verify", "mark"} => \A d \in Deployments : Ready(d, image)
    /\ step = "mark" => image \notin Bad

(* What the loop of rollback.sh has done so far.                           *)
GoingBack ==
    /\ step \in {"undo", "undone", "pinned"} => prev # None
    /\ step \in {"undo", "undone", "pinned"} /\ at = "worker" => Image("api") = prev
    /\ step \in {"undone", "pinned"} => live[at] # NoTemplate
    /\ step = "pinned" => Image(at) = prev

(* A run that is on has no outcome yet.                                    *)
Pending == step # "idle" => outcome = "none"

IInv == TypeOK /\ SchemaFirst /\ Migrated /\ Seen /\ GoingBack /\ Pending /\ ConcludedRunsAgree

LEMMA Initially == Init => IInv
BY ReleaseAssumption DEF Init, IInv, TypeOK, SchemaFirst, Migrated, Seen, GoingBack, Pending,
    ConcludedRunsAgree, Template, NoTemplate, Deployments, Steps, Image, Ready

-----------------------------------------------------------------------------
LEMMA Marks ==
    /\ NoTemplate \notin Template
    /\ \A t \in Template : t.image # None
BY ReleaseAssumption DEF NoTemplate, Template

(* A revision of a migrated release leaves only migrated ones to undo to.  *)
LEMMA RollKeeps ==
    ASSUME IInv, NEW ds \in SUBSET Deployments, NEW new \in Template, Roll(ds, new),
           new.image \in migrated
    PROVE  /\ live' \in [Deployments -> Template \cup {NoTemplate}]
           /\ before' \in [Deployments -> Template \cup {NoTemplate}]
           /\ \A d \in Deployments : {live'[d].image, before'[d].image} \subseteq migrated \cup {None}
           /\ \A d \in ds : live'[d] = new
           /\ \A d \in Deployments \ ds : live'[d] = live[d]
BY DEF IInv, TypeOK, SchemaFirst, Roll

(* Where a step fails, the release goes on to its rollback or ends.        *)
LEMMA FailKeeps ==
    ASSUME IInv, StepFails, step # "idle",
           SchemaFirst', UNCHANGED <<verified, migrated, job>>,
           faults' \in Nat,
           live' \in [Deployments -> Template \cup {NoTemplate}],
           before' \in [Deployments -> Template \cup {NoTemplate}]
    PROVE  IInv'
BY DEF IInv, TypeOK, SchemaFirst, Migrated, Seen, GoingBack, Pending, ConcludedRunsAgree,
    StepFails, Goto, End, run, Steps, Deployments, Image, Ready

(* The deploy steps, one by one.                                           *)
LEMMA DeployKeeps == ASSUME IInv, Deploy PROVE IInv'
<1> USE DEF IInv, cluster, run, Goto, End, Deployments, Image, Ready
<1>1. CASE Dispatch
  BY <1>1 DEF Dispatch, TypeOK, SchemaFirst, Migrated, Seen, GoingBack, Pending,
      ConcludedRunsAgree, Steps
<1>2. CASE RecordTarget
  <2>1. prev' \in Releases \cup {None} /\ prev' \in migrated \cup {None} /\ faults' \in Nat
    BY <1>2, Marks DEF RecordTarget, Target, Fault, TypeOK, SchemaFirst, Migrated, Template,
        NoTemplate
  <2> QED
    BY <1>2, <2>1 DEF RecordTarget, TypeOK, SchemaFirst, Migrated, Seen, GoingBack, Pending,
        ConcludedRunsAgree, Steps
<1>3. CASE Migrate
  BY <1>3 DEF Migrate, TypeOK, SchemaFirst, Migrated, Seen, GoingBack, Pending,
      ConcludedRunsAgree, Steps
<1>4. CASE Poll
  <2>1. CASE StepFails
    BY <1>4, <2>1, FailKeeps DEF Poll, TypeOK, SchemaFirst
  <2>2. CASE ~StepFails
    BY <1>4, <2>2 DEF Poll, TypeOK, SchemaFirst, Migrated, Seen, GoingBack, Pending,
        ConcludedRunsAgree, Steps
  <2> QED BY <2>1, <2>2
<1>5. CASE Apply
  <2>1. Of(image) \in Template /\ Of(image).image = image /\ image \in migrated
    BY <1>5 DEF Apply, Of, Template, TypeOK, Migrated
  <2>2. Roll(Deployments, Of(image))
    BY <1>5 DEF Apply
  <2> QED
    BY <1>5, <2>1, <2>2, RollKeeps DEF Apply, TypeOK, SchemaFirst, Migrated, Seen, GoingBack,
        Pending, ConcludedRunsAgree, Steps
<1>6. CASE Rollout
  <2>1. CASE StepFails
    BY <1>6, <2>1, FailKeeps DEF Rollout, TypeOK, SchemaFirst
  <2>2. CASE ~StepFails
    BY <1>6, <2>2 DEF Rollout, TypeOK, SchemaFirst, Migrated, Seen, GoingBack, Pending,
        ConcludedRunsAgree, Steps
  <2> QED BY <2>1, <2>2
<1>7. CASE Verify
  <2>1. CASE StepFails
    BY <1>7, <2>1, FailKeeps DEF Verify, TypeOK, SchemaFirst
  <2>2. CASE ~StepFails
    BY <1>7, <2>2 DEF Verify, Passes, TypeOK, SchemaFirst, Migrated, Seen, GoingBack, Pending,
        ConcludedRunsAgree, Steps
  <2> QED BY <2>1, <2>2
<1>8. CASE Mark
  BY <1>8 DEF Mark, TypeOK, SchemaFirst, Migrated, Seen, GoingBack, Pending,
      ConcludedRunsAgree, Steps
<1> QED BY <1>1, <1>2, <1>3, <1>4, <1>5, <1>6, <1>7, <1>8 DEF Deploy

LEMMA InterruptedKeeps == ASSUME IInv, Interrupted PROVE IInv'
<1>1. faults' \in Nat
  BY DEF IInv, TypeOK, Interrupted, Fault
<1>2. CASE UNCHANGED <<live, before>>
  BY <1>1, <1>2, FailKeeps DEF Interrupted, IInv, TypeOK, SchemaFirst
<1>3. ASSUME step = "apply", NEW ds \in SUBSET Deployments, Roll(ds, Of(image))
      PROVE  IInv'
  <2>1. Of(image) \in Template /\ Of(image).image \in migrated
    BY <1>3 DEF IInv, TypeOK, Migrated, Of, Template
  <2>2. /\ live' \in [Deployments -> Template \cup {NoTemplate}]
        /\ before' \in [Deployments -> Template \cup {NoTemplate}]
        /\ SchemaFirst'
    BY <1>3, <2>1, RollKeeps DEF Interrupted, SchemaFirst
  <2>3. CASE prev # None
    BY <1>1, <1>3, <2>2, <2>3 DEF Interrupted, StepFails, Goto, End, run, IInv, TypeOK,
        Migrated, Seen, GoingBack, Pending, ConcludedRunsAgree, Steps, Deployments, Ready
  <2>4. CASE prev = None
    BY <1>1, <1>3, <2>2, <2>4 DEF Interrupted, StepFails, Goto, End, run, IInv, TypeOK,
        Migrated, Seen, GoingBack, Pending, ConcludedRunsAgree, Steps, Deployments, Ready
  <2> QED BY <2>3, <2>4
<1> QED BY <1>2, <1>3 DEF Interrupted

(* The steps of rollback.sh.                                               *)
LEMMA RollbackKeeps == ASSUME IInv, Rollback PROVE IInv'
<1> USE DEF IInv, cluster, run, Goto, End, Deployments, Image, Ready
<1>1. CASE AlreadyThere
  BY <1>1 DEF AlreadyThere, NextDeployment, TypeOK, SchemaFirst, Migrated, Seen, GoingBack,
      Pending, ConcludedRunsAgree, Steps
<1>2. CASE Undo
  <2>1. before[at] \in Template /\ before[at].image \in migrated
    BY <1>2, Marks DEF Undo, TypeOK, SchemaFirst
  <2>2. Roll({at}, before[at]) /\ {at} \in SUBSET Deployments
    BY <1>2 DEF Undo, TypeOK
  <2> QED
    BY <1>2, <2>1, <2>2, RollKeeps DEF Undo, TypeOK, SchemaFirst, Migrated, Seen, GoingBack,
        Pending, ConcludedRunsAgree, Steps
<1>3. CASE Undone
  BY <1>3 DEF Undone, NextDeployment, TypeOK, SchemaFirst, Migrated, Seen, GoingBack,
      Pending, ConcludedRunsAgree, Steps
<1>4. CASE Pin
  <2> DEFINE new == [live[at] EXCEPT !.image = prev]
  <2>1. live[at] \in Template
    BY <1>4 DEF Pin, TypeOK, GoingBack
  <2>2. new \in Template /\ new.image = prev /\ prev \in migrated
    BY <1>4, <2>1 DEF Pin, TypeOK, Migrated, GoingBack, Template
  <2>3. Roll({at}, new) /\ {at} \in SUBSET Deployments
    BY <1>4 DEF Pin, TypeOK
  <2> HIDE DEF new
  <2> QED
    BY <1>4, <2>2, <2>3, Marks, RollKeeps DEF Pin, TypeOK, SchemaFirst, Migrated, Seen,
        GoingBack, Pending, ConcludedRunsAgree, Steps
<1>5. CASE Pinned
  BY <1>5 DEF Pinned, NextDeployment, TypeOK, SchemaFirst, Migrated, Seen, GoingBack,
      Pending, ConcludedRunsAgree, Steps
<1>6. CASE RollbackFails
  BY <1>6 DEF RollbackFails, Fault, TypeOK, SchemaFirst, Migrated, Seen, GoingBack,
      Pending, ConcludedRunsAgree, Steps
<1> QED BY <1>1, <1>2, <1>3, <1>4, <1>5, <1>6 DEF Rollback

(* Jobs and the loss of the runner.                                        *)
LEMMA ElsewhereKeeps == ASSUME IInv, Job \/ RunnerDies PROVE IInv'
<1> USE DEF IInv, cluster, run, Goto, End, Deployments, Image, Ready
<1>1. ASSUME NEW r \in Releases, JobSucceeds(r) PROVE IInv'
  BY <1>1 DEF JobSucceeds, TypeOK, SchemaFirst, Migrated, Seen, GoingBack, Pending,
      ConcludedRunsAgree
<1>2. ASSUME NEW r \in Releases, JobFails(r) PROVE IInv'
  BY <1>2 DEF JobFails, Fault, TypeOK, SchemaFirst, Migrated, Seen, GoingBack, Pending,
      ConcludedRunsAgree
<1>3. CASE RunnerDies
  BY <1>3 DEF RunnerDies, Fault, TypeOK, SchemaFirst, Migrated, Seen, GoingBack, Pending,
      ConcludedRunsAgree, Steps
<1> QED BY <1>1, <1>2, <1>3 DEF Job

THEOREM Invariant == Spec => []IInv
<1>1. IInv /\ [Next]_vars => IInv'
  <2> SUFFICES ASSUME IInv, [Next]_vars PROVE IInv' OBVIOUS
  <2>1. CASE UNCHANGED vars
    BY <2>1 DEF vars, IInv, TypeOK, SchemaFirst, Migrated, Seen, GoingBack, Pending,
        ConcludedRunsAgree, Image, Ready
  <2> QED
    BY <2>1, DeployKeeps, InterruptedKeeps, RollbackKeeps, ElsewhereKeeps DEF Next
<1> QED BY <1>1, Initially, PTL DEF Spec

-----------------------------------------------------------------------------
(* Every variable keeps its type: no image is ever pinned empty.           *)
THEOREM TypeCorrect == Spec => []TypeOK
BY Invariant, PTL DEF IInv

(* deploy.sh: no release runs, or can be undone to, before its migrations. *)
THEOREM SchemaBeforeCode == Spec => []SchemaFirst
BY Invariant, PTL DEF IInv

(* A run that says "released" or "rolled back" leaves both Deployments on  *)
(* the release it means.                                                   *)
THEOREM RunsAgree == Spec => []ConcludedRunsAgree
BY Invariant, PTL DEF IInv

(* mark_verified.sh records what is ready on both and passed the gates.    *)
THEOREM RecordsAreVerified == Spec => RecordedAsItRan
<1>1. ASSUME IInv, [Next]_vars, verified' # verified
      PROVE  verified' \notin Bad
             /\ \A d \in Deployments : Image(d) = verified' /\ Ready(d, verified')
  BY <1>1 DEF IInv, Seen, vars, cluster, run, Next, Deploy, Rollback, Job, Dispatch,
      RecordTarget, Migrate, Poll, Apply, Rollout, Verify, Mark, Interrupted, AlreadyThere, Undo,
      Undone, Pin, Pinned, RollbackFails, JobSucceeds, JobFails, RunnerDies
<1>2. IInv /\ [Next]_vars =>
        [verified' # verified =>
           verified' \notin Bad /\ \A d \in Deployments : Image(d) = verified' /\ Ready(d, verified')]_vars
  BY <1>1
<1> QED BY <1>2, Invariant, PTL DEF Spec, RecordedAsItRan

-----------------------------------------------------------------------------
(* In runs that nothing interferes with, once a release is verified: it is  *)
(* what both Deployments run between two runs, the target of every run, and *)
(* one revision away from whatever the run has brought up.                  *)
Returnable ==
    /\ step \in {"idle", "target", "migrate", "poll", "apply"} =>
         \A d \in Deployments : Image(d) = verified
    /\ step \notin {"idle", "target"} => prev = verified
    /\ step \in {"rollout", "verify", "mark"} =>
         \A d \in Deployments : image = verified \/ before[d].image = verified
    /\ step \in {"undo", "undone", "pinned"} =>
         \A d \in Deployments : Image(d) = verified \/ before[d].image = verified
    /\ step = "undone" => Image(at) = verified
    /\ step # "pinned"

(* The recorded release gets ready and passes the gates. *)
VerifiedIsFine == verified \notin Bad /\ \A d \in Deployments : Ready(d, verified)

Undisturbed == faults = 0 /\ verified # None => VerifiedIsFine /\ Returnable

(* A step with a fault is counted, and so not in question. *)
LEMMA FaultCounts == ASSUME TypeOK, NEW kind, Fault(kind) PROVE faults' # 0
BY DEF TypeOK, Fault

(* No run disturbs this: what it breaks, its rollback mends. *)
LEMMA UndisturbedKept ==
    ASSUME IInv, Undisturbed, [Next]_vars
    PROVE  Undisturbed'
<1> SUFFICES ASSUME faults' = 0, verified' # None
             PROVE  (VerifiedIsFine /\ Returnable)'
  BY DEF Undisturbed
<1> USE DEF cluster, run, Goto, End, Deployments, Image, Ready
<1>1. CASE UNCHANGED vars
  BY <1>1 DEF vars, Undisturbed, VerifiedIsFine, Returnable
<1>2. CASE Mark
  BY <1>2 DEF Mark, IInv, Seen, VerifiedIsFine, Returnable
<1>3. ASSUME Next, ~Mark
      PROVE  verified' = verified
  BY <1>3 DEF Next, Deploy, Rollback, Job, Dispatch, RecordTarget, Migrate, Poll, Apply, Rollout,
      Verify, Interrupted, AlreadyThere, Undo, Undone, Pin, Pinned, RollbackFails, JobSucceeds,
      JobFails, RunnerDies
<1>4. ASSUME Next, ~Mark
      PROVE  faults = 0 /\ VerifiedIsFine /\ Returnable /\ VerifiedIsFine'
  <2>1. faults = 0
    BY <1>4, FaultCounts DEF IInv, TypeOK, Next, Deploy, Rollback, Job, Dispatch, RecordTarget,
        Migrate, Poll, Apply, Rollout, Verify, Interrupted, AlreadyThere, Undo, Undone, Pin,
        Pinned, RollbackFails, JobSucceeds, JobFails, RunnerDies
  <2> QED BY <1>3, <1>4, <2>1 DEF Undisturbed, VerifiedIsFine
<1>5. ASSUME StepFails, Returnable, VerifiedIsFine, UNCHANGED <<live, before, verified>>,
             step \in {"migrate", "poll", "apply", "rollout", "verify", "mark"}
      PROVE  Returnable'
  BY <1>5 DEF StepFails, Returnable, IInv, Seen
<1>6. CASE Deploy /\ ~Mark
  <2> USE <1>3, <1>4, <1>6 DEF Next
  <2>1. CASE Dispatch
    BY <2>1 DEF Dispatch, Returnable
  <2>2. CASE RecordTarget
    BY <2>2, FaultCounts DEF RecordTarget, Target, IInv, Returnable
  <2>3. CASE Migrate
    BY <2>3 DEF Migrate, Returnable
  <2>4. CASE Poll
    BY <2>4, <1>5 DEF Poll, Returnable
  <2>5. CASE Apply
    BY <2>5 DEF Apply, Roll, Of, Returnable, IInv, TypeOK
  <2>6. CASE Rollout
    BY <2>6, <1>5 DEF Rollout, Returnable
  <2>7. CASE Verify
    BY <2>7, <1>5 DEF Verify, Returnable
  <2> QED BY <2>1, <2>2, <2>3, <2>4, <2>5, <2>6, <2>7 DEF Deploy
<1>7. CASE Interrupted \/ RunnerDies \/ Job
  <2> USE <1>3, <1>4, <1>7, FaultCounts DEF Next, IInv
  <2>1. ~Interrupted /\ ~RunnerDies
    BY DEF Interrupted, RunnerDies
  <2>2. PICK r \in Releases : JobSucceeds(r) \/ JobFails(r)
    BY <2>1 DEF Job
  <2> QED BY <2>2 DEF JobSucceeds, JobFails, Returnable, Mark
<1>8. CASE Rollback
  <2>0. ~Mark
    BY <1>8 DEF Rollback, Mark, AlreadyThere, Undo, Undone, Pin, Pinned, RollbackFails
  <2> USE <1>3, <1>4, <1>8, <2>0 DEF Next
  <2>1. CASE AlreadyThere
    BY <2>1 DEF AlreadyThere, NextDeployment, Returnable, IInv, GoingBack
  <2>2. CASE Undo
    BY <2>2 DEF Undo, Roll, Returnable, IInv, TypeOK
  <2>3. CASE Undone
    BY <2>3 DEF Undone, NextDeployment, Returnable, IInv, GoingBack
  <2>4. ~Pin
    BY DEF Pin, Returnable
  <2>5. ~Pinned
    BY DEF Pinned, Returnable
  <2>6. ~RollbackFails
    BY FaultCounts DEF RollbackFails, Returnable, VerifiedIsFine, IInv, TypeOK, NoTemplate
  <2> QED BY <2>1, <2>2, <2>3, <2>4, <2>5, <2>6 DEF Rollback
<1> QED BY <1>1, <1>2, <1>6, <1>7, <1>8 DEF Next

(* deploy.sh:25-27: without interference the rollback target is the last   *)
(* verified release, after any number of good and bad releases.            *)
THEOREM TargetWasVerified == Spec => []TargetIsVerified
<1>1. Init => Undisturbed
  BY DEF Init, Undisturbed
<1>2. Undisturbed => TargetIsVerified
  BY DEF Undisturbed, Returnable, TargetIsVerified
<1> QED BY <1>1, <1>2, Invariant, UndisturbedKept, PTL DEF Spec

=============================================================================
