------------------------------ MODULE Release ------------------------------
(***************************************************************************)
(* The deploy job of the pipeline (deploy.yml) and the scripts it runs:    *)
(* deploy.sh takes down the rollback target, runs the migrations as a Job  *)
(* and rolls out; verify_release.py decides; mark_verified.sh records the  *)
(* release, or rollback.sh goes back. One run at a time; its runner may    *)
(* die at any point, and then nothing cleans up after it.                  *)
(*                                                                         *)
(* A release is an image digest with its version. What is in it are two    *)
(* facts: which of its pods get ready, and whether it passes the gates.    *)
(***************************************************************************)
EXTENDS Naturals

CONSTANTS
    Releases,
    Broken,         \* <<release, Deployment>> whose pods never get ready
    Bad,            \* releases that fail a gate of verify_release.py
    None,
    MaxDeploys,     \* runs of the pipeline in this instance
    Faults, MaxFaults

Deployments == {"api", "worker"}

(* A kubectl read whose error is dropped, a step that fails or is          *)
(* cancelled though the release is fine, a failed command of the rollback, *)
(* a failed migration, a lost runner.                                      *)
FaultKinds == {"read", "step", "rollback", "job", "runner"}

ASSUME ReleaseAssumption ==
    /\ None \notin Releases
    /\ Broken \subseteq Releases \X Deployments /\ Bad \subseteq Releases
    /\ MaxDeploys \in Nat /\ MaxFaults \in Nat /\ Faults \subseteq FaultKinds

(* A pod template: the version annotation of a release and an image.       *)
Template == [image : Releases, version : Releases]
Of(r) == [image |-> r, version |-> r]
NoTemplate == [image |-> None, version |-> None]

VARIABLES
    live,       \* the template of each Deployment
    before,     \* the template of the revision before, where undo leads
    verified,   \* annotation verified-image of settle-api
    migrated,   \* releases whose migrations are applied
    job,        \* the migration Job of each release, named by its digest
    step,       \* of the pipeline, "idle" between two runs
    at,         \* the Deployment a rollout or rollback has come to
    image,      \* the release being deployed
    prev,       \* output previous_image of deploy.sh, None when empty
    outcome,    \* how the last run ended
    deploys, faults

vars == <<live, before, verified, migrated, job, step, at, image, prev, outcome, deploys, faults>>
cluster == <<live, before, verified, migrated, job>>
run == <<image, prev, deploys>>

Steps == {"idle", "target", "migrate", "poll", "apply", "rollout", "verify", "mark",
          "undo", "undone", "pinned"}

Image(d) == live[d].image
Ready(d, r) == <<r, d>> \notin Broken
Fault(kind) == kind \in Faults /\ faults < MaxFaults /\ faults' = faults + 1

Init ==
    /\ live = [d \in Deployments |-> NoTemplate] /\ before = live
    /\ verified = None /\ migrated = {} /\ job = [r \in Releases |-> "none"]
    /\ step = "idle" /\ at = "api" /\ image \in Releases /\ prev = None
    /\ outcome = "none" /\ deploys = 0 /\ faults = 0

(* Deployments ds get template new, a new revision only where it differs.  *)
Roll(ds, new) ==
    /\ before' = [d \in Deployments |-> IF d \in ds /\ new # live[d] THEN live[d] ELSE before[d]]
    /\ live' = [d \in Deployments |-> IF d \in ds THEN new ELSE live[d]]

(* A step of the workflow: it only moves the pipeline on.                  *)
Goto(s) == step' = s /\ UNCHANGED <<run, outcome>>
Quiet == UNCHANGED <<at, cluster>>

(* The run ends; between two runs nothing of it is left but its outcome.   *)
End(how) ==
    /\ step' = "idle" /\ outcome' = how /\ at' = "api" /\ UNCHANGED run

(* Mutation: a rollback without a target.                                  *)
RollBackAnyway == at' = "api" /\ Goto("undo")

(* Mutation: what failed stays, and the run ends.                          *)
StepFailsAsItIs == End("failed")

(* A failed or cancelled step: the rollback, if there is a target.         *)
StepFails ==
    \/ prev # None /\ at' = "api" /\ Goto("undo")
    \/ prev = None /\ End("failed")

----------------------------------------------------------------------------
(* The workflow is dispatched outside the freeze window.                   *)
Dispatch ==
    /\ step = "idle" /\ deploys < MaxDeploys
    /\ deploys' = deploys + 1
    /\ image' \in Releases /\ prev' = None
    /\ step' = "target" /\ outcome' = "none"
    /\ UNCHANGED <<cluster, at, faults>>

(* The last verified release, or what runs if that is this very release.   *)
Target(good, running) == IF good # None /\ good # image THEN good ELSE running

RecordTarget ==
    /\ step = "target" /\ step' = "migrate"
    /\ \/ prev' = Target(verified, Image("api")) /\ UNCHANGED faults
       \/ Fault("read") /\ prev' \in {Target(None, Image("api")), Target(verified, None)}
    /\ UNCHANGED <<cluster, at, image, outcome, deploys>>

(* delete job; apply: a Job of the same digest is run again.               *)
Migrate ==
    /\ step = "migrate" /\ Goto("poll")
    /\ job' = [job EXCEPT ![image] = "running"]
    /\ UNCHANGED <<live, before, verified, migrated, at, faults>>

(* The Job runs on its own, also after the script has given up on it.      *)
JobSucceeds(r) ==
    /\ job[r] = "running" /\ job' = [job EXCEPT ![r] = "succeeded"]
    /\ migrated' = migrated \cup {r}
    /\ UNCHANGED <<live, before, verified, step, at, run, outcome, faults>>

JobFails(r) ==
    /\ job[r] = "running" /\ Fault("job") /\ job' = [job EXCEPT ![r] = "failed"]
    /\ UNCHANGED <<live, before, verified, migrated, step, at, run, outcome>>

(* Mutation: a Job that has not failed by the last poll will do.           *)
PollNoVerdict ==
    /\ step = "poll" /\ UNCHANGED <<cluster, faults>>
    /\ \/ job[image] # "failed" /\ Goto("apply") /\ UNCHANGED at
       \/ job[image] = "failed" /\ StepFails

(* 180 polls: succeeded, failed, or neither at the last one.               *)
Poll ==
    /\ step = "poll" /\ UNCHANGED <<cluster, faults>>
    /\ \/ job[image] = "succeeded" /\ Goto("apply") /\ UNCHANGED at
       \/ job[image] # "succeeded" /\ StepFails

Apply ==
    /\ step = "apply" /\ Roll(Deployments, Of(image))
    /\ at' = "api" /\ Goto("rollout") /\ UNCHANGED <<verified, migrated, job, faults>>

(* Mutation: only the rollout of api is waited for.                        *)
RolloutOfApi ==
    /\ step = "rollout" /\ UNCHANGED <<cluster, faults>>
    /\ \/ Ready("api", image) /\ Goto("verify") /\ UNCHANGED at
       \/ ~Ready("api", image) /\ StepFails

(* rollout status, of api and then of worker.                              *)
Rollout ==
    /\ step = "rollout" /\ UNCHANGED <<cluster, faults>>
    /\ \/ Ready(at, image) /\ at = "api" /\ at' = "worker" /\ Goto("rollout")
       \/ Ready(at, image) /\ at = "worker" /\ at' = "api" /\ Goto("verify")
       \/ ~Ready(at, image) /\ StepFails

Passes(r) == r \notin Bad

Verify ==
    /\ step = "verify" /\ UNCHANGED <<cluster, faults>>
    /\ \/ Passes(image) /\ Goto("mark") /\ UNCHANGED at
       \/ ~Passes(image) /\ StepFails

Mark ==
    /\ step = "mark" /\ verified' = image /\ End("released")
    /\ UNCHANGED <<live, before, migrated, job, faults>>

(* A step of the run fails for another reason or is cancelled; kubectl     *)
(* apply may have reached some of the Deployments by then.                 *)
Interrupted ==
    /\ step \in {"target", "migrate", "poll", "apply", "rollout", "verify", "mark"}
    /\ Fault("step") /\ StepFails
    /\ \/ step = "apply" /\ \E ds \in SUBSET Deployments : Roll(ds, Of(image))
       \/ UNCHANGED <<live, before>>
    /\ UNCHANGED <<verified, migrated, job>>

----------------------------------------------------------------------------
(* rollback.sh has done with a Deployment: the next one, or the end.       *)
NextDeployment ==
    \/ at = "api" /\ at' = "worker" /\ Goto("undo")
    \/ at = "worker" /\ End("rolledback")

AlreadyThere ==
    /\ step = "undo" /\ Image(at) = prev
    /\ NextDeployment /\ UNCHANGED <<cluster, faults>>

Undo ==
    /\ step = "undo" /\ Image(at) # prev /\ before[at] # NoTemplate
    /\ Roll({at}, before[at]) /\ Goto("undone")
    /\ UNCHANGED <<verified, migrated, job, at, faults>>

(* Mutation: wherever undo led to is taken for the release before.         *)
UndoneUnpinned ==
    /\ step = "undone" /\ Ready(at, Image(at))
    /\ NextDeployment /\ UNCHANGED <<cluster, faults>>

(* rollout status was fine; where undo led to another image, pin prev.     *)
Undone ==
    /\ step = "undone" /\ Ready(at, Image(at)) /\ Image(at) = prev
    /\ NextDeployment /\ UNCHANGED <<cluster, faults>>

Pin ==
    /\ step = "undone" /\ Ready(at, Image(at)) /\ Image(at) # prev
    /\ Roll({at}, [live[at] EXCEPT !.image = prev]) /\ Goto("pinned")
    /\ UNCHANGED <<verified, migrated, job, at, faults>>

Pinned ==
    /\ step = "pinned" /\ Ready(at, prev)
    /\ NextDeployment /\ UNCHANGED <<cluster, faults>>

(* set -e: no revision to go back to, a status that does not get there, or *)
(* a kubectl error ends the script where it is.                            *)
RollbackFails ==
    /\ step \in {"undo", "undone", "pinned"} /\ End("failed") /\ UNCHANGED cluster
    /\ \/ step = "undo" /\ Image(at) # prev /\ before[at] = NoTemplate /\ UNCHANGED faults
       \/ step # "undo" /\ ~Ready(at, Image(at)) /\ UNCHANGED faults
       \/ Fault("rollback")

(* The runner is gone, and with it every later step of the job.            *)
RunnerDies ==
    /\ step # "idle" /\ Fault("runner") /\ End("cut") /\ UNCHANGED cluster

Deploy == Dispatch \/ RecordTarget \/ Migrate \/ Poll \/ Apply \/ Rollout \/ Verify \/ Mark
Rollback == AlreadyThere \/ Undo \/ Undone \/ Pin \/ Pinned \/ RollbackFails
Job == \E r \in Releases : JobSucceeds(r) \/ JobFails(r)

Next == Deploy \/ Interrupted \/ Rollback \/ Job \/ RunnerDies

Spec == Init /\ [][Next]_vars

----------------------------------------------------------------------------
(* Types. In particular no Deployment is ever given an empty image: an     *)
(* empty rollback target is not pinned (deploy.yml:170, rollback.sh:12).   *)
TypeOK ==
    /\ live \in [Deployments -> Template \cup {NoTemplate}]
    /\ before \in [Deployments -> Template \cup {NoTemplate}]
    /\ verified \in Releases \cup {None} /\ migrated \in SUBSET Releases
    /\ job \in [Releases -> {"none", "running", "succeeded", "failed"}]
    /\ step \in Steps /\ at \in Deployments
    /\ image \in Releases /\ prev \in Releases \cup {None}
    /\ outcome \in {"none", "released", "rolledback", "failed", "cut"}
    /\ deploys \in Nat /\ faults \in Nat

(* The schema is there before the code (deploy.sh:3, :93): whatever a      *)
(* Deployment runs, or an undo may bring back, has its migrations applied, *)
(* also when Jobs outlive the run that started them.                       *)
SchemaFirst ==
    \A d \in Deployments : {live[d].image, before[d].image} \subseteq migrated \cup {None}

(* mark_verified.sh records only what runs on both Deployments at that     *)
(* moment, is ready there and passed the gates.                            *)
RecordedAsItRan ==
    [][verified' # verified =>
         verified' \notin Bad /\ \A d \in Deployments : Image(d) = verified' /\ Ready(d, verified')]_vars

(* The pipeline says "released" or "rolled back" only if both Deployments  *)
(* are on the release it means (rollback.sh:2-3), whichever revision undo  *)
(* led to and wherever an earlier run was cut off. That a release rolled   *)
(* back to is ready is not claimed: where it runs already nothing is asked.*)
ConcludedRunsAgree ==
    \A d \in Deployments :
        /\ outcome = "rolledback" => Image(d) = prev
        /\ outcome = "released" => Image(d) = verified /\ Ready(d, verified)

(* deploy.sh:25-27: the rollback target is the last release that passed    *)
(* verification, "not simply whatever is running". It is so after any runs  *)
(* of good and bad releases that nothing interfered with: a release that    *)
(* fails its gates or never gets ready is gone again when the next one      *)
(* starts, also when that is the verified release itself.                   *)
TargetIsVerified ==
    faults = 0 /\ step \notin {"idle", "target"} /\ verified # None => prev = verified
=============================================================================
