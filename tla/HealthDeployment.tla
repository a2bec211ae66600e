--------------------------- MODULE HealthDeployment ---------------------------
(***************************************************************************)
(* The programs of one installation while it is moved from one release to    *)
(* another, or back: health-gatus-config, Gatus, health-scheduler with its    *)
(* canary lane and its operation-plan lane, and the readiness reader of       *)
(* health-public.                                                            *)
(*                                                                           *)
(* The inputs of a program are those of its image; the three generated        *)
(* artifacts lie in a directory they share.  health-gatus-config replaces     *)
(* them one by one, in the order of a Go map, and may die in between; the     *)
(* readers open them one by one, at their start only.  A file stands for the  *)
(* release whose artifact it holds.                                          *)
(*                                                                           *)
(* The lanes themselves are the subject of CanaryScheduler and                *)
(* OperationPlanScheduler; here a lane is the set of what it runs and what    *)
(* it has delivered.                                                         *)
(***************************************************************************)
EXTENDS OperationGatusConfig

CONSTANTS
  Releases,
  Rollouts,     \* the sets of releases that are installed together
  inputs,       \* release -> the inputs its images hold
  Operations

ASSUME ReleasesAssumption ==
  /\ Rollouts \subseteq SUBSET Releases
  /\ \A r \in Releases : IsFiniteSet(DOMAIN inputs[r].canaries)

VARIABLES
  rollout,      \* the releases that are installed during this behaviour
  files,        \* artifact -> the release it was generated from, or NoPlan
  generator,    \* a run of health-gatus-config: its release and what is left to write
  gatus,        \* the release whose config.yaml Gatus has loaded, or NoPlan
  scheduler,    \* the health-scheduler process, with the identity map that it read
  progress,     \* the canaries whose last run was delivered
  evidence,     \* operation -> the plan under which it is currently proven, or NoPlan
  public,       \* the health-public process
  served        \* what health-public last made of the scheduler's status

deploymentVars == <<rollout, files, generator, gatus, scheduler, progress, evidence, public, served>>

Artifacts == {"config", "mapping", "pin"}

\* The bytes of the artifacts of each release.
content ==
  [k \in Artifacts |->
     [r \in Releases |->
        CASE k = "config" -> Config(inputs[r])
          [] k = "mapping" -> Mapping(inputs[r])
          [] k = "pin" -> RuntimePin(inputs[r])]]

Down == [phase |-> "down"]
NotServed == [result |-> "none", uncovered |-> {}]

DeploymentInit ==
  /\ rollout \in Rollouts
  /\ files = [k \in Artifacts |-> NoPlan]
  /\ generator = Down
  /\ gatus = NoPlan
  /\ scheduler = Down /\ progress = {} /\ evidence = [o \in Operations |-> NoPlan]
  /\ public = Down /\ served = NotServed

-----------------------------------------------------------------------------
(* health-gatus-config and Gatus.                                           *)

\* The releases whose inputs make a bundle, with an activation or without.
generable ==
  {r \in Releases :
     /\ activationAbsent(inputs[r]) \/ (activationGiven(inputs[r]) /\ activationValid(inputs[r]))
     /\ generates(inputs[r])}

\* generate, up to the first write: an input or a binding that is not valid
\* ends the run with nothing written.
Generate(r) ==
  /\ generator = Down
  /\ r \in generable
  /\ generator' = [phase |-> "writing", release |-> r, todo |-> Artifacts]
  /\ UNCHANGED <<rollout, files, gatus, scheduler, progress, evidence, public, served>>

\* writeAtomic of one artifact.
WriteArtifact(k) ==
  /\ generator # Down /\ k \in generator.todo
  /\ files' = [files EXCEPT ![k] = generator.release]
  /\ generator' = IF generator.todo = {k} THEN Down
                  ELSE [generator EXCEPT !.todo = @ \ {k}]
  /\ UNCHANGED <<rollout, gatus, scheduler, progress, evidence, public, served>>

\* The run dies, or a write fails.
GeneratorStops ==
  /\ generator # Down
  /\ generator' = Down
  /\ UNCHANGED <<rollout, files, gatus, scheduler, progress, evidence, public, served>>

\* Gatus (external) reads its configuration when it starts.
GatusStart ==
  /\ files["config"] # NoPlan
  /\ gatus' = files["config"]
  /\ UNCHANGED <<rollout, files, generator, scheduler, progress, evidence, public, served>>

\* Gatus has an external endpoint of this key.
receives(key) == gatus # NoPlan /\ \E e \in content["config"][gatus] : e.key = key

-----------------------------------------------------------------------------
(* LoadVerifiedOperationPlanRuntime, shared by both processes.              *)

\* The inputs of the image agree and the bundle can be generated from them.
inputsVerified == {r \in generable : activationGiven(inputs[r])}

\* Mutant of artifactMatches: the artifact is there.
artifactPresent(k, r) == files[k] # NoPlan

\* verifyOperationGatusRuntimeArtifacts: the artifact is, byte for byte, what
\* this release generates.
artifactMatches(k, r) == files[k] # NoPlan /\ content[k][files[k]] = content[k][r]

\* The artifacts are read in this order.
nextPhase == [config |-> "mapping", mapping |-> "pin", pin |-> "verified"]

\* ActivatedPlanOperations of an identity map.
activated(mapping) ==
  IF mapping.activation = NoPlan THEN 0 ELSE Cardinality(mapping.activation.operations)

\* The identity map that was read is decoded: it is of the plan of this release,
\* selects as many operations as its activation, and agrees with the plan.
decodes(r, mapping) ==
  LET n == Cardinality(activationOperations(inputs[r])) IN
    /\ mapping.plan = inputs[r].plan
    /\ activated(mapping) = n
    /\ agrees(inputs[r].plan, mapping)
    /\ Cardinality(exactActivePlanTargets(mapping)) = n

\* What the verified runtime says of itself: the digests are those of the pin.
bindingOf ==
  [r \in Releases |->
     [pin |-> content["pin"][r], suppressed |-> suppressed(inputs[r]),
      admitted |-> Cardinality(activationOperations(inputs[r]))]]

NoBinding == [admitted |-> 0]

-----------------------------------------------------------------------------
(* health-scheduler: loadOperationPlanControl.                              *)

\* The process serves; what it may run depends on the outcome of the load.
running(r, required, verified, legacy, targets, mapping) ==
  [phase |-> "running", release |-> r, required |-> required, verified |-> verified,
   legacy |-> legacy, targets |-> targets, mapping |-> mapping, looped |-> FALSE]

\* operationPlanControl.fail: the activation is asked for and cannot be verified.
failed(r) == running(r, TRUE, FALSE, DOMAIN inputs[r].canaries, {}, NoPlan)

StartScheduler(r) ==
  /\ scheduler = Down
  /\ validCanaries(inputs[r])
  /\ scheduler' = IF activationAbsent(inputs[r])
                  THEN running(r, FALSE, FALSE, DOMAIN inputs[r].canaries, {}, NoPlan)
                  ELSE IF r \in inputsVerified
                  THEN [phase |-> "config", release |-> r, mapping |-> NoPlan]
                  ELSE failed(r)
  /\ progress' = {}
  /\ UNCHANGED <<rollout, files, generator, gatus, evidence, public, served>>

SchedulerReads(k) ==
  /\ scheduler.phase = k
  /\ scheduler' = IF artifactMatches(k, scheduler.release)
                  THEN [scheduler EXCEPT !.phase = nextPhase[k],
                                         !.mapping = IF k = "mapping" THEN content[k][files[k]] ELSE @]
                  ELSE failed(scheduler.release)
  /\ UNCHANGED <<rollout, files, generator, gatus, progress, evidence, public, served>>

\* filterSuppressedLegacyCanaries: every suppressed ID is a configured canary.
filterSuppressedLegacyCanaries(r) == DOMAIN inputs[r].canaries \ suppressed(inputs[r])

\* The lanes come from what was decoded.  The rest of loadOperationPlanControl: the
\* command line tool, the stores, the credentials and the worker are opened, any of
\* which may fail; the plan lane is then off and the canaries it took over stay
\* suppressed.
OpenLane ==
  /\ scheduler.phase = "verified"
  /\ LET r == scheduler.release
         mapping == scheduler.mapping IN
       \E opened \in BOOLEAN :
         scheduler' = IF decodes(r, mapping)
                      THEN running(r, TRUE, TRUE, filterSuppressedLegacyCanaries(r),
                                   IF opened THEN exactActivePlanTargets(mapping) ELSE {}, mapping)
                      ELSE failed(r)
  /\ UNCHANGED <<rollout, files, generator, gatus, progress, evidence, public, served>>

StopScheduler ==
  /\ scheduler # Down
  /\ scheduler' = Down
  /\ UNCHANGED <<rollout, files, generator, gatus, progress, evidence, public, served>>

\* preflight of the tick.  Its other reasons (tools, token, catalogue, storage)
\* only keep the canary lane from running and from being ready, which a process
\* that takes no such step shows as well.
preflight == scheduler.phase = "running" /\ (scheduler.required => scheduler.verified)

\* What each lane runs.
legacyLane == IF preflight THEN scheduler.legacy ELSE {}
planLane == IF scheduler.phase = "running" THEN scheduler.targets ELSE {}

\* A tick with nothing due.
LegacyPass ==
  /\ preflight /\ ~scheduler.looped
  /\ scheduler' = [scheduler EXCEPT !.looped = TRUE]
  /\ UNCHANGED <<rollout, files, generator, gatus, progress, evidence, public, served>>

\* A canary is run in a tick and its result pushed.
LegacyRun(c) ==
  /\ c \in legacyLane
  /\ scheduler' = [scheduler EXCEPT !.looped = TRUE]
  /\ progress' = IF receives(inputs[scheduler.release].canaries[c].key)
                 THEN progress \cup {c} ELSE progress \ {c}
  /\ UNCHANGED <<rollout, files, generator, gatus, evidence, public, served>>

\* An operation is run, and its result pushed and read back; a result that is
\* an observation only is not pushed.
PlanRun(o) ==
  /\ o \in planLane
  /\ LET i == scheduler.mapping.operations[o] IN
       evidence' = [evidence EXCEPT ![o] =
                      IF i.plan.kind = "observation_only" \/ receives(i.key)
                      THEN inputs[scheduler.release].plan ELSE NoPlan]
  /\ UNCHANGED <<rollout, files, generator, gatus, scheduler, progress, public, served>>

-----------------------------------------------------------------------------
(* The status of health-scheduler, and health-public that reads it.         *)

\* Status: the lane is ready when every target has current evidence.
planReady == planLane # {} /\ \A o \in planLane : evidence[o] = inputs[scheduler.release].plan

NoProjection == [ready |-> FALSE, admitted |-> 0]

\* OperationPlanReadinessProjectionFromStatus, absent when the lane is disabled.
projection ==
  IF ~scheduler.required THEN NoProjection
  ELSE [ready |-> planReady,
        binding |-> IF scheduler.verified THEN bindingOf[scheduler.release] ELSE NoBinding]

\* Readiness: every canary of the process's own configuration was delivered.
legacyReady == scheduler.looped /\ scheduler.legacy \subseteq progress

\* canonicalSchedulerReadiness: one look at each lane; the plan lane, when it is
\* asked for, can only take readiness away.
statusReport ==
  [ready |-> legacyReady /\ preflight /\ (scheduler.required => planReady),
   canaries |-> [c \in scheduler.legacy |-> c \in progress],
   plan |-> projection]

\* operationPlanSelfReadinessBinding: an activation that is half configured or
\* does not verify ends health-public.
StartPublic(r) ==
  /\ public = Down
  /\ validCanaries(inputs[r]) /\ linked(inputs[r])
  /\ public' = IF activationAbsent(inputs[r]) THEN [phase |-> "running", release |-> r, bound |-> FALSE]
               ELSE IF r \in inputsVerified THEN [phase |-> "config", release |-> r, bound |-> TRUE]
                    ELSE Down
  /\ served' = NotServed
  /\ UNCHANGED <<rollout, files, generator, gatus, scheduler, progress, evidence>>

PublicReads(k) ==
  /\ public.phase = k
  /\ public' = IF artifactMatches(k, public.release)
               THEN [public EXCEPT !.phase = IF k = "pin" THEN "running" ELSE nextPhase[k]]
               ELSE Down
  /\ UNCHANGED <<rollout, files, generator, gatus, scheduler, progress, evidence, served>>

StopPublic ==
  /\ public # Down
  /\ public' = Down /\ served' = NotServed
  /\ UNCHANGED <<rollout, files, generator, gatus, scheduler, progress, evidence>>

\* validOperationPlanReadinessProjection: the projection is of this bundle.
validProjection(p, b) ==
  /\ p # NoProjection
  /\ p.binding = b
  /\ p.ready => b.admitted # 0

\* Mutant of validReport: the rows are checked, their number is not.
validReportUncounted(r, bound, report) ==
  LET gone == IF bound THEN suppressed(inputs[r]) ELSE {} IN
    /\ IF bound
       THEN validProjection(report.plan, bindingOf[r]) /\ (report.ready => report.plan.ready)
       ELSE report.plan = NoProjection
    /\ DOMAIN report.canaries \subseteq DOMAIN inputs[r].canaries \ gone
    /\ report.ready => \A c \in DOMAIN report.canaries : report.canaries[c]

\* validReport: the rows are exactly the canaries that were not taken over.
validReport(r, bound, report) ==
  LET gone == IF bound THEN suppressed(inputs[r]) ELSE {} IN
    /\ IF bound
       THEN validProjection(report.plan, bindingOf[r]) /\ (report.ready => report.plan.ready)
       ELSE report.plan = NoProjection
    /\ Cardinality(DOMAIN report.canaries) = Cardinality(DOMAIN inputs[r].canaries) - Cardinality(gone)
    /\ DOMAIN report.canaries \subseteq DOMAIN inputs[r].canaries \ gone
    /\ report.ready => \A c \in DOMAIN report.canaries : report.canaries[c]

\* The canaries of health-public that nobody observes at this moment: neither
\* delivered by the canary lane nor proven by the plan lane.
uncovered ==
  {c \in DOMAIN inputs[public.release].canaries :
     LET o == inputs[public.release].canaries[c].operation IN
       /\ c \notin legacyLane \cap progress
       /\ ~(o \in planLane /\ evidence[o] = inputs[scheduler.release].plan)}

\* Snapshot: a report that is not valid, or no answer, is unavailable.
Snapshot ==
  /\ public.phase = "running"
  /\ served' =
       IF scheduler.phase = "running" /\ validReport(public.release, public.bound, statusReport)
       THEN [result |-> IF statusReport.ready THEN "ready" ELSE "not_ready", uncovered |-> uncovered]
       ELSE [result |-> "unavailable", uncovered |-> {}]
  /\ UNCHANGED <<rollout, files, generator, gatus, scheduler, progress, evidence, public>>

DeploymentNext ==
  \/ \E r \in rollout : Generate(r) \/ StartScheduler(r) \/ StartPublic(r)
  \/ \E k \in Artifacts : WriteArtifact(k) \/ SchedulerReads(k) \/ PublicReads(k)
  \/ GeneratorStops \/ GatusStart
  \/ OpenLane \/ StopScheduler
  \/ LegacyPass
  \/ \E c \in legacyLane : LegacyRun(c)
  \/ \E o \in planLane : PlanRun(o)
  \/ StopPublic \/ Snapshot

DeploymentSpec == DeploymentInit /\ [][DeploymentNext]_deploymentVars

-----------------------------------------------------------------------------
\* The operations the canary lane runs.
legacyOperations == {inputs[scheduler.release].canaries[c].operation : c \in legacyLane}

\* A process that runs under an activation runs no operation in both lanes, and
\* pushes different operations under different keys, each of which its
\* release's Gatus configuration declares: also when the artifacts were being
\* replaced while it read them (loadOperationPlanControl,
\* verifyOperationGatusRuntimeArtifacts, GenerateOperationGatusArtifacts).
LanesSound ==
  scheduler.phase = "running" /\ scheduler.required =>
    LET r == scheduler.release
        canaries == inputs[r].canaries
        ran == legacyOperations \cup planLane
        key(o) == IF o \in planLane THEN scheduler.mapping.operations[o].key
                  ELSE canaries[CHOOSE c \in canaryOf(inputs[r], o) : TRUE].key IN
      /\ legacyOperations \cap planLane = {}
      /\ \A o \in ran : \E e \in content["config"][r] : e.key = key(o)
      /\ \A o, p \in ran : key(o) = key(p) => o = p

\* When health-public takes a report as ready, every canary of its own release
\* is observed by one of the scheduler's lanes at that moment, although the two
\* processes may run different releases and each reads the shared artifacts at
\* its own time (validReport, validOperationPlanReadinessProjection).
ReadyIsCovered == served.result = "ready" => served.uncovered = {}
=============================================================================
