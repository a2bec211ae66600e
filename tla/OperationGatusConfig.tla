------------------------- MODULE OperationGatusConfig -------------------------
(***************************************************************************)
(* The Gatus receiver bundle of internal/health/operation_gatus_config.go    *)
(* and operation_plan_runtime.go: what is generated from the inputs of a      *)
(* release, and what of it becomes the work of the operation-plan lane.       *)
(*                                                                           *)
(* A release r holds the image-owned inputs of the programs:                 *)
(*   canaries   Health ID -> [operation, key, interval, heartbeat], with the  *)
(*              Registry operation its metadata link names                    *)
(*   metadata   the operations of the pinned data.go.kr metadata              *)
(*   plan       operation -> [admitted, kind, period], or NoPlan              *)
(*   path, sha  whether the activation file and its digest are configured     *)
(*   activation [plan, operations, pinned]: the plan index it names, the      *)
(*              selected operations, and whether the digest is the file's     *)
(* A digest stands for the bytes it is taken of, so it is the value itself.   *)
(***************************************************************************)
EXTENDS Integers, FiniteSets

CONSTANTS
  Foreign,      \* operations of sources other than data.go.kr
  NoPlan,
  MaxPeriod     \* the longest observation period that is accepted

\* stableOperationGatusEndpointKey: a digest of the identity.
stableKey(o) == <<"registry", o>>

\* LoadCanaryConfig and validCadence: two missed schedules make a heartbeat.
validCanaries(r) ==
  /\ DOMAIN r.canaries # {}
  /\ \A c \in DOMAIN r.canaries : r.canaries[c].heartbeat = 2 * r.canaries[c].interval

\* LoadRegistryAPIMetadata: every canary is linked to one operation of the
\* metadata and no two to the same.
linked(r) ==
  /\ \A c \in DOMAIN r.canaries : r.canaries[c].operation \in r.metadata
  /\ \A c, d \in DOMAIN r.canaries : r.canaries[c].operation = r.canaries[d].operation => c = d

\* bindsSourceInventory: the plan's data.go.kr operations are the metadata's.
bindsSourceInventory(r) == DOMAIN r.plan \ Foreign = r.metadata

\* Neither or both of the activation file and its digest are configured.
activationAbsent(r) == ~r.path /\ ~r.sha
activationGiven(r) == r.path /\ r.sha

\* DecodeOperationGatusActivation and the comparison with the configured digest.
activationValid(r) ==
  /\ r.plan # NoPlan
  /\ r.activation.pinned
  /\ r.activation.plan = r.plan

\* The operations an activation selects; without one none is.
activationOperations(r) == IF activationGiven(r) THEN r.activation.operations ELSE {}

-----------------------------------------------------------------------------
\* The canary of an operation, as a set of at most one Health ID.
canaryOf(r, o) == {c \in DOMAIN r.canaries : r.canaries[c].operation = o}

planOperations(r) == IF r.plan = NoPlan THEN {} ELSE DOMAIN r.plan

\* Every operation of the plan and every canary's operation has an identity; an
\* operation that overlaps a canary keeps the canary's key.
identityOperations(r) == planOperations(r) \cup {r.canaries[c].operation : c \in DOMAIN r.canaries}

endpointKey(r, o) ==
  IF canaryOf(r, o) = {} THEN stableKey(o) ELSE r.canaries[CHOOSE c \in canaryOf(r, o) : TRUE].key

\* The identity of one operation in operation-identity-map.json.
identity(r, o) ==
  LET selected == o \in activationOperations(r) /\ o \in planOperations(r)
      overlaps == canaryOf(r, o) # {} IN
    [key |-> endpointKey(r, o),
     plan |-> IF o \in planOperations(r) THEN r.plan[o] ELSE NoPlan,
     planActive |-> selected,
     legacyActive |-> overlaps /\ ~selected,
     legacyID |-> canaryOf(r, o),
     active |-> overlaps \/ selected]

\* The legacy canaries whose operation the plan lane takes over.
suppressed(r) == {c \in DOMAIN r.canaries : r.canaries[c].operation \in activationOperations(r)}

\* operationGatusHeartbeat: an observation-only result keeps no heartbeat.
operationGatusHeartbeat(record) ==
  IF record.kind = "observation_only" THEN 0 ELSE 2 * record.period

\* The external endpoints of config.yaml: one for every active identity.
endpoint(r, o) ==
  LET i == identity(r, o) IN
    [key |-> i.key,
     heartbeat |-> IF i.planActive THEN operationGatusHeartbeat(i.plan)
                   ELSE r.canaries[CHOOSE c \in i.legacyID : TRUE].heartbeat]

endpoints(r) == {endpoint(r, o) : o \in {p \in identityOperations(r) : identity(r, p).active}}

\* registerOperationGatusKey: no two identities share a key, active or not.
registerOperationGatusKey(r) ==
  \A o, p \in identityOperations(r) : endpointKey(r, o) = endpointKey(r, p) => o = p

\* An operation may be selected when the plan admits it completely.
selectable(record) == record.admitted /\ record.period \in 1..MaxPeriod

\* GenerateOperationGatusArtifacts succeeds.
generates(r) ==
  /\ validCanaries(r) /\ linked(r)
  /\ r.plan # NoPlan => bindsSourceInventory(r)
  /\ registerOperationGatusKey(r)
  /\ activationOperations(r) \subseteq planOperations(r)
  /\ \A o \in activationOperations(r) : selectable(r.plan[o])

-----------------------------------------------------------------------------
\* What is generated: each artifact holds the digests of what it is made from.
Config(r) == endpoints(r)

Mapping(r) ==
  [plan |-> r.plan, metadata |-> r.metadata, canaries |-> r.canaries,
   activation |-> IF activationGiven(r) THEN r.activation ELSE NoPlan,
   config |-> Config(r),
   operations |-> [o \in identityOperations(r) |-> identity(r, o)]]

RuntimePin(r) == [mapping |-> Mapping(r), config |-> Config(r)]

\* exactActivePlanTargets: the targets of the lane are the operations that are
\* active in the identity map, if the map agrees with the plan record by record.
exactActivePlanTargets(mapping) ==
  {o \in DOMAIN mapping.operations : mapping.operations[o].planActive}

agrees(plan, mapping) ==
  /\ DOMAIN plan \subseteq DOMAIN mapping.operations
  /\ \A o \in DOMAIN plan :
       LET i == mapping.operations[o] IN
         /\ i.plan = plan[o]
         /\ ~i.planActive /\ i.active => i.legacyActive
         /\ i.planActive => i.active /\ ~i.legacyActive /\ plan[o].admitted
  /\ exactActivePlanTargets(mapping) \subseteq DOMAIN plan
=============================================================================
