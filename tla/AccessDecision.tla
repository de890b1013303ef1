--------------------------- MODULE AccessDecision ---------------------------
(***************************************************************************)
(* How one access to a surface is decided: the seal level of the resource,  *)
(* the gatekeeper (gatekeeper.ts) under the hardening rules of that level,  *)
(* the policy rules (policy-engine/engine.ts), the trust state the decision *)
(* leaves the actor in (overlay-coordinator.ts), and the envelope the       *)
(* sidecar puts around the requests of a control session                    *)
(* (mantle-sidecar.ts).  Everything here is a pure operator; the tags of a  *)
(* resource come from the inventory, which SurfaceResolution owns.          *)
(*                                                                          *)
(* Names are abstracted to what the patterns of the code tell apart.  Risk  *)
(* tags are three classes: "tokens" (tokens, secrets, process), "admin"     *)
(* (admin, database) and "prompt" (prompt, tool, webhook); any other tag    *)
(* only makes a sensitivity medium, which no rule tells from low.  Anomaly  *)
(* scores are in hundredths.                                                *)
(***************************************************************************)
EXTENDS SidecarPosture, Sequences

CONSTANTS
  Resource,     \* paths, queries and routes
  Actor,
  InferredTags, \* InferredTags[r]: inferTags of the name r
  NamedZone,    \* NamedZone[r]: the seal level the name r alone suggests
  Rules         \* the policy file's rules, in its order

SealLevel == {"OPEN", "OBSERVED", "RESTRICTED", "SEALED"}

ActorTrustState ==
  {"trusted", "observed", "suspicious", "deceptive", "restricted",
   "quarantined"}

AccessDecisions ==
  {"ALLOW", "ALLOW_WITH_LOGGING", "ALLOW_READ_ONLY", "ALLOW_LIMITED",
   "REQUIRE_APPROVAL", "QUARANTINE", "BLOCK"}

RiskTag == {"tokens", "admin", "prompt"}

Undefined == "undefined"

ASSUME DecisionAssumption ==
  /\ InferredTags \in [Resource -> SUBSET RiskTag]
  /\ NamedZone \in [Resource -> {"OBSERVED", "RESTRICTED", "SEALED"}]
  /\ Rules \in Seq([resources : SUBSET Resource, actors : SUBSET Actor,
                    decision : AccessDecisions, priority : Nat])

\* GET stands for HEAD too, POST for PUT, PATCH and DELETE
HttpMethod == {"GET", "OPTIONS", "POST", "CONNECT", "TRACE"}

Action == {"read", "search"} \cup HttpMethod

SurfaceOf(action) == IF action \in HttpMethod THEN "http" ELSE action

SafeMethod == {"GET", "OPTIONS"}

\* a request as it reaches the engine; real: a real answer can be had
Payload ==
  [actor        : Actor,
   resource     : Resource,
   action       : Action,
   real         : BOOLEAN,
   riskTags     : SUBSET RiskTag,
   zoneLevel    : SealLevel \cup {Undefined},
   trustState   : ActorTrustState \cup {Undefined},
   isKnownActor : {"known", "unknown", Undefined},
   anomalyScore : 0 .. 100]

SealRank ==
  [l \in SealLevel |-> IF l = "OPEN" THEN 0
                       ELSE IF l = "OBSERVED" THEN 1
                       ELSE IF l = "RESTRICTED" THEN 2 ELSE 3]

TRUST_ORDER ==
  [t \in ActorTrustState |-> IF t = "trusted" THEN 0
                             ELSE IF t = "observed" THEN 1
                             ELSE IF t = "suspicious" THEN 2
                             ELSE IF t = "deceptive" THEN 3
                             ELSE IF t = "restricted" THEN 4 ELSE 5]

DECISION_ORDER ==
  [d \in AccessDecisions |-> IF d = "ALLOW" THEN 0
                             ELSE IF d = "ALLOW_WITH_LOGGING" THEN 1
                             ELSE IF d = "ALLOW_READ_ONLY" THEN 2
                             ELSE IF d = "ALLOW_LIMITED" THEN 3
                             ELSE IF d = "REQUIRE_APPROVAL" THEN 4
                             ELSE IF d = "QUARANTINE" THEN 5 ELSE 6]

BLOCKING_DECISIONS == {"REQUIRE_APPROVAL", "QUARANTINE", "BLOCK"}

ELIGIBLE_OVERLAY_STATES ==
  {"suspicious", "deceptive", "restricted", "quarantined"}
-----------------------------------------------------------------------------
\* The zone and the sensitivity of a resource with these risk tags

inferZoneLevel(resource, riskTags) ==
  IF "tokens" \in riskTags THEN "SEALED"
  ELSE IF riskTags \cap {"admin", "prompt"} # {} THEN "RESTRICTED"
  ELSE NamedZone[resource]

\* inferSensitivity is high; medium and low are not told apart
IsSensitive(zoneLevel, riskTags) ==
  zoneLevel = "SEALED" \/ riskTags \cap {"tokens", "admin"} # {}

\* the sensitive read and mutation policies of getHardeningRules
Denies(level) == level = "SEALED"
Constrains(level) == level = "RESTRICTED"
-----------------------------------------------------------------------------
\* The gatekeeper's classification of an action, and its decision pipeline

IsReadLike(action) == action \in {"read", "search", "GET", "OPTIONS"}

IsMutationLike(action) == action \in {"POST", "CONNECT"}

gatekeeperDecision(zone, known, score, action, sensitive) ==
  IF score >= 95 THEN "BLOCK"
  ELSE IF zone = "SEALED" /\ ~ known THEN "BLOCK"
  ELSE IF sensitive /\ IsMutationLike(action) /\ Denies(zone) THEN "BLOCK"
  ELSE IF sensitive /\ IsReadLike(action) /\ Denies(zone) THEN "BLOCK"
  ELSE IF sensitive /\ IsMutationLike(action) /\ Constrains(zone)
    THEN "REQUIRE_APPROVAL"
  ELSE IF zone = "SEALED" /\ score >= 70 THEN "QUARANTINE"
  ELSE IF zone = "RESTRICTED" /\ ~ known THEN "REQUIRE_APPROVAL"
  ELSE IF sensitive /\ IsReadLike(action) /\ Constrains(zone)
    THEN "ALLOW_READ_ONLY"
  ELSE IF \/ zone = "RESTRICTED" /\ score >= 50
          \/ score >= 60
          \/ zone = "OBSERVED"
    THEN "ALLOW_WITH_LOGGING"
  ELSE "ALLOW"
-----------------------------------------------------------------------------
\* The policy engine: the first matching rule of the rules sorted by priority,
\* the lowest number first, and rules of the same number in the order of the
\* file; without one, sensitive accesses are constrained by their kind

MatchingRules(resource, actor) ==
  {i \in DOMAIN Rules : /\ resource \in Rules[i].resources
                        /\ actor \in Rules[i].actors}

FirstRules(resource, actor) ==
  {i \in MatchingRules(resource, actor) :
     \A j \in MatchingRules(resource, actor) :
       \/ Rules[i].priority < Rules[j].priority
       \/ Rules[i].priority = Rules[j].priority /\ i <= j}

\* a read or a search, by the coordinator's classifyActionKind; unlike for
\* the gatekeeper, OPTIONS is none
resolveDefaultDecision(action, sensitive) ==
  IF sensitive /\ action \in {"read", "search", "GET"}
  THEN "ALLOW_READ_ONLY"
  ELSE IF sensitive /\ action \in {"POST", "CONNECT"}
  THEN "REQUIRE_APPROVAL"
  ELSE "ALLOW"

policyDecision(resource, actor, action, sensitive) ==
  LET first == FirstRules(resource, actor) IN
  IF first # {} THEN Rules[CHOOSE i \in first : TRUE].decision
  ELSE resolveDefaultDecision(action, sensitive)
-----------------------------------------------------------------------------
\* The coordinator's evaluateDecision

moreRestrictiveDecision(left, right) ==
  IF DECISION_ORDER[left] >= DECISION_ORDER[right] THEN left ELSE right

deriveTrustState(base, decision) ==
  LET derived ==
        IF decision \in {"BLOCK", "QUARANTINE"}
        THEN IF base = "trusted" THEN "restricted" ELSE "quarantined"
        ELSE IF decision \in {"REQUIRE_APPROVAL", "ALLOW_LIMITED",
                              "ALLOW_READ_ONLY"}
        THEN IF base = "trusted" THEN "restricted" ELSE "deceptive"
        ELSE IF decision = "ALLOW_WITH_LOGGING" /\ base # "trusted"
        THEN "suspicious"
        ELSE base
  IN  IF TRUST_ORDER[derived] >= TRUST_ORDER[base] THEN derived ELSE base

BaseTrust(payload) ==
  IF payload.trustState # Undefined THEN payload.trustState
  ELSE IF payload.isKnownActor = "known" THEN "trusted" ELSE "observed"

ZoneOf(payload, riskTags) ==
  IF payload.zoneLevel # Undefined THEN payload.zoneLevel
  ELSE inferZoneLevel(payload.resource, riskTags)

IsKnown(payload) ==
  \/ payload.isKnownActor = "known"
  \/ payload.isKnownActor = Undefined /\ payload.trustState = "trusted"

effectiveDecision(payload, riskTags) ==
  LET zone == ZoneOf(payload, riskTags)
      sensitive == IsSensitive(zone, riskTags)
  IN  moreRestrictiveDecision(
        policyDecision(payload.resource, payload.actor, payload.action,
                       sensitive),
        gatekeeperDecision(zone, IsKnown(payload), payload.anomalyScore,
                           payload.action, sensitive))

trustAfter(payload, riskTags) ==
  deriveTrustState(BaseTrust(payload), effectiveDecision(payload, riskTags))
-----------------------------------------------------------------------------
\* The sidecar's envelope: what the posture of the surface makes of a request

moreRestrictiveZoneLevel(current, next) ==
  IF next = Undefined THEN current
  ELSE IF current = Undefined \/ SealRank[next] > SealRank[current]
  THEN next ELSE current

moreRestrictiveTrustState(current, next) ==
  IF next = Undefined THEN current
  ELSE IF current = Undefined \/ TRUST_ORDER[next] > TRUST_ORDER[current]
  THEN next ELSE current

postureToZoneLevel ==
  [p \in SidecarSessionPosture |->
     IF p = "guarded" THEN "OBSERVED"
     ELSE IF p = "restricted" THEN "RESTRICTED"
     ELSE IF p = "sealed" THEN "SEALED" ELSE Undefined]

postureToTrustState ==
  [p \in SidecarSessionPosture |->
     IF p = "guarded" THEN "observed"
     ELSE IF p = "restricted" THEN "restricted"
     ELSE IF p = "sealed" THEN "quarantined" ELSE Undefined]

\* mutant: a restricted posture has a floor for http only
resolvePostureAnomalyFloor_HttpOnly(posture, action) ==
  IF posture = "sealed" THEN 98
  ELSE IF posture = "restricted"
  THEN IF action \in SafeMethod THEN 78
       ELSE IF action \in HttpMethod THEN 92 ELSE 0
  ELSE IF posture = "guarded" THEN 45 ELSE 0

resolvePostureAnomalyFloor(posture, action) ==
  IF posture = "sealed" THEN 98
  ELSE IF posture = "restricted"
  THEN IF action \in SafeMethod THEN 78
       ELSE IF action \in HttpMethod THEN 92 ELSE 72
  ELSE IF posture = "guarded" THEN 45 ELSE 0

resolveKnownActorForPosture(current, posture, action) ==
  IF \/ posture = "sealed"
     \/ posture = "restricted" /\ action \in HttpMethod \ SafeMethod
  THEN "unknown"
  ELSE IF current # Undefined THEN current
  ELSE IF posture = "restricted" THEN "unknown" ELSE "known"

\* mutant: the anomaly score of the request wins over the posture's floor
applySessionEnvelope_ScoreKept(payload, posture) ==
  [payload EXCEPT
     !.zoneLevel = moreRestrictiveZoneLevel(@, postureToZoneLevel[posture]),
     !.trustState = moreRestrictiveTrustState(@, postureToTrustState[posture])]

\* the risk tags it adds name the session's postures, none of the classes
applySessionEnvelope(payload, posture) ==
  [payload EXCEPT
     !.zoneLevel = moreRestrictiveZoneLevel(@, postureToZoneLevel[posture]),
     !.trustState = moreRestrictiveTrustState(@, postureToTrustState[posture]),
     !.anomalyScore =
        LET floor == resolvePostureAnomalyFloor(posture, payload.action)
        IN  IF @ >= floor THEN @ ELSE floor,
     !.isKnownActor =
        resolveKnownActorForPosture(@, posture, payload.action)]
=============================================================================
