--------------------------- MODULE SidecarPosture ---------------------------
(***************************************************************************)
(* The pure part of the sidecar's control plane (mantle-sidecar.ts): the    *)
(* four postures and their order, and how the posture of a control session  *)
(* and of each of its capabilities is derived from the evidence recorded    *)
(* about it.  A session is a record; only the fields the postures depend on *)
(* are read here, SidecarControl says what the others are.                  *)
(***************************************************************************)
EXTENDS Naturals

SidecarSessionPosture == {"normal", "guarded", "restricted", "sealed"}

SidecarCapability == {"read", "search", "http", "process", "socket"}

SIDECAR_BLOCKED_EVENT_ALERT_THRESHOLD == 3
SIDECAR_RISK_ALERT_THRESHOLD == 5
SIDECAR_RESTRICTED_RISK_THRESHOLD == 5
SIDECAR_SEALED_RISK_THRESHOLD == 9

\* the order table of moreRestrictiveSessionPosture
Strictness ==
  [p \in SidecarSessionPosture |->
     IF p = "normal" THEN 0
     ELSE IF p = "guarded" THEN 1
     ELSE IF p = "restricted" THEN 2 ELSE 3]

AtLeastAsStrict(p, q) == Strictness[p] >= Strictness[q]

createCapabilityMap(value) == [c \in SidecarCapability |-> value]

\* mutant: counted drift is forgotten with the integrity status
AttestationDrifted_StatusOnly(s) == s.integrity = "drifted"

AttestationDrifted(s) == s.integrity = "drifted" \/ s.driftCount > 0

deriveCapabilityPosture(s, c) ==
  IF \/ AttestationDrifted(s)
     \/ s.capabilityRisk[c] >= SIDECAR_SEALED_RISK_THRESHOLD
  THEN "sealed"
  ELSE IF \/ s.capabilityBlocked[c] >= 2
          \/ s.capabilityRisk[c] >= SIDECAR_RESTRICTED_RISK_THRESHOLD
  THEN "restricted"
  ELSE IF s.capabilityRisk[c] >= 2 \/ s.capabilityBlocked[c] >= 1
  THEN "guarded"
  ELSE "normal"

\* a search is as exposed as a read
deriveCapabilityPostureMap(s) ==
  [c \in SidecarCapability |->
     deriveCapabilityPosture(s, IF c = "search" THEN "read" ELSE c)]

\* mostRestrictivePosture(Object.values(postures)) is at least p
HottestIsAtLeast(postures, p) ==
  \E c \in SidecarCapability : AtLeastAsStrict(postures[c], p)

derivePosture(s, postures) ==
  IF \/ AttestationDrifted(s)
     \/ s.riskScore >= SIDECAR_SEALED_RISK_THRESHOLD
     \/ HottestIsAtLeast(postures, "sealed")
  THEN "sealed"
  ELSE IF \/ s.blockedRuntimeEvents >= 2
          \/ s.riskScore >= SIDECAR_RESTRICTED_RISK_THRESHOLD
          \/ HottestIsAtLeast(postures, "restricted")
  THEN "restricted"
  ELSE IF \/ s.riskScore >= 2
          \/ s.runtimeEvents >= 3
          \/ HottestIsAtLeast(postures, "guarded")
  THEN "guarded"
  ELSE "normal"

\* allowRealFallback: what a session under this posture may have of the real
\* resource; safe says that an http method is GET, HEAD or OPTIONS
RealFallbackAllowed_UnlessSealed(posture, surface, safe) == posture # "sealed"

RealFallbackAllowed(posture, surface, safe) ==
  /\ posture # "sealed"
  /\ posture = "restricted" => surface = "http" /\ safe

ProcessContainmentMode == {"off", "adaptive", "strict"}

resolveCapabilityContainmentMode(baseMode, posture, capabilityQuarantine) ==
  IF ~ capabilityQuarantine \/ baseMode \in {"off", "strict"}
  THEN baseMode
  ELSE IF posture \in {"restricted", "sealed"} THEN "strict" ELSE baseMode
=============================================================================
