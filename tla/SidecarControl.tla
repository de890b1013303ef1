--------------------------- MODULE SidecarControl ---------------------------
(***************************************************************************)
(* The control sessions of the mantle sidecar (mantle-sidecar.ts).          *)
(*                                                                          *)
(* Every wrapped process exchanges the bootstrap key for a control session  *)
(* with a token of its own, and sends heartbeats, runtime events and        *)
(* read/search/http requests under that token.  The server is one           *)
(* event loop: a handler runs atomically up to an await.  A request is      *)
(* therefore authorised in one step (Authorize, which already charges it    *)
(* to the session), and takes effect in a later one, when its body has      *)
(* arrived; a surface request is answered in a third, after the engine has  *)
(* resolved it.  Between the steps other requests of the same session run,  *)
(* time passes, and the session may expire.                                 *)
(*                                                                          *)
(* Time is kept as two countdowns per session, since the code only asks     *)
(* whether a session has expired and whether its last heartbeat is older    *)
(* than the grace period: ttl is what is left of expiresAt, silence is the  *)
(* age of the last heartbeat.  expiresAt is lastSeenAt plus a constant      *)
(* everywhere in the code, so ttl orders sessions by lastSeenAt as well.    *)
(***************************************************************************)
EXTENDS RuntimeEvents, SidecarPosture, FiniteSets

CONSTANTS
  Session,              \* control sessions (their ids and tokens)
  Conn,                 \* connections, one request in flight on each
  MantleId,             \* sessionId values, chosen by the processes
  None,
  Field,                \* attested fields: pid, ppid, cwd, execPath, ...
  Value, Unset,         \* their values
  Events,               \* the runtime events processes report
  SessionTtl,           \* sessionTtlMs
  HeartbeatGrace,       \* heartbeatGraceMs
  AutoPosture,          \* autoPosture
  CapabilityQuarantine, \* capabilityQuarantine
  ContainmentMode,      \* the configured mode, before postures
  MaxRuntimeEvents,     \* bound: runtime events counted per session
  MaxDrift              \* bound: drifted fields counted per session

ASSUME ControlAssumption ==
  /\ None \notin Session /\ None \notin MantleId
  /\ Unset \notin Value
  /\ IsFiniteSet(Field)
  /\ Events \subseteq RuntimeEvent
  /\ SessionTtl \in Nat \ {0}
  /\ HeartbeatGrace \in Nat \ {0}
  /\ AutoPosture \in BOOLEAN
  /\ CapabilityQuarantine \in BOOLEAN
  /\ ContainmentMode \in ProcessContainmentMode
  /\ MaxRuntimeEvents \in Nat
  /\ MaxDrift \in Nat

Never == HeartbeatGrace + 2     \* silence before the first heartbeat

AlertCode ==
  {"parent-quarantine-inherited", "preload-integrity-drift",
   "heartbeat-stale", "blocked-runtime-burst", "session-pressure",
   "attestation-drift"}

Attestation == [Field -> Value \cup {Unset}]

SidecarControlSession ==
  [sessionId            : MantleId,
   ttl                  : 0 .. SessionTtl,
   silence              : 0 .. Never,
   runtimeEvents        : Nat,
   blockedRuntimeEvents : Nat,
   riskScore            : Nat,
   capabilityRisk       : [SidecarCapability -> Nat],
   capabilityBlocked    : [SidecarCapability -> Nat],
   posture              : SidecarSessionPosture,
   capabilityPosture    : [SidecarCapability -> SidecarSessionPosture],
   integrity            : IntegrityStatus,
   driftCount           : Nat,
   attestation          : Attestation,
   inheritedFrom        : Session \cup {None},
   alerts               : SUBSET AlertCode]

SessionRoute == {"heartbeat", "runtime-event", "read", "search", "http"}

\* GET, HEAD and OPTIONS are safe; reads and searches have no method
SurfaceRequest ==
  {[surface |-> f, safe |-> b] : f \in {"read", "search"}, b \in {FALSE}}
  \cup {[surface |-> "http", safe |-> b] : b \in BOOLEAN}

Idle == [phase |-> "idle"]

Pending == [phase : {"body"}, session : Session, route : SessionRoute]

Resolving ==
  [phase : {"resolving"}, session : Session, fallback : BOOLEAN]

VARIABLES
  ctl,         \* ctl[s]: the control session s, once it is created
  registered,  \* the sessions whose token is in sessionsByToken
  conn,        \* conn[c]: the request being handled on connection c
  occurrences  \* the compatibility baseline's table

vars == <<ctl, registered, conn, occurrences>>

created == DOMAIN ctl

TypeOK ==
  /\ created \subseteq Session
  /\ ctl \in [created -> SidecarControlSession]
  /\ registered \subseteq created
  /\ conn \in [Conn -> {Idle} \cup Pending \cup Resolving]
  /\ \A c \in Conn : conn[c] # Idle => conn[c].session \in created
  /\ occurrences \in Occurrences
-----------------------------------------------------------------------------
isSessionExpired(s) == s.ttl = 0

isHeartbeatStale(s) == HeartbeatGrace < s.silence /\ s.silence # Never

pushSessionAlert(s, code) == [s EXCEPT !.alerts = @ \cup {code}]

pushAlertIf(s, condition, code) ==
  IF condition THEN pushSessionAlert(s, code) ELSE s

\* With capability quarantine off every capability takes the posture the
\* session had before, and the session's new posture is derived from that.
refreshSessionPosture(s) ==
  LET postures == IF CapabilityQuarantine
                  THEN deriveCapabilityPostureMap(s)
                  ELSE createCapabilityMap(s.posture)
  IN  IF AutoPosture
      THEN [s EXCEPT !.capabilityPosture = postures,
                     !.posture = derivePosture(s, postures)]
      ELSE s

\* resolveSurfacePosture and resolveContainmentCapabilityPosture
effectivePosture(s, capability) ==
  IF \/ ~ CapabilityQuarantine
     \/ isHeartbeatStale(s)
     \/ s.integrity = "drifted"
  THEN s.posture
  ELSE s.capabilityPosture[capability]

allowRealFallback(s, request) ==
  RealFallbackAllowed(effectivePosture(s, request.surface), request.surface,
                      request.safe)

\* the modes of buildSessionContainmentEnvelope
containmentCapabilityMode(s, capability) ==
  resolveCapabilityContainmentMode(
    ContainmentMode, effectivePosture(s, capability), CapabilityQuarantine)
-----------------------------------------------------------------------------
\* The session after each kind of request, up to the refresh of its posture

\* createControlSession, before a parent or the integrity report is seen
newControlSession(mantle, attestation, integrity) ==
  [sessionId            |-> mantle,
   ttl                  |-> SessionTtl,
   silence              |-> Never,
   runtimeEvents        |-> 0,
   blockedRuntimeEvents |-> 0,
   riskScore            |-> 0,
   capabilityRisk       |-> createCapabilityMap(0),
   capabilityBlocked    |-> createCapabilityMap(0),
   posture              |-> "normal",
   capabilityPosture    |-> createCapabilityMap("normal"),
   integrity            |-> integrity,
   driftCount           |-> 0,
   attestation          |-> attestation,
   inheritedFrom        |-> None,
   alerts               |-> {}]

raisedTo(n, floor) == IF n >= floor THEN n ELSE floor

\* mutants: a part of the parent's state is not copied
inheritParentControlState_BlocksLost(child, p) ==
  pushSessionAlert(
    [child EXCEPT !.capabilityPosture = ctl[p].capabilityPosture,
                  !.capabilityRisk    = ctl[p].capabilityRisk,
                  !.riskScore         = raisedTo(@, ctl[p].riskScore),
                  !.inheritedFrom     = p],
    "parent-quarantine-inherited")

inheritParentControlState_Silent(child, p) ==
  [child EXCEPT !.capabilityPosture = ctl[p].capabilityPosture,
                !.capabilityRisk    = ctl[p].capabilityRisk,
                !.capabilityBlocked = ctl[p].capabilityBlocked,
                !.riskScore         = raisedTo(@, ctl[p].riskScore),
                !.inheritedFrom     = p]

inheritParentControlState(child, p) ==
  pushSessionAlert(
    [child EXCEPT !.capabilityPosture = ctl[p].capabilityPosture,
                  !.capabilityRisk    = ctl[p].capabilityRisk,
                  !.capabilityBlocked = ctl[p].capabilityBlocked,
                  !.riskScore         = raisedTo(@, ctl[p].riskScore),
                  !.inheritedFrom     = p],
    "parent-quarantine-inherited")

chargeBootstrapDrift(s) ==
  IF s.integrity = "drifted"
  THEN pushSessionAlert(
         [s EXCEPT !.riskScore = SIDECAR_SEALED_RISK_THRESHOLD],
         "preload-integrity-drift")
  ELSE s

\* mutant: the risk of a stale heartbeat replaces what was there
chargeStaleHeartbeat_Sets(s) ==
  IF isHeartbeatStale(s)
  THEN pushSessionAlert(
         [s EXCEPT !.riskScore = SIDECAR_RESTRICTED_RISK_THRESHOLD],
         "heartbeat-stale")
  ELSE s

chargeStaleHeartbeat(s) ==
  IF isHeartbeatStale(s)
  THEN pushSessionAlert(
         [s EXCEPT !.riskScore = raisedTo(@, SIDECAR_RESTRICTED_RISK_THRESHOLD)],
         "heartbeat-stale")
  ELSE s

recordControlRequest(s) ==
  refreshSessionPosture(chargeStaleHeartbeat([s EXCEPT !.ttl = SessionTtl]))

mapEventCapabilities(event) ==
  CASE event.category = "FILE_READ"       -> {"read"}
    [] event.category = "HTTP_OUTBOUND"   -> {"http"}
    [] event.category = "PROCESS_SPAWN"   -> {"process"}
    [] event.category = "SOCKET_EGRESS"   -> {"socket"}
    [] event.category = "PRELOAD_INTEGRITY" -> SidecarCapability
    [] OTHER                              -> {}

\* what one event adds to the risk: 2 if it was blocked, 1 more if it is of
\* a risky category and not known to be compatible
eventRisk(event, known) ==
  (IF event.blocked THEN 2 ELSE 0)
  + (IF /\ ~ known
        /\ event.category \in
             {"PROCESS_SPAWN", "SOCKET_EGRESS", "PRELOAD_INTEGRITY"}
     THEN 1 ELSE 0)

blockedCount(event) == IF event.blocked THEN 1 ELSE 0

\* incrementCapabilityRisk
chargedTo(counts, capabilities, amount) ==
  [c \in SidecarCapability |->
     IF c \in capabilities THEN counts[c] + amount ELSE counts[c]]

\* setCapabilityRiskFloor
allRaisedTo(counts, floor) ==
  [c \in SidecarCapability |-> raisedTo(counts[c], floor)]

chargeEvent(s, event, known) ==
  [s EXCEPT
     !.runtimeEvents = @ + 1,
     !.blockedRuntimeEvents = @ + blockedCount(event),
     !.riskScore = @ + eventRisk(event, known),
     !.capabilityRisk = chargedTo(@, mapEventCapabilities(event),
                                  eventRisk(event, known)),
     !.capabilityBlocked = chargedTo(@, mapEventCapabilities(event),
                                     blockedCount(event))]

\* mutant: reported drift seals the capabilities but not the session
recordIntegrity_CapabilitiesOnly(s, event) ==
  IF event.category # "PRELOAD_INTEGRITY" THEN s
  ELSE IF event.status # "drifted" THEN [s EXCEPT !.integrity = event.status]
  ELSE pushSessionAlert(
         [s EXCEPT
            !.integrity = "drifted",
            !.capabilityRisk =
               allRaisedTo(@, SIDECAR_SEALED_RISK_THRESHOLD)],
         "preload-integrity-drift")

\* a PRELOAD_INTEGRITY event replaces the session's integrity status
recordIntegrity(s, event) ==
  IF event.category # "PRELOAD_INTEGRITY" THEN s
  ELSE IF event.status # "drifted" THEN [s EXCEPT !.integrity = event.status]
  ELSE pushSessionAlert(
         [s EXCEPT
            !.integrity = "drifted",
            !.riskScore = raisedTo(@, SIDECAR_SEALED_RISK_THRESHOLD),
            !.capabilityRisk =
               allRaisedTo(@, SIDECAR_SEALED_RISK_THRESHOLD)],
         "preload-integrity-drift")

pushPressureAlerts(s) ==
  pushAlertIf(
    pushAlertIf(
      s,
      s.blockedRuntimeEvents >= SIDECAR_BLOCKED_EVENT_ALERT_THRESHOLD,
      "blocked-runtime-burst"),
    s.riskScore >= SIDECAR_RISK_ALERT_THRESHOLD,
    "session-pressure")

chargeRuntimeEvent(s, event, known) ==
  pushPressureAlerts(recordIntegrity(chargeEvent(s, event, known), event))

\* the fields a heartbeat reports differently from what was attested before
detectAttestationDrift(attestation, payload) ==
  {f \in Field : /\ attestation[f] # Unset
                 /\ payload[f] # Unset
                 /\ attestation[f] # payload[f]}

\* with drift the risk jumps to the sealed level; without it an unknown
\* integrity takes the reported one, or becomes healthy
chargeHeartbeat(s, payload, integrity) ==
  LET drift == detectAttestationDrift(s.attestation, payload)
      attested == [s EXCEPT
                     !.ttl = SessionTtl,
                     !.silence = 0,
                     !.attestation =
                        [f \in Field |-> IF @[f] = Unset THEN payload[f]
                                                         ELSE @[f]]]
  IN  IF drift # {}
      THEN pushSessionAlert(
             [attested EXCEPT
                !.driftCount = @ + Cardinality(drift),
                !.integrity = "drifted",
                !.riskScore = raisedTo(@ + 4, SIDECAR_SEALED_RISK_THRESHOLD)],
             "attestation-drift")
      ELSE IF s.integrity = "unknown"
      THEN [attested EXCEPT !.integrity =
              IF integrity = "unknown" THEN "healthy" ELSE integrity]
      ELSE attested
-----------------------------------------------------------------------------
\* findParentControlSession: by control id when one is given, otherwise the
\* most recently seen session of that sessionId; ties are broken by the
\* order of insertion, which the model leaves open
Active == {s \in registered : ~ isSessionExpired(ctl[s])}

ParentCandidates(parentControlSessionId, parentSessionId) ==
  IF parentControlSessionId # None
  THEN Active \cap {parentControlSessionId}
  ELSE LET same == {s \in Active : ctl[s].sessionId = parentSessionId}
       IN  {s \in same : \A other \in same : ctl[other].ttl <= ctl[s].ttl}

\* the parent of a new session, for the ids its process may name; None where
\* no active session is found
Parents ==
  UNION {LET candidates == ParentCandidates(control, mantle) IN
         IF candidates = {} THEN {None} ELSE candidates :
           control \in created \cup {None}, mantle \in MantleId \cup {None}}

createControlSession(mantle, attestation, integrity, parent) ==
  LET fresh == newControlSession(mantle, attestation, integrity)
      child == IF parent = None THEN fresh
               ELSE inheritParentControlState(fresh, parent)
  IN  refreshSessionPosture(chargeBootstrapDrift(child))

withSession(s, new) ==
  [x \in created \cup {s} |-> IF x = s THEN new ELSE ctl[x]]

Init ==
  /\ ctl = [s \in {} |-> None]
  /\ registered = {}
  /\ conn = [c \in Conn |-> Idle]
  /\ occurrences = createEmptyState

\* POST /v1/bootstrap/session
Bootstrap(s, mantle, attestation, integrity) ==
  /\ s \notin created
  /\ \E parent \in Parents :
       ctl' = withSession(s, createControlSession(mantle, attestation,
                                                  integrity, parent))
  /\ registered' = registered \cup {s}
  /\ UNCHANGED <<conn, occurrences>>

\* authorizeRequest and recordControlRequest, up to the first await
Authorize(c, s, route) ==
  /\ conn[c] = Idle
  /\ s \in registered
  /\ ~ isSessionExpired(ctl[s])
  /\ ctl' = [ctl EXCEPT ![s] = recordControlRequest(@)]
  /\ conn' = [conn EXCEPT
               ![c] = [phase |-> "body", session |-> s, route |-> route]]
  /\ UNCHANGED <<registered, occurrences>>

\* a token is forgotten only when it is presented after its expiry
RejectExpired(s) ==
  /\ s \in registered
  /\ isSessionExpired(ctl[s])
  /\ registered' = registered \ {s}
  /\ UNCHANGED <<ctl, conn, occurrences>>

\* the body of a request on route has arrived
BodyArrives(c, route) == conn[c] \in Pending /\ conn[c].route = route

Close(c) == conn' = [conn EXCEPT ![c] = Idle]

\* POST /v1/session/heartbeat
Heartbeat(c, payload, integrity) ==
  /\ BodyArrives(c, "heartbeat")
  /\ LET s == conn[c].session
         drift == detectAttestationDrift(ctl[s].attestation, payload)
     IN  /\ ctl[s].driftCount + Cardinality(drift) <= MaxDrift
         /\ ctl' = [ctl EXCEPT ![s] = refreshSessionPosture(
                                         chargeHeartbeat(@, payload, integrity))]
  /\ Close(c)
  /\ UNCHANGED <<registered, occurrences>>

\* POST /v1/runtime-event, after the engine has observed the event.  The
\* baseline sees the posture from before the refresh.
RecordRuntimeEvent(c, event) ==
  /\ BodyArrives(c, "runtime-event")
  /\ LET s == conn[c].session
         known == /\ ~ event.blocked
                  /\ matchesLearnedAllowlist(occurrences, event)
         charged == chargeRuntimeEvent(ctl[s], event, known)
     IN  /\ ctl[s].runtimeEvents < MaxRuntimeEvents
         /\ occurrences' = Observed(occurrences, event, charged.posture,
                                    charged.integrity)
         /\ ctl' = [ctl EXCEPT ![s] = refreshSessionPosture(charged)]
  /\ Close(c)
  /\ UNCHANGED registered

\* POST /v1/read, /v1/search and /v1/http: whether the engine may answer
\* with the real resource is decided before the engine is asked
DecideSurface(c, request) ==
  /\ BodyArrives(c, request.surface)
  /\ conn' = [conn EXCEPT
               ![c] = [phase |-> "resolving", session |-> conn[c].session,
                       fallback |-> allowRealFallback(ctl[conn[c].session],
                                                      request)]]
  /\ UNCHANGED <<ctl, registered, occurrences>>

\* the engine has resolved the surface, or failed
Respond(c) ==
  /\ conn[c] \in Resolving
  /\ Close(c)
  /\ UNCHANGED <<ctl, registered, occurrences>>

\* the body never arrives, or does not parse: 500
AbortBody(c) ==
  /\ conn[c] \in Pending
  /\ Close(c)
  /\ UNCHANGED <<ctl, registered, occurrences>>

elapse(s) ==
  [s EXCEPT !.ttl = IF @ = 0 THEN 0 ELSE @ - 1,
            !.silence = IF @ > HeartbeatGrace THEN @ ELSE @ + 1]

Tick ==
  /\ created # {}
  /\ ctl' = [s \in created |-> elapse(ctl[s])]
  /\ UNCHANGED <<registered, conn, occurrences>>

ServeRequest(c) ==
  \/ \E s \in Session, route \in SessionRoute : Authorize(c, s, route)
  \/ \E payload \in Attestation, integrity \in IntegrityStatus :
       Heartbeat(c, payload, integrity)
  \/ \E event \in Events : RecordRuntimeEvent(c, event)
  \/ \E request \in SurfaceRequest : DecideSurface(c, request)
  \/ Respond(c)
  \/ AbortBody(c)

Next ==
  \/ \E s \in Session, mantle \in MantleId, attestation \in Attestation,
       integrity \in IntegrityStatus :
       Bootstrap(s, mantle, attestation, integrity)
  \/ \E s \in Session : RejectExpired(s)
  \/ \E c \in Conn : ServeRequest(c)
  \/ Tick

Spec == Init /\ [][Next]_vars
-----------------------------------------------------------------------------
(***************************************************************************)
(* What the control plane is relied on for.                                 *)
(***************************************************************************)

\* Whatever changed the evidence against a session also brought its posture
\* up to date: no handler returns with a posture, or a capability posture,
\* that its counters no longer justify (refreshSessionPosture is called at
\* the end of every handler that touches them).
PostureIsCurrent ==
  AutoPosture =>
    \A s \in created :
      /\ ctl[s].posture = derivePosture(ctl[s], ctl[s].capabilityPosture)
      /\ CapabilityQuarantine =>
           ctl[s].capabilityPosture = deriveCapabilityPostureMap(ctl[s])

\* Once a heartbeat has drifted from the attested process, every surface and
\* every capability of the session is sealed for good: a later healthy
\* integrity event, a fresh heartbeat or a renewed expiry lifts none of them.
DriftSealsEverySurface ==
  AutoPosture =>
    \A s \in created, capability \in SidecarCapability :
      ctl[s].driftCount > 0 => effectivePosture(ctl[s], capability) = "sealed"

\* What is blamed on a capability is blamed on its session too (up to the
\* sealed level, to which a drifted bootstrap resets the score), drift always
\* costs a sealed risk score, and a score at the alert threshold has raised
\* an alert, by whatever path the risk was added.  The postures of
\* SealedByEvidence follow from these counters.
BlameReachesSession(s) ==
  /\ \A c \in SidecarCapability :
       \/ s.capabilityRisk[c] <= s.riskScore
       \/ s.riskScore >= SIDECAR_SEALED_RISK_THRESHOLD
  /\ s.driftCount > 0 => s.riskScore >= SIDECAR_SEALED_RISK_THRESHOLD

RiskIsAlerted(s) ==
  s.riskScore >= SIDECAR_RISK_ALERT_THRESHOLD => s.alerts # {}

BlameIsAccounted(s) == BlameReachesSession(s) /\ RiskIsAlerted(s)

EveryBlameIsAccounted == \A s \in created : BlameIsAccounted(ctl[s])

\* With capability quarantine a session is sealed for exactly two reasons,
\* its risk score or a drifted integrity: blame on a single capability never
\* outruns the blame on the session.
SealedByEvidence ==
  AutoPosture /\ CapabilityQuarantine =>
    \A s \in created :
      ctl[s].posture = "sealed" <=>
        \/ ctl[s].riskScore >= SIDECAR_SEALED_RISK_THRESHOLD
        \/ ctl[s].integrity = "drifted"

\* the session attests itself anew: a heartbeat or an integrity report of its
\* own that leaves neither drift nor a drifted status
Reattests(s) ==
  /\ ~ AttestationDrifted(ctl'[s])
  /\ \E c \in Conn :
       /\ \/ \E payload \in Attestation, integrity \in IntegrityStatus :
               Heartbeat(c, payload, integrity)
          \/ \E event \in Events :
               /\ event.category = "PRELOAD_INTEGRITY"
               /\ RecordRuntimeEvent(c, event)
       /\ conn[c].session = s

\* A posture, once elevated, holds "until the process re-attests" (the alert of
\* a stale heartbeat): no other request, no learned activity, no lapse of time
\* and nothing another session does relaxes it.
PostureHoldsUntilReattested ==
  [][\A s \in created : \/ AtLeastAsStrict(ctl'[s].posture, ctl[s].posture)
                        \/ Reattests(s)]_vars

\* The code goes further than these words: no heartbeat relaxes a posture
\* either, only a report that replaces a drifted integrity status, and only
\* with capability quarantine.  ElevatedUntilReattest is what that costs.
PostureRelaxesOnlyByIntegrityReport ==
  [][\A s \in created :
       \/ AtLeastAsStrict(ctl'[s].posture, ctl[s].posture)
       \/ /\ CapabilityQuarantine
          /\ ctl[s].integrity = "drifted"
          /\ ctl'[s].integrity # "drifted"]_vars

\* "Session heartbeat is stale; posture elevated until the process re-attests."
\* A session that has just attested itself, without drift, and against which
\* nothing but a stale heartbeat was ever held (no event, no parent) has its
\* normal posture.  The code never takes the risk of a stale heartbeat back.
ElevatedUntilReattest ==
  AutoPosture =>
    \A s \in created :
      /\ ctl[s].silence = 0
      /\ ~ AttestationDrifted(ctl[s])
      /\ ctl[s].runtimeEvents = 0
      /\ ctl[s].inheritedFrom = None
      => ctl[s].posture = "normal"

Granted(c) == conn[c] \in Resolving /\ conn[c].fallback

\* The step that lets the engine answer with the real resource is never
\* taken for a session with drifted attestation, nor (but for safe HTTP
\* methods) for a capability whose own evidence restricts it.
NoRealBeyondQuarantine ==
  [][\A c \in Conn, request \in SurfaceRequest :
       LET s == ctl[conn[c].session] IN
       AutoPosture /\ DecideSurface(c, request) /\ Granted(c)' =>
         /\ ~ AttestationDrifted(s)
         /\ \/ request.safe
            \/ ~ CapabilityQuarantine
            \/ ~ AtLeastAsStrict(
                    deriveCapabilityPostureMap(s)[request.surface],
                    "restricted")]_vars

\* What the baseline learns, and with it the allowlist handed to every other
\* session, never comes from a session whose evidence already restricts it.
LearnsOnlyFromUnrestricted ==
  [][AutoPosture /\ occurrences' # occurrences =>
       \E c \in Conn :
         /\ BodyArrives(c, "runtime-event")
         /\ LET s == ctl[conn[c].session] IN
            /\ ~ AttestationDrifted(s)
            /\ s.riskScore < SIDECAR_RESTRICTED_RISK_THRESHOLD
            /\ s.blockedRuntimeEvents < 2]_vars

\* A token that has been forgotten stays forgotten, even if a request that
\* was authorised with it is still being handled and renews its session.
ForgottenStaysForgotten ==
  [][\A s \in created : s \in registered' => s \in registered]_vars

\* A child session starts with at least its parent's risk up to the sealed
\* level (a child that is itself drifted is set to that level, even below a
\* riskier parent), and with at least its parent's capability postures unless
\* those come from drifted attestation (see ChildInheritsQuarantine).
ChildInheritsEvidence ==
  [][AutoPosture =>
     \A s \in created' \ created :
       LET p == ctl'[s].inheritedFrom IN
       p # None =>
         /\ \/ ctl'[s].riskScore >= ctl[p].riskScore
            \/ ctl'[s].riskScore >= SIDECAR_SEALED_RISK_THRESHOLD
         /\ CapabilityQuarantine /\ ~ AttestationDrifted(ctl[p]) =>
              \A capability \in SidecarCapability :
                AtLeastAsStrict(ctl'[s].capabilityPosture[capability],
                                ctl[p].capabilityPosture[capability])]_vars

\* "Child control session inherited quarantine posture from its parent
\* runtime": no capability of a new child is less confined than its
\* parent's.  The code does not keep this for a parent sealed by drift.
ChildInheritsQuarantine ==
  [][\A s \in created' \ created :
       LET p == ctl'[s].inheritedFrom IN
       p # None =>
         \A capability \in SidecarCapability :
           AtLeastAsStrict(effectivePosture(ctl'[s], capability),
                           effectivePosture(ctl[p], capability))]_vars
-----------------------------------------------------------------------------
\* The sessions and grants of the contract, read off the control plane's state
Contract ==
  INSTANCE QuarantineContract WITH
    standing <- [s \in Session |->
                   IF s \notin created THEN "absent"
                   ELSE IF ctl[s].driftCount > 0 THEN "condemned"
                   ELSE "admitted"],
    holder <- [c \in Conn |-> IF Granted(c) THEN conn[c].session ELSE None]

\* With automatic postures, the control plane implements the contract: drift
\* found by one heartbeat is final for every later request of the session, on
\* any surface and whatever else is reported or expires in between.
ImplementsContract == Contract!Spec
=============================================================================
