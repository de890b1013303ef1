------------------------ MODULE SidecarControlProofs ------------------------
(***************************************************************************)
(* Machine-checked proofs about SidecarControl, for every value of its      *)
(* constants.  Each handler is a composition of small operators on the      *)
(* session's record, so the lemmas below say of each operator that it keeps *)
(* the record well typed and its blame accounted for; the theorems then     *)
(* need one short step per action.                                          *)
(***************************************************************************)
EXTENDS SidecarControl, FiniteSetTheorems, TLAPS

\* A record as every handler leaves it.
Current(s) ==
  AutoPosture =>
    /\ s.posture = derivePosture(s, s.capabilityPosture)
    /\ CapabilityQuarantine =>
         s.capabilityPosture = deriveCapabilityPostureMap(s)

Sound(s) ==
  /\ s \in SidecarControlSession
  /\ BlameIsAccounted(s)
  /\ Current(s)

\* A record between two operators of a handler.
Accounted(s) == s \in SidecarControlSession /\ BlameIsAccounted(s)

USE DEF SIDECAR_RISK_ALERT_THRESHOLD, SIDECAR_RESTRICTED_RISK_THRESHOLD,
        SIDECAR_SEALED_RISK_THRESHOLD
-----------------------------------------------------------------------------
LEMMA DeriveCapabilityPostureMapType ==
  ASSUME NEW s \in SidecarControlSession
  PROVE  deriveCapabilityPostureMap(s)
           \in [SidecarCapability -> SidecarSessionPosture]
BY DEF deriveCapabilityPostureMap, deriveCapabilityPosture,
       SidecarSessionPosture

LEMMA DerivePostureType ==
  ASSUME NEW s, NEW postures
  PROVE  derivePosture(s, postures) \in SidecarSessionPosture
BY DEF derivePosture, SidecarSessionPosture

\* the derivations read only the evidence, not the postures they set
LEMMA RefreshIsSound ==
  ASSUME NEW s, Accounted(s)
  PROVE  Sound(refreshSessionPosture(s))
<1> DEFINE postures == IF CapabilityQuarantine
                       THEN deriveCapabilityPostureMap(s)
                       ELSE createCapabilityMap(s.posture)
           r == refreshSessionPosture(s)
<1>0. s \in SidecarControlSession
  BY DEF Accounted
<1>1. CASE ~ AutoPosture
  BY <1>1 DEF refreshSessionPosture, Sound, Accounted, Current
<1>2. CASE AutoPosture
  <2>1. r = [s EXCEPT !.capabilityPosture = postures,
                      !.posture = derivePosture(s, postures)]
    BY <1>2 DEF refreshSessionPosture
  <2>2. postures \in [SidecarCapability -> SidecarSessionPosture]
    BY <1>0, DeriveCapabilityPostureMapType
    DEF createCapabilityMap, SidecarControlSession
  <2>3. derivePosture(s, postures) \in SidecarSessionPosture
    BY DerivePostureType
  <2>4. r \in SidecarControlSession
    BY <1>0, <2>1, <2>2, <2>3 DEF SidecarControlSession
  <2>5. /\ r.riskScore = s.riskScore
        /\ r.capabilityRisk = s.capabilityRisk
        /\ r.capabilityBlocked = s.capabilityBlocked
        /\ r.blockedRuntimeEvents = s.blockedRuntimeEvents
        /\ r.runtimeEvents = s.runtimeEvents
        /\ r.driftCount = s.driftCount
        /\ r.integrity = s.integrity
        /\ r.alerts = s.alerts
        /\ r.capabilityPosture = postures
        /\ r.posture = derivePosture(s, postures)
    BY <1>0, <2>1 DEF SidecarControlSession
  <2>6. derivePosture(r, postures) = derivePosture(s, postures)
    BY <2>5 DEF derivePosture, AttestationDrifted
  <2>7. deriveCapabilityPostureMap(r) = deriveCapabilityPostureMap(s)
    BY <2>5 DEF deriveCapabilityPostureMap, deriveCapabilityPosture,
                AttestationDrifted
  <2>8. Current(r)
    BY <2>5, <2>6, <2>7 DEF Current
  <2>9. BlameIsAccounted(r)
    BY <2>5 DEF Accounted, BlameIsAccounted, BlameReachesSession,
       RiskIsAlerted
  <2>10. QED
    BY <2>4, <2>8, <2>9 DEF Sound
<1>3. QED
  BY <1>1, <1>2
-----------------------------------------------------------------------------
(***************************************************************************)
(* Every operator a handler applies before the refresh keeps the record     *)
(* well typed and its blame accounted for.                                  *)
(***************************************************************************)
LEMMA ConstantTypes ==
  /\ SessionTtl \in Nat \ {0} /\ HeartbeatGrace \in Nat \ {0}
  /\ Never \in Nat /\ HeartbeatGrace + 1 \in 0 .. Never
  /\ None \notin Session
  /\ IsFiniteSet(Field)
  /\ Events \subseteq RuntimeEvent
BY ControlAssumption DEF ControlAssumption, Never

LEMMA NewSessionIsAccounted ==
  ASSUME NEW mantle \in MantleId, NEW attestation \in Attestation,
         NEW integrity \in IntegrityStatus
  PROVE  Accounted(newControlSession(mantle, attestation, integrity))
<1> DEFINE s == newControlSession(mantle, attestation, integrity)
<1>1. s \in SidecarControlSession
  BY ConstantTypes
  DEF newControlSession, createCapabilityMap, SidecarControlSession,
      SidecarSessionPosture
<1>2. BlameIsAccounted(s)
  BY DEF newControlSession, createCapabilityMap, BlameIsAccounted,
         BlameReachesSession, RiskIsAlerted
<1>3. QED
  BY <1>1, <1>2 DEF Accounted

LEMMA InheritedIsAccounted ==
  ASSUME NEW s, Accounted(s), s.riskScore = 0, s.driftCount = 0,
         NEW p \in Session, Accounted(ctl[p])
  PROVE  Accounted(inheritParentControlState(s, p))
<1> DEFINE r == inheritParentControlState(s, p)
<1>0. s \in SidecarControlSession /\ ctl[p] \in SidecarControlSession
  BY DEF Accounted
<1>1. /\ ctl[p].riskScore \in Nat
      /\ raisedTo(s.riskScore, ctl[p].riskScore) = ctl[p].riskScore
  BY <1>0 DEF raisedTo, SidecarControlSession
<1>2. r \in SidecarControlSession
  BY <1>0, <1>1
  DEF inheritParentControlState, pushSessionAlert, SidecarControlSession,
      AlertCode
<1>3. /\ r.riskScore = ctl[p].riskScore
      /\ r.capabilityRisk = ctl[p].capabilityRisk
      /\ r.driftCount = 0
      /\ r.alerts # {}
  BY <1>0, <1>1
  DEF inheritParentControlState, pushSessionAlert, SidecarControlSession
<1>4. BlameIsAccounted(r)
  BY <1>3 DEF Accounted, BlameIsAccounted, BlameReachesSession,
       RiskIsAlerted
<1>5. QED
  BY <1>2, <1>4 DEF Accounted

LEMMA BootstrapDriftIsAccounted ==
  ASSUME NEW s, Accounted(s)
  PROVE  Accounted(chargeBootstrapDrift(s))
<1>0. s \in SidecarControlSession
  BY DEF Accounted
<1>1. chargeBootstrapDrift(s) \in SidecarControlSession
  BY <1>0
  DEF chargeBootstrapDrift, pushSessionAlert, SidecarControlSession, AlertCode
<1>2. BlameIsAccounted(chargeBootstrapDrift(s))
  BY <1>0
  DEF chargeBootstrapDrift, pushSessionAlert, SidecarControlSession,
      Accounted, BlameIsAccounted, BlameReachesSession, RiskIsAlerted
<1>3. QED
  BY <1>1, <1>2 DEF Accounted

LEMMA StaleHeartbeatIsAccounted ==
  ASSUME NEW s, Accounted(s)
  PROVE  Accounted(chargeStaleHeartbeat([s EXCEPT !.ttl = SessionTtl]))
<1> DEFINE q == [s EXCEPT !.ttl = SessionTtl]
           r == chargeStaleHeartbeat(q)
<1>0. s \in SidecarControlSession
  BY DEF Accounted
<1>1. Accounted(q)
  BY <1>0, ConstantTypes
  DEF Accounted, BlameIsAccounted, BlameReachesSession, RiskIsAlerted,
      SidecarControlSession
<1> HIDE DEF q
<1>2. r \in SidecarControlSession
  BY <1>1
  DEF Accounted, chargeStaleHeartbeat, pushSessionAlert, raisedTo,
      SidecarControlSession, AlertCode
<1>3. BlameIsAccounted(r)
  BY <1>1
  DEF Accounted, chargeStaleHeartbeat, pushSessionAlert, raisedTo,
      SidecarControlSession, BlameIsAccounted, BlameReachesSession,
      RiskIsAlerted
<1>4. QED
  BY <1>2, <1>3 DEF Accounted, q

LEMMA EventRiskType ==
  ASSUME NEW event, NEW known
  PROVE  /\ eventRisk(event, known) \in Nat
         /\ blockedCount(event) \in Nat
BY DEF eventRisk, blockedCount

LEMMA ChargedToType ==
  ASSUME NEW counts \in [SidecarCapability -> Nat], NEW capabilities,
         NEW amount \in Nat
  PROVE  chargedTo(counts, capabilities, amount) \in [SidecarCapability -> Nat]
BY DEF chargedTo

LEMMA ChargedEventReachesSession ==
  ASSUME NEW s, Accounted(s), NEW event, NEW known
  PROVE  /\ chargeEvent(s, event, known) \in SidecarControlSession
         /\ BlameReachesSession(chargeEvent(s, event, known))
<1> DEFINE risk == eventRisk(event, known)
           blocks == blockedCount(event)
           capabilities == mapEventCapabilities(event)
           newRisk == chargedTo(s.capabilityRisk, capabilities, risk)
           newBlocked == chargedTo(s.capabilityBlocked, capabilities, blocks)
           events == s.runtimeEvents + 1
           blocked == s.blockedRuntimeEvents + blocks
           score == s.riskScore + risk
           r == [s EXCEPT !.runtimeEvents = events,
                          !.blockedRuntimeEvents = blocked,
                          !.riskScore = score,
                          !.capabilityRisk = newRisk,
                          !.capabilityBlocked = newBlocked]
<1>1. risk \in Nat /\ blocks \in Nat
  BY EventRiskType
<1>2. s \in SidecarControlSession /\ BlameReachesSession(s)
  BY DEF Accounted, BlameIsAccounted
<1>3. /\ newRisk \in [SidecarCapability -> Nat]
      /\ newBlocked \in [SidecarCapability -> Nat]
  BY <1>1, <1>2, ChargedToType DEF SidecarControlSession
<1>4. chargeEvent(s, event, known) = r
  BY <1>2 DEF chargeEvent, SidecarControlSession
<1>5. \A c \in SidecarCapability : newRisk[c] <= s.capabilityRisk[c] + risk
  BY <1>1, <1>2 DEF chargedTo, SidecarControlSession
<1> HIDE DEF risk, blocks, capabilities, newRisk, newBlocked
<1>6. events \in Nat /\ blocked \in Nat /\ score \in Nat
  BY <1>1, <1>2 DEF SidecarControlSession
<1>7. r \in SidecarControlSession
  <2> HIDE DEF events, blocked, score
  <2>1. QED
    BY <1>2, <1>3, <1>6 DEF SidecarControlSession
<1>8. BlameReachesSession(r)
  <2>1. /\ r.riskScore = s.riskScore + risk
        /\ r.capabilityRisk = newRisk
        /\ r.driftCount = s.driftCount
    BY <1>2 DEF SidecarControlSession
  <2>2. /\ s.riskScore \in Nat
        /\ s.capabilityRisk \in [SidecarCapability -> Nat]
    BY <1>2 DEF SidecarControlSession
  <2>3. QED
    BY <1>1, <1>2, <1>3, <1>5, <2>1, <2>2 DEF BlameReachesSession
<1>9. QED
  BY <1>4, <1>7, <1>8

LEMMA RecordedIntegrityReachesSession ==
  ASSUME NEW s \in SidecarControlSession, BlameReachesSession(s),
         NEW event \in RuntimeEvent
  PROVE  /\ recordIntegrity(s, event) \in SidecarControlSession
         /\ BlameReachesSession(recordIntegrity(s, event))
<1>0. event.status \in IntegrityStatus
  BY DEF RuntimeEvent
<1>1. /\ raisedTo(s.riskScore, SIDECAR_SEALED_RISK_THRESHOLD) \in Nat
      /\ raisedTo(s.riskScore, SIDECAR_SEALED_RISK_THRESHOLD)
           >= SIDECAR_SEALED_RISK_THRESHOLD
      /\ allRaisedTo(s.capabilityRisk, SIDECAR_SEALED_RISK_THRESHOLD)
           \in [SidecarCapability -> Nat]
  BY DEF raisedTo, allRaisedTo, SidecarControlSession
<1>2. CASE /\ event.category = "PRELOAD_INTEGRITY"
           /\ event.status = "drifted"
  BY <1>0, <1>1, <1>2
  DEF recordIntegrity, pushSessionAlert, SidecarControlSession, AlertCode,
      IntegrityStatus, BlameReachesSession
<1>3. CASE ~ (/\ event.category = "PRELOAD_INTEGRITY"
              /\ event.status = "drifted")
  BY <1>0, <1>3
  DEF recordIntegrity, SidecarControlSession, BlameReachesSession
<1>4. QED
  BY <1>2, <1>3

LEMMA ChargedRuntimeEventIsAccounted ==
  ASSUME NEW s, Accounted(s), NEW event \in RuntimeEvent, NEW known
  PROVE  Accounted(chargeRuntimeEvent(s, event, known))
<1> DEFINE q == recordIntegrity(chargeEvent(s, event, known), event)
<1>1. q \in SidecarControlSession /\ BlameReachesSession(q)
  BY ChargedEventReachesSession, RecordedIntegrityReachesSession
<1> HIDE DEF q
<1>2. Accounted(pushPressureAlerts(q))
  BY <1>1
  DEF pushPressureAlerts, pushAlertIf, pushSessionAlert, Accounted,
      BlameIsAccounted, BlameReachesSession, RiskIsAlerted,
      SidecarControlSession, AlertCode
<1>3. QED
  BY <1>2 DEF chargeRuntimeEvent, q

LEMMA ChargedHeartbeatIsAccounted ==
  ASSUME NEW s, Accounted(s), NEW payload \in Attestation,
         NEW integrity \in IntegrityStatus
  PROVE  Accounted(chargeHeartbeat(s, payload, integrity))
<1> DEFINE drift == detectAttestationDrift(s.attestation, payload)
           filled == [f \in Field |-> IF s.attestation[f] = Unset
                                      THEN payload[f]
                                      ELSE s.attestation[f]]
           attested == [s EXCEPT !.ttl = SessionTtl, !.silence = 0,
                                 !.attestation = filled]
<1>0. s \in SidecarControlSession
  BY DEF Accounted
<1>1. Cardinality(drift) \in Nat
  <2>1. drift \subseteq Field
    BY DEF detectAttestationDrift
  <2>2. QED
    BY <2>1, ConstantTypes, FS_Subset, FS_CardinalityType
<1>2. filled \in Attestation
  BY <1>0 DEF Attestation, SidecarControlSession
<1>3. chargeHeartbeat(s, payload, integrity) =
        IF drift # {}
        THEN pushSessionAlert(
               [attested EXCEPT
                  !.driftCount = @ + Cardinality(drift),
                  !.integrity = "drifted",
                  !.riskScore =
                     raisedTo(@ + 4, SIDECAR_SEALED_RISK_THRESHOLD)],
               "attestation-drift")
        ELSE IF s.integrity = "unknown"
        THEN [attested EXCEPT !.integrity =
                IF integrity = "unknown" THEN "healthy" ELSE integrity]
        ELSE attested
  BY <1>0 DEF chargeHeartbeat, SidecarControlSession
<1> HIDE DEF filled
<1>4. Accounted(attested)
  <2>0. SessionTtl \in 0 .. SessionTtl /\ 0 \in 0 .. Never
    BY ConstantTypes
  <2>1. attested \in SidecarControlSession
    BY <1>0, <1>2, <2>0 DEF SidecarControlSession
  <2>2. /\ attested.riskScore = s.riskScore
        /\ attested.capabilityRisk = s.capabilityRisk
        /\ attested.driftCount = s.driftCount
        /\ attested.alerts = s.alerts
    BY <1>0 DEF SidecarControlSession
  <2>3. QED
    BY <2>1, <2>2
    DEF Accounted, BlameIsAccounted, BlameReachesSession, RiskIsAlerted
<1> HIDE DEF attested, drift
<1>5. raisedTo(attested.riskScore + 4, SIDECAR_SEALED_RISK_THRESHOLD)
        \in Nat \ 0 .. 8
  BY <1>4 DEF raisedTo, Accounted, SidecarControlSession
<1>6. CASE drift # {}
  <2> DEFINE count == attested.driftCount + Cardinality(drift)
             score == raisedTo(attested.riskScore + 4,
                               SIDECAR_SEALED_RISK_THRESHOLD)
             alerts == attested.alerts \cup {"attestation-drift"}
             r == [attested EXCEPT !.driftCount = count,
                                   !.integrity = "drifted",
                                   !.riskScore = score,
                                   !.alerts = alerts]
  <2>1. attested \in SidecarControlSession
    BY <1>4 DEF Accounted
  <2>2. /\ count \in Nat
        /\ score \in Nat /\ score >= SIDECAR_SEALED_RISK_THRESHOLD
        /\ alerts \in SUBSET AlertCode /\ alerts # {}
    BY <1>1, <1>5, <2>1 DEF SidecarControlSession, AlertCode
  <2>3. chargeHeartbeat(s, payload, integrity) = r
    BY <1>3, <1>6, <2>1 DEF pushSessionAlert, SidecarControlSession
  <2> HIDE DEF count, score, alerts
  <2>4. r \in SidecarControlSession
    BY <2>1, <2>2 DEF SidecarControlSession, IntegrityStatus
  <2>5. /\ r.riskScore = score
        /\ r.alerts = alerts
    BY <2>1 DEF SidecarControlSession
  <2>6. BlameIsAccounted(r)
    BY <2>2, <2>5 DEF BlameIsAccounted, BlameReachesSession, RiskIsAlerted
  <2>7. QED
    BY <2>3, <2>4, <2>6 DEF Accounted
<1>7. CASE drift = {}
  BY <1>3, <1>4, <1>7
  DEF Accounted, BlameIsAccounted, BlameReachesSession, RiskIsAlerted,
      SidecarControlSession, IntegrityStatus
<1>8. QED
  BY <1>6, <1>7

\* time changes neither the evidence nor the postures
LEMMA ElapseIsSound ==
  ASSUME NEW s, Sound(s)
  PROVE  Sound(elapse(s))
<1>1. s \in SidecarControlSession
  BY DEF Sound
<1>2. elapse(s) \in SidecarControlSession
  <2> DEFINE left == IF s.ttl = 0 THEN 0 ELSE s.ttl - 1
             age == IF s.silence > HeartbeatGrace THEN s.silence
                    ELSE s.silence + 1
  <2>1. left \in 0 .. SessionTtl /\ age \in 0 .. Never
    BY <1>1, ConstantTypes DEF SidecarControlSession, Never
  <2>2. elapse(s) = [s EXCEPT !.ttl = left, !.silence = age]
    BY <1>1 DEF elapse, SidecarControlSession
  <2> HIDE DEF left, age
  <2>3. QED
    BY <1>1, <2>1, <2>2 DEF SidecarControlSession
<1>3. /\ elapse(s).posture = s.posture
      /\ elapse(s).capabilityPosture = s.capabilityPosture
      /\ elapse(s).riskScore = s.riskScore
      /\ elapse(s).capabilityRisk = s.capabilityRisk
      /\ elapse(s).capabilityBlocked = s.capabilityBlocked
      /\ elapse(s).blockedRuntimeEvents = s.blockedRuntimeEvents
      /\ elapse(s).runtimeEvents = s.runtimeEvents
      /\ elapse(s).driftCount = s.driftCount
      /\ elapse(s).integrity = s.integrity
      /\ elapse(s).alerts = s.alerts
  BY <1>1 DEF elapse, SidecarControlSession
<1>4. Current(elapse(s))
  <2>1. derivePosture(elapse(s), s.capabilityPosture)
          = derivePosture(s, s.capabilityPosture)
    BY <1>3 DEF derivePosture, AttestationDrifted
  <2>2. deriveCapabilityPostureMap(elapse(s)) = deriveCapabilityPostureMap(s)
    BY <1>3 DEF deriveCapabilityPostureMap, deriveCapabilityPosture,
                AttestationDrifted
  <2>3. QED
    BY <1>3, <2>1, <2>2 DEF Sound, Current
<1>5. BlameIsAccounted(elapse(s))
  BY <1>3 DEF Sound, BlameIsAccounted, BlameReachesSession, RiskIsAlerted
<1>6. QED
  BY <1>2, <1>4, <1>5 DEF Sound

LEMMA ObservedType ==
  ASSUME NEW occ \in Occurrences, NEW event \in RuntimeEvent,
         NEW posture, NEW integrity
  PROVE  Observed(occ, event, posture, integrity) \in Occurrences
<1>1. CASE /\ isEnabled
           /\ shouldLearnEvent(event, posture, integrity)
           /\ event.pattern # NoPattern
  <2>1. event.category \in LearnedCategory /\ event.pattern \in Pattern
    BY <1>1 DEF shouldLearnEvent, RuntimeEvent
  <2>2. touchCounter(occ, event) \in Occurrences
    BY <2>1, BaselineAssumption
    DEF touchCounter, Occurrences, BaselineAssumption
  <2>3. QED
    BY <1>1, <2>2 DEF Observed
<1>2. CASE ~ (/\ isEnabled
              /\ shouldLearnEvent(event, posture, integrity)
              /\ event.pattern # NoPattern)
  BY <1>2 DEF Observed
<1>3. QED
  BY <1>1, <1>2

LEMMA CreatedIsSound ==
  ASSUME NEW mantle \in MantleId, NEW attestation \in Attestation,
         NEW integrity \in IntegrityStatus, NEW parent \in Session \cup {None},
         parent # None => Accounted(ctl[parent])
  PROVE  Sound(createControlSession(mantle, attestation, integrity, parent))
<1> DEFINE fresh == newControlSession(mantle, attestation, integrity)
           child == IF parent = None THEN fresh
                    ELSE inheritParentControlState(fresh, parent)
<1>1. Accounted(fresh)
  BY NewSessionIsAccounted
<1>2. fresh.riskScore = 0 /\ fresh.driftCount = 0
  BY DEF newControlSession
<1> HIDE DEF fresh
<1>3. Accounted(child)
  BY <1>1, <1>2, InheritedIsAccounted
<1> HIDE DEF child
<1>4. QED
  BY <1>3, BootstrapDriftIsAccounted, RefreshIsSound
  DEF createControlSession, child, fresh
LEMMA NewSessionHasNoDrift ==
  ASSUME NEW mantle \in MantleId, NEW attestation \in Attestation,
         NEW integrity \in IntegrityStatus, NEW parent \in Session \cup {None},
         parent # None => Accounted(ctl[parent])
  PROVE  createControlSession(mantle, attestation, integrity, parent).driftCount
           = 0
<1> DEFINE fresh == newControlSession(mantle, attestation, integrity)
           child == IF parent = None THEN fresh
                    ELSE inheritParentControlState(fresh, parent)
           r == chargeBootstrapDrift(child)
<1>1. Accounted(fresh) /\ fresh \in SidecarControlSession
  BY NewSessionIsAccounted DEF Accounted
<1>2. fresh.riskScore = 0 /\ fresh.driftCount = 0
  BY DEF newControlSession
<1> HIDE DEF fresh
<1>3. Accounted(child)
  BY <1>1, <1>2, InheritedIsAccounted
<1>4. child.driftCount = 0
  BY <1>1, <1>2
  DEF inheritParentControlState, pushSessionAlert, SidecarControlSession
<1> HIDE DEF child
<1>5. r \in SidecarControlSession
  BY <1>3, BootstrapDriftIsAccounted DEF Accounted
<1>6. r.driftCount = 0
  BY <1>3, <1>4
  DEF Accounted, chargeBootstrapDrift, pushSessionAlert, SidecarControlSession
<1> HIDE DEF r
<1>7. refreshSessionPosture(r).driftCount = 0
  BY <1>5, <1>6 DEF refreshSessionPosture, SidecarControlSession
<1>8. QED
  BY <1>7 DEF createControlSession, r, child, fresh
-----------------------------------------------------------------------------
(***************************************************************************)
(* The inductive invariant.  TypeOK alone is inductive, but the postures    *)
(* are not determined by the types: that they are current needs Sound of    *)
(* every session, which the handlers carry from one refresh to the next.    *)
(***************************************************************************)
IInv == TypeOK /\ \A s \in created : Sound(ctl[s])

\* a handler that replaces one session by a sound one
LEMMA UpdateOneSession ==
  ASSUME IInv, NEW s \in created, NEW r, Sound(r),
         ctl' = [ctl EXCEPT ![s] = r]
  PROVE  /\ created' = created
         /\ ctl' \in [created -> SidecarControlSession]
         /\ \A x \in created : Sound(ctl'[x])
<1>1. /\ ctl \in [created -> SidecarControlSession]
      /\ \A x \in created : Sound(ctl[x])
  BY DEF IInv, TypeOK
<1>2. r \in SidecarControlSession
  BY DEF Sound
<1>3. /\ DOMAIN ctl' = DOMAIN ctl
      /\ \A x \in DOMAIN ctl : ctl'[x] = IF x = s THEN r ELSE ctl[x]
  OBVIOUS
<1>4. created' = created
  BY <1>3 DEF created
<1>5. \A x \in created : ctl'[x] = IF x = s THEN r ELSE ctl[x]
  BY <1>3 DEF created
<1>6. ctl' \in [created -> SidecarControlSession]
  BY <1>1, <1>2 DEF created
<1>7. QED
  BY <1>1, <1>4, <1>5, <1>6

\* the parent of a new session, if any, is one of the created sessions
LEMMA BootstrapPicksParent ==
  ASSUME registered \subseteq created, NEW s, NEW mantle, NEW attestation,
         NEW integrity, Bootstrap(s, mantle, attestation, integrity)
  PROVE  \E parent \in created \cup {None} :
           ctl' = withSession(s, createControlSession(mantle, attestation,
                                                     integrity, parent))
<1>1. Parents \subseteq created \cup {None}
  BY DEF Parents, ParentCandidates, Active
<1>2. QED
  BY <1>1 DEF Bootstrap

LEMMA InitEstablishesIInv == Init => IInv
<1> SUFFICES ASSUME Init PROVE IInv
  OBVIOUS
<1>1. created = {}
  BY DEF Init, created
<1>2. conn \in [Conn -> {Idle} \cup Pending \cup Resolving]
  BY DEF Init
<1>3. occurrences \in Occurrences
  BY BaselineAssumption
  DEF Init, createEmptyState, Occurrences, BaselineAssumption
<1>4. ctl \in [created -> SidecarControlSession]
  BY <1>1 DEF Init
<1>5. QED
  BY <1>1, <1>2, <1>3, <1>4 DEF Init, IInv, TypeOK

LEMMA NextPreservesIInv == IInv /\ [Next]_vars => IInv'
<1> SUFFICES ASSUME IInv, [Next]_vars PROVE IInv'
  OBVIOUS
<1>0. /\ created \subseteq Session
      /\ ctl \in [created -> SidecarControlSession]
      /\ registered \subseteq created
      /\ conn \in [Conn -> {Idle} \cup Pending \cup Resolving]
      /\ \A c \in Conn : conn[c] # Idle => conn[c].session \in created
      /\ occurrences \in Occurrences
      /\ \A s \in created : Sound(ctl[s]) /\ Accounted(ctl[s])
  BY DEF IInv, TypeOK, Sound, Accounted
<1>1. ASSUME NEW s \in Session, NEW mantle \in MantleId,
             NEW attestation \in Attestation, NEW integrity \in IntegrityStatus,
             Bootstrap(s, mantle, attestation, integrity)
      PROVE  IInv'
  <2>1. PICK parent \in created \cup {None} :
          ctl' = withSession(s, createControlSession(mantle, attestation,
                                                     integrity, parent))
    BY <1>0, <1>1, BootstrapPicksParent
  <2> DEFINE r == createControlSession(mantle, attestation, integrity, parent)
  <2>2. Sound(r)
    BY <1>0, CreatedIsSound
  <2>3. r \in SidecarControlSession
    BY <2>2 DEF Sound
  <2> HIDE DEF r
  <2>4. /\ DOMAIN ctl' = created \cup {s}
        /\ \A x \in created \cup {s} : ctl'[x] = IF x = s THEN r ELSE ctl[x]
    BY <2>1 DEF r, withSession
  <2>5. created' = created \cup {s}
    BY <2>4 DEF created
  <2>6. ctl' \in [created' -> SidecarControlSession]
    BY <1>0, <2>1, <2>3, <2>5 DEF r, withSession
  <2>7. \A x \in created' : Sound(ctl'[x])
    BY <1>0, <2>2, <2>4, <2>5
  <2>8. /\ registered' = registered \cup {s}
        /\ UNCHANGED <<conn, occurrences>>
    BY <1>1 DEF Bootstrap
  <2>9. TypeOK'
    BY <1>0, <2>5, <2>6, <2>8 DEF TypeOK
  <2>10. \A x \in created' : Sound(ctl[x])'
    BY <2>7
  <2>11. QED
    BY <2>9, <2>10 DEF IInv
<1>2. ASSUME NEW c \in Conn, NEW s \in Session, NEW route \in SessionRoute,
             Authorize(c, s, route)
      PROVE  IInv'
  <2>1. s \in created
    BY <1>0, <1>2 DEF Authorize
  <2>2. Sound(recordControlRequest(ctl[s]))
    BY <1>0, <2>1, StaleHeartbeatIsAccounted, RefreshIsSound
    DEF recordControlRequest
  <2>3. ctl' = [ctl EXCEPT ![s] = recordControlRequest(ctl[s])]
    BY <1>2, <2>1 DEF Authorize
  <2>4. /\ created' = created
        /\ ctl' \in [created -> SidecarControlSession]
        /\ \A x \in created : Sound(ctl'[x])
    BY <2>1, <2>2, <2>3, UpdateOneSession
  <2>5. [phase |-> "body", session |-> s, route |-> route] \in Pending
    BY DEF Pending
  <2>6. /\ conn' = [conn EXCEPT ![c] = [phase |-> "body", session |-> s,
                                        route |-> route]]
        /\ UNCHANGED <<registered, occurrences>>
    BY <1>2 DEF Authorize
  <2>7. TypeOK'
    BY <1>0, <2>1, <2>4, <2>5, <2>6 DEF TypeOK
  <2>8. QED
    BY <2>4, <2>7 DEF IInv
<1>3. ASSUME NEW s \in Session, RejectExpired(s)
      PROVE  IInv'
  BY <1>0, <1>3 DEF RejectExpired, IInv, TypeOK, created
<1>4. ASSUME NEW c \in Conn, NEW payload \in Attestation,
             NEW integrity \in IntegrityStatus,
             Heartbeat(c, payload, integrity)
      PROVE  IInv'
  <2> DEFINE s == conn[c].session
             r == refreshSessionPosture(
                    chargeHeartbeat(ctl[s], payload, integrity))
  <2>1. conn[c] # Idle /\ s \in created
    BY <1>0, <1>4 DEF Heartbeat, BodyArrives, Pending, Idle
  <2>2. Sound(r)
    BY <1>0, <2>1, ChargedHeartbeatIsAccounted, RefreshIsSound
  <2>3. ctl' = [ctl EXCEPT ![s] = r]
    BY <1>4, <2>1 DEF Heartbeat
  <2> HIDE DEF r
  <2>4. /\ created' = created
        /\ ctl' \in [created -> SidecarControlSession]
        /\ \A x \in created : Sound(ctl'[x])
    BY <2>1, <2>2, <2>3, UpdateOneSession
  <2>5. conn' = [conn EXCEPT ![c] = Idle] /\ UNCHANGED <<registered, occurrences>>
    BY <1>4 DEF Heartbeat, Close
  <2>6. TypeOK'
    BY <1>0, <2>4, <2>5 DEF TypeOK
  <2>7. QED
    BY <2>4, <2>6 DEF IInv
<1>5. ASSUME NEW c \in Conn, NEW event \in Events,
             RecordRuntimeEvent(c, event)
      PROVE  IInv'
  <2> DEFINE s == conn[c].session
             known == /\ ~ event.blocked
                      /\ matchesLearnedAllowlist(occurrences, event)
             charged == chargeRuntimeEvent(ctl[s], event, known)
             r == refreshSessionPosture(charged)
  <2>1. conn[c] # Idle /\ s \in created
    BY <1>0, <1>5 DEF RecordRuntimeEvent, BodyArrives, Pending, Idle
  <2>2. event \in RuntimeEvent
    BY ConstantTypes
  <2>3. Sound(r)
    BY <1>0, <2>1, <2>2, ChargedRuntimeEventIsAccounted, RefreshIsSound
  <2>4. /\ ctl' = [ctl EXCEPT ![s] = r]
        /\ occurrences' = Observed(occurrences, event, charged.posture,
                                   charged.integrity)
        /\ conn' = [conn EXCEPT ![c] = Idle]
        /\ UNCHANGED registered
    BY <1>5, <2>1 DEF RecordRuntimeEvent, Close
  <2>5. occurrences' \in Occurrences
    BY <1>0, <2>2, <2>4, ObservedType
  <2> HIDE DEF r
  <2>6. /\ created' = created
        /\ ctl' \in [created -> SidecarControlSession]
        /\ \A x \in created : Sound(ctl'[x])
    BY <2>1, <2>3, <2>4, UpdateOneSession
  <2>7. TypeOK'
    BY <1>0, <2>4, <2>5, <2>6 DEF TypeOK
  <2>8. QED
    BY <2>6, <2>7 DEF IInv
<1>6. ASSUME NEW c \in Conn, NEW request \in SurfaceRequest,
             DecideSurface(c, request)
      PROVE  IInv'
  <2> DEFINE q == [phase |-> "resolving", session |-> conn[c].session,
                   fallback |-> allowRealFallback(ctl[conn[c].session], request)]
  <2>1. conn[c] # Idle /\ conn[c].session \in created
    BY <1>0, <1>6 DEF DecideSurface, BodyArrives, Pending, Idle
  <2>2. allowRealFallback(ctl[conn[c].session], request) \in BOOLEAN
    BY DEF allowRealFallback, RealFallbackAllowed
  <2>3. q \in Resolving /\ q.session \in created
    BY <1>0, <2>1, <2>2 DEF Resolving
  <2>4. conn' = [conn EXCEPT ![c] = q] /\ UNCHANGED <<ctl, registered, occurrences>>
    BY <1>6 DEF DecideSurface
  <2> HIDE DEF q
  <2>5. QED
    BY <1>0, <2>3, <2>4 DEF IInv, TypeOK, created
<1>7. ASSUME NEW c \in Conn, Respond(c) \/ AbortBody(c)
      PROVE  IInv'
  BY <1>0, <1>7 DEF Respond, AbortBody, Close, IInv, TypeOK, created
<1>8. ASSUME Tick
      PROVE  IInv'
  <2>1. /\ ctl' = [s \in created |-> elapse(ctl[s])]
        /\ UNCHANGED <<registered, conn, occurrences>>
    BY <1>8 DEF Tick
  <2>2. \A s \in created : Sound(elapse(ctl[s]))
    BY <1>0, ElapseIsSound
  <2>3. \A s \in created : elapse(ctl[s]) \in SidecarControlSession
    BY <2>2 DEF Sound
  <2>4. created' = created
    BY <2>1 DEF created
  <2>5. ctl' \in [created -> SidecarControlSession]
    BY <2>1, <2>3
  <2>6. \A s \in created : Sound(ctl'[s])
    BY <2>1, <2>2
  <2>7. TypeOK'
    BY <1>0, <2>1, <2>4, <2>5 DEF TypeOK
  <2>8. QED
    BY <2>4, <2>6, <2>7 DEF IInv
<1>9. CASE UNCHANGED vars
  BY <1>0, <1>9 DEF vars, IInv, TypeOK, created
<1>10. QED
  BY <1>1, <1>2, <1>3, <1>4, <1>5, <1>6, <1>7, <1>8, <1>9
  DEF Next, ServeRequest

\* The inductive invariant holds in every reachable state.
LEMMA InvariantHolds == Spec => []IInv
<1>1. Init => IInv
  BY InitEstablishesIInv
<1>2. IInv /\ [Next]_vars => IInv'
  BY NextPreservesIInv
<1>3. QED
  BY <1>1, <1>2, PTL DEF Spec

\* Every session's record, every request in flight and the learned table stay
\* of their types, for any number of sessions, connections and fields.
THEOREM TypeCorrect == Spec => []TypeOK
<1>1. IInv => TypeOK
  BY DEF IInv
<1>2. QED
  BY <1>1, InvariantHolds, PTL

\* No reachable state holds risk on a capability, or drift, that the session's
\* own score and its alerts do not account for.
THEOREM BlameIsAlwaysAccounted == Spec => []EveryBlameIsAccounted
<1>1. IInv => EveryBlameIsAccounted
  BY DEF IInv, Sound, EveryBlameIsAccounted
<1>2. QED
  BY <1>1, InvariantHolds, PTL

\* No handler leaves a posture behind that the session's counters no longer
\* justify.
THEOREM PosturesStayCurrent == Spec => []PostureIsCurrent
<1>1. IInv => PostureIsCurrent
  BY DEF IInv, Sound, Current, PostureIsCurrent
<1>2. QED
  BY <1>1, InvariantHolds, PTL

\* a drifted session is sealed on every surface, stale or not
LEMMA DriftedIsSealed ==
  ASSUME AutoPosture, NEW s, Sound(s), AttestationDrifted(s),
         NEW capability \in SidecarCapability
  PROVE  effectivePosture(s, capability) = "sealed"
<1>1. s.posture = "sealed"
  BY DEF Sound, Current, derivePosture
<1>2. CapabilityQuarantine => s.capabilityPosture[capability] = "sealed"
  BY DEF Sound, Current, deriveCapabilityPostureMap, deriveCapabilityPosture
<1>3. QED
  BY <1>1, <1>2 DEF effectivePosture

\* With automatic postures, a drifted heartbeat seals every surface of its
\* session for good, with and without capability quarantine.
THEOREM DriftSeals == Spec => []DriftSealsEverySurface
<1>1. ASSUME IInv, AutoPosture, NEW s \in created,
             NEW capability \in SidecarCapability, ctl[s].driftCount > 0
      PROVE  effectivePosture(ctl[s], capability) = "sealed"
  BY <1>1, DriftedIsSealed DEF IInv, AttestationDrifted
<1>2. IInv => DriftSealsEverySurface
  BY <1>1 DEF DriftSealsEverySurface
<1>3. QED
  BY <1>2, InvariantHolds, PTL

\* With capability quarantine, "sealed" says exactly that the score reached
\* the sealed level or the integrity is drifted.
THEOREM SealedExactlyByEvidence == Spec => []SealedByEvidence
<1>1. ASSUME IInv, AutoPosture, CapabilityQuarantine, NEW s \in created
      PROVE  ctl[s].posture = "sealed" <=>
               \/ ctl[s].riskScore >= SIDECAR_SEALED_RISK_THRESHOLD
               \/ ctl[s].integrity = "drifted"
  <2> DEFINE r == ctl[s]
  <2>1. /\ r \in SidecarControlSession
        /\ BlameReachesSession(r)
        /\ r.posture = derivePosture(r, r.capabilityPosture)
        /\ r.capabilityPosture = deriveCapabilityPostureMap(r)
    BY <1>1 DEF IInv, Sound, Current, BlameIsAccounted
  <2> HIDE DEF r
  <2>2. /\ r.riskScore \in Nat /\ r.driftCount \in Nat
        /\ r.capabilityRisk \in [SidecarCapability -> Nat]
        /\ r.capabilityPosture \in [SidecarCapability -> SidecarSessionPosture]
    BY <2>1 DEF SidecarControlSession
  <2>3. r.posture = "sealed" <=>
          \/ AttestationDrifted(r)
          \/ r.riskScore >= SIDECAR_SEALED_RISK_THRESHOLD
          \/ HottestIsAtLeast(r.capabilityPosture, "sealed")
    BY <2>1 DEF derivePosture
  <2>4. AttestationDrifted(r) =>
          \/ r.riskScore >= SIDECAR_SEALED_RISK_THRESHOLD
          \/ r.integrity = "drifted"
    BY <2>1 DEF AttestationDrifted, BlameReachesSession
  <2>5. HottestIsAtLeast(r.capabilityPosture, "sealed") =>
          \/ AttestationDrifted(r)
          \/ r.riskScore >= SIDECAR_SEALED_RISK_THRESHOLD
    <3>1. SUFFICES ASSUME NEW c \in SidecarCapability,
                          AtLeastAsStrict(r.capabilityPosture[c], "sealed")
                   PROVE  \/ AttestationDrifted(r)
                          \/ r.riskScore >= SIDECAR_SEALED_RISK_THRESHOLD
      BY DEF HottestIsAtLeast
    <3>2. r.capabilityPosture[c] = "sealed"
      BY <2>2, <3>1 DEF AtLeastAsStrict, Strictness, SidecarSessionPosture
    <3>3. PICK d \in SidecarCapability :
            deriveCapabilityPosture(r, d) = "sealed"
      BY <2>1, <3>2 DEF deriveCapabilityPostureMap, SidecarCapability
    <3>4. \/ AttestationDrifted(r)
          \/ r.capabilityRisk[d] >= SIDECAR_SEALED_RISK_THRESHOLD
      BY <3>3 DEF deriveCapabilityPosture
    <3>5. QED
      BY <2>1, <2>2, <3>4 DEF BlameReachesSession
  <2>6. QED
    BY <2>3, <2>4, <2>5 DEF r, AttestationDrifted
<1>2. IInv => SealedByEvidence
  BY <1>1 DEF SealedByEvidence
<1>3. QED
  BY <1>2, InvariantHolds, PTL
-----------------------------------------------------------------------------
(***************************************************************************)
(* What a step may never do.                                                *)
(***************************************************************************)

\* No step, and no request still in flight, brings a forgotten token back.
THEOREM ForgottenForever == Spec => ForgottenStaysForgotten
<1>1. ASSUME IInv, [Next]_vars, NEW s \in created, s \in registered'
      PROVE  s \in registered
  BY <1>1 DEF Next, vars, Bootstrap, RejectExpired, ServeRequest, Authorize,
     Heartbeat, RecordRuntimeEvent, DecideSurface, Respond, AbortBody, Tick
<1>2. IInv /\ [Next]_vars =>
        [\A s \in created : s \in registered' => s \in registered]_vars
  BY <1>1
<1>3. QED
  BY <1>2, InvariantHolds, PTL DEF Spec, ForgottenStaysForgotten

\* a capability restricted by its own evidence is restricted on its surface,
\* whether the surface takes the capability's posture or the session's
LEMMA RestrictedSurface ==
  ASSUME AutoPosture, CapabilityQuarantine, NEW s, Sound(s),
         NEW capability \in SidecarCapability,
         AtLeastAsStrict(deriveCapabilityPostureMap(s)[capability],
                         "restricted")
  PROVE  effectivePosture(s, capability) \in {"restricted", "sealed"}
<1>1. /\ s.capabilityPosture = deriveCapabilityPostureMap(s)
      /\ s.posture = derivePosture(s, s.capabilityPosture)
      /\ s \in SidecarControlSession
  BY DEF Sound, Current
<1>2. s.capabilityPosture[capability] \in {"restricted", "sealed"}
  BY <1>1, DeriveCapabilityPostureMapType
  DEF AtLeastAsStrict, Strictness, SidecarSessionPosture
<1>3. s.posture \in {"restricted", "sealed"}
  BY <1>1 DEF derivePosture, HottestIsAtLeast
<1>4. QED
  BY <1>2, <1>3 DEF effectivePosture

\* The engine may answer with the real resource only for a session whose
\* attestation never drifted, and only through a surface whose capability is
\* not itself restricted (safe HTTP methods apart).
THEOREM NoRealIsGrantedBeyondQuarantine == Spec => NoRealBeyondQuarantine
<1>1. ASSUME IInv, NEW c \in Conn, NEW request \in SurfaceRequest,
             AutoPosture, DecideSurface(c, request), Granted(c)'
      PROVE  LET s == ctl[conn[c].session] IN
             /\ ~ AttestationDrifted(s)
             /\ \/ request.safe
                \/ ~ CapabilityQuarantine
                \/ ~ AtLeastAsStrict(
                       deriveCapabilityPostureMap(s)[request.surface],
                       "restricted")
  <2> DEFINE s == ctl[conn[c].session]
  <2>1. conn[c].session \in created /\ conn \in [Conn -> {Idle} \cup Pending \cup Resolving]
    BY <1>1 DEF DecideSurface, BodyArrives, Pending, Idle, IInv, TypeOK
  <2>2. Sound(s)
    BY <1>1, <2>1 DEF IInv
  <2>3. allowRealFallback(s, request)
    BY <1>1, <2>1 DEF DecideSurface, Granted
  <2>4. request.surface \in SidecarCapability
    BY DEF SurfaceRequest, SidecarCapability
  <2>5. ~ AttestationDrifted(s)
    BY <1>1, <2>2, <2>3, <2>4, DriftedIsSealed DEF allowRealFallback, RealFallbackAllowed
  <2>6. CASE ~ request.safe /\ CapabilityQuarantine
    <3>1. effectivePosture(s, request.surface) \notin {"restricted", "sealed"}
      BY <2>3, <2>6 DEF allowRealFallback, RealFallbackAllowed
    <3>2. QED
      BY <1>1, <2>2, <2>4, <2>5, <2>6, <3>1, RestrictedSurface
  <2>7. QED
    BY <2>5, <2>6
<1>2. IInv =>
        (\A c \in Conn, request \in SurfaceRequest :
           LET s == ctl[conn[c].session] IN
           AutoPosture /\ DecideSurface(c, request) /\ Granted(c)' =>
             /\ ~ AttestationDrifted(s)
             /\ \/ request.safe
                \/ ~ CapabilityQuarantine
                \/ ~ AtLeastAsStrict(
                       deriveCapabilityPostureMap(s)[request.surface],
                       "restricted"))
  BY <1>1
<1>3. QED
  BY <1>2, InvariantHolds, PTL DEF NoRealBeyondQuarantine

\* a charge leaves the posture and the integrity's reporter to the handler
LEMMA ChargeKeepsPosture ==
  ASSUME NEW s, Accounted(s), NEW event \in RuntimeEvent, NEW known
  PROVE  LET r == chargeRuntimeEvent(s, event, known) IN
         /\ r.posture = s.posture
         /\ s.riskScore <= r.riskScore
         /\ s.blockedRuntimeEvents <= r.blockedRuntimeEvents
         /\ s.runtimeEvents <= r.runtimeEvents
         /\ r.driftCount = s.driftCount
         /\ \A c \in SidecarCapability :
              /\ s.capabilityRisk[c] <= r.capabilityRisk[c]
              /\ s.capabilityBlocked[c] <= r.capabilityBlocked[c]
         /\ event.category # "PRELOAD_INTEGRITY" => r.integrity = s.integrity
<1> DEFINE q == chargeEvent(s, event, known)
           i == recordIntegrity(q, event)
           r == chargeRuntimeEvent(s, event, known)
<1>1. s \in SidecarControlSession /\ q \in SidecarControlSession
  BY ChargedEventReachesSession DEF Accounted
<1>2. eventRisk(event, known) \in Nat /\ blockedCount(event) \in Nat
  BY EventRiskType
<1>3. /\ q.posture = s.posture
      /\ q.integrity = s.integrity
      /\ q.driftCount = s.driftCount
      /\ q.riskScore = s.riskScore + eventRisk(event, known)
      /\ q.blockedRuntimeEvents = s.blockedRuntimeEvents + blockedCount(event)
      /\ q.runtimeEvents = s.runtimeEvents + 1
      /\ q.capabilityRisk = chargedTo(s.capabilityRisk,
                                      mapEventCapabilities(event),
                                      eventRisk(event, known))
      /\ q.capabilityBlocked = chargedTo(s.capabilityBlocked,
                                         mapEventCapabilities(event),
                                         blockedCount(event))
  BY <1>1 DEF chargeEvent, SidecarControlSession
<1>4. /\ s.riskScore \in Nat /\ s.blockedRuntimeEvents \in Nat
      /\ s.runtimeEvents \in Nat
      /\ s.capabilityRisk \in [SidecarCapability -> Nat]
      /\ s.capabilityBlocked \in [SidecarCapability -> Nat]
      /\ q.riskScore \in Nat
      /\ q.capabilityRisk \in [SidecarCapability -> Nat]
  BY <1>1 DEF SidecarControlSession
<1>5. /\ s.riskScore <= q.riskScore
      /\ s.blockedRuntimeEvents <= q.blockedRuntimeEvents
      /\ s.runtimeEvents <= q.runtimeEvents
      /\ \A c \in SidecarCapability :
           /\ s.capabilityRisk[c] <= q.capabilityRisk[c]
           /\ s.capabilityBlocked[c] <= q.capabilityBlocked[c]
  BY <1>2, <1>3, <1>4 DEF chargedTo
<1> HIDE DEF q
<1>6. /\ i.posture = q.posture
      /\ q.riskScore <= i.riskScore
      /\ i.blockedRuntimeEvents = q.blockedRuntimeEvents
      /\ i.runtimeEvents = q.runtimeEvents
      /\ i.driftCount = q.driftCount
      /\ \A c \in SidecarCapability : q.capabilityRisk[c] <= i.capabilityRisk[c]
      /\ i.capabilityBlocked = q.capabilityBlocked
      /\ event.category # "PRELOAD_INTEGRITY" => i.integrity = q.integrity
  BY <1>1, <1>4
  DEF recordIntegrity, pushSessionAlert, raisedTo, allRaisedTo,
      SidecarControlSession
<1>7. i \in SidecarControlSession
  BY ChargedEventReachesSession, RecordedIntegrityReachesSession DEF q
<1> HIDE DEF i
<1>8. /\ r.posture = i.posture
      /\ r.riskScore = i.riskScore
      /\ r.blockedRuntimeEvents = i.blockedRuntimeEvents
      /\ r.runtimeEvents = i.runtimeEvents
      /\ r.driftCount = i.driftCount
      /\ r.capabilityRisk = i.capabilityRisk
      /\ r.capabilityBlocked = i.capabilityBlocked
      /\ r.integrity = i.integrity
  BY <1>7
  DEF chargeRuntimeEvent, pushPressureAlerts, pushAlertIf, pushSessionAlert,
      SidecarControlSession, q, i
<1>9. i.riskScore \in Nat /\ i.capabilityRisk \in [SidecarCapability -> Nat]
  BY <1>7 DEF SidecarControlSession
<1>10. QED
  BY <1>3, <1>4, <1>5, <1>6, <1>8, <1>9

\* Only a session that its own evidence leaves unrestricted can add to what
\* the baseline learns, and so to the allowlist every other session gets.
THEOREM OnlyUnrestrictedSessionsTeach == Spec => LearnsOnlyFromUnrestricted
<1> DEFINE Unrestricted(s) ==
             /\ ~ AttestationDrifted(s)
             /\ s.riskScore < SIDECAR_RESTRICTED_RISK_THRESHOLD
             /\ s.blockedRuntimeEvents < 2
           Teaches == \E c \in Conn :
                        /\ BodyArrives(c, "runtime-event")
                        /\ Unrestricted(ctl[conn[c].session])
<1>1. ASSUME IInv, AutoPosture, NEW c \in Conn, NEW event \in Events,
             RecordRuntimeEvent(c, event), occurrences' # occurrences
      PROVE  Teaches
  <2> DEFINE s == ctl[conn[c].session]
             known == /\ ~ event.blocked
                      /\ matchesLearnedAllowlist(occurrences, event)
             charged == chargeRuntimeEvent(s, event, known)
  <2>1. BodyArrives(c, "runtime-event") /\ conn[c].session \in created
    BY <1>1 DEF RecordRuntimeEvent, BodyArrives, Pending, Idle, IInv, TypeOK
  <2>2. Sound(s) /\ Accounted(s)
    BY <1>1, <2>1 DEF IInv, Sound, Accounted
  <2>3. event \in RuntimeEvent
    BY ConstantTypes
  <2>4. charged.posture \notin {"restricted", "sealed"}
    BY <1>1 DEF RecordRuntimeEvent, Observed, shouldLearnEvent
  <2>5. s.posture \notin {"restricted", "sealed"}
    BY <2>2, <2>3, <2>4, ChargeKeepsPosture
  <2>6. s.riskScore \in Nat /\ s.blockedRuntimeEvents \in Nat
    BY <2>2 DEF Sound, SidecarControlSession
  <2>7. Unrestricted(s)
    BY <1>1, <2>2, <2>5, <2>6 DEF Sound, Current, derivePosture
  <2>8. QED
    BY <2>1, <2>7
<1>2. IInv /\ [Next]_vars =>
        [AutoPosture /\ occurrences' # occurrences => Teaches]_vars
  <2> SUFFICES ASSUME IInv, Next, AutoPosture, occurrences' # occurrences
               PROVE  Teaches
    BY DEF vars
  <2> HIDE DEF Teaches
  <2>1. QED
    BY <1>1
    DEF Next, ServeRequest, Bootstrap, RejectExpired, Authorize, Heartbeat,
        DecideSurface, Respond, AbortBody, Tick
<1>3. QED
  BY <1>2, InvariantHolds, PTL DEF Spec, LearnsOnlyFromUnrestricted
-----------------------------------------------------------------------------
(***************************************************************************)
(* Postures relax only through a report that replaces a drifted integrity.  *)
(***************************************************************************)

\* r holds at least the evidence s holds, and the posture s had
AddsEvidence(s, r) ==
  /\ r.posture = s.posture
  /\ s.riskScore <= r.riskScore
  /\ s.blockedRuntimeEvents <= r.blockedRuntimeEvents
  /\ s.runtimeEvents <= r.runtimeEvents
  /\ s.driftCount <= r.driftCount
  /\ s.integrity = "drifted" => r.integrity = "drifted"
  /\ \A c \in SidecarCapability :
       /\ s.capabilityRisk[c] <= r.capabilityRisk[c]
       /\ s.capabilityBlocked[c] <= r.capabilityBlocked[c]

LEMMA StrictnessIsTransitive ==
  ASSUME NEW p \in SidecarSessionPosture, NEW q \in SidecarSessionPosture,
         NEW r \in SidecarSessionPosture,
         AtLeastAsStrict(p, q), AtLeastAsStrict(q, r)
  PROVE  AtLeastAsStrict(p, r)
BY DEF AtLeastAsStrict, Strictness, SidecarSessionPosture

LEMMA StricterEvidence ==
  ASSUME NEW s \in SidecarControlSession, NEW r \in SidecarControlSession,
         AddsEvidence(s, r), NEW c \in SidecarCapability
  PROVE  AtLeastAsStrict(deriveCapabilityPosture(r, c),
                         deriveCapabilityPosture(s, c))
<1>1. /\ s.capabilityRisk[c] \in Nat /\ r.capabilityRisk[c] \in Nat
      /\ s.capabilityBlocked[c] \in Nat /\ r.capabilityBlocked[c] \in Nat
      /\ s.driftCount \in Nat /\ r.driftCount \in Nat
  BY DEF SidecarControlSession
<1>2. /\ s.capabilityRisk[c] <= r.capabilityRisk[c]
      /\ s.capabilityBlocked[c] <= r.capabilityBlocked[c]
      /\ AttestationDrifted(s) => AttestationDrifted(r)
  BY <1>1 DEF AddsEvidence, AttestationDrifted
<1>3. QED
  BY <1>1, <1>2
  DEF deriveCapabilityPosture, AtLeastAsStrict, Strictness,
      SidecarSessionPosture

LEMMA RefreshNeverRelaxes ==
  ASSUME NEW s, Sound(s), NEW r \in SidecarControlSession,
         r.posture = s.posture,
         CapabilityQuarantine => AddsEvidence(s, r)
  PROVE  AtLeastAsStrict(refreshSessionPosture(r).posture, s.posture)
<1> DEFINE postures == IF CapabilityQuarantine
                       THEN deriveCapabilityPostureMap(r)
                       ELSE createCapabilityMap(r.posture)
<1>0. /\ s \in SidecarControlSession
      /\ s.posture \in SidecarSessionPosture
      /\ r.posture = s.posture
  BY DEF Sound, SidecarControlSession
<1>1. CASE ~ AutoPosture
  BY <1>0, <1>1
  DEF refreshSessionPosture, AtLeastAsStrict, Strictness, SidecarSessionPosture
<1>2. CASE AutoPosture
  <2>1. refreshSessionPosture(r).posture = derivePosture(r, postures)
    BY <1>2 DEF refreshSessionPosture, SidecarControlSession
  <2>2. s.posture = derivePosture(s, s.capabilityPosture)
    BY <1>2 DEF Sound, Current
  <2>3. postures \in [SidecarCapability -> SidecarSessionPosture]
    BY <1>0, DeriveCapabilityPostureMapType
    DEF createCapabilityMap, SidecarControlSession
  <2>4. CASE ~ CapabilityQuarantine
    <3>1. postures["read"] = s.posture /\ "read" \in SidecarCapability
      BY <1>0, <2>4 DEF createCapabilityMap, SidecarCapability
    <3>2. \A p \in SidecarSessionPosture :
            AtLeastAsStrict(s.posture, p) => HottestIsAtLeast(postures, p)
      BY <3>1 DEF HottestIsAtLeast
    <3> HIDE DEF postures
    <3>3. AtLeastAsStrict(derivePosture(r, postures), s.posture)
      BY <1>0, <3>2
      DEF derivePosture, AtLeastAsStrict, Strictness, SidecarSessionPosture
    <3>4. QED
      BY <2>1, <3>3
  <2>5. CASE CapabilityQuarantine
    <3>1. /\ s.capabilityPosture = deriveCapabilityPostureMap(s)
          /\ s.capabilityPosture
               \in [SidecarCapability -> SidecarSessionPosture]
      BY <1>0, <1>2, <2>5, DeriveCapabilityPostureMapType
      DEF Sound, Current
    <3>2. \A c \in SidecarCapability :
            AtLeastAsStrict(postures[c], s.capabilityPosture[c])
      <4>1. SUFFICES ASSUME NEW c \in SidecarCapability
                     PROVE  AtLeastAsStrict(postures[c], s.capabilityPosture[c])
        OBVIOUS
      <4> DEFINE d == IF c = "search" THEN "read" ELSE c
      <4>2. d \in SidecarCapability
        BY DEF SidecarCapability
      <4>3. /\ postures[c] = deriveCapabilityPosture(r, d)
            /\ s.capabilityPosture[c] = deriveCapabilityPosture(s, d)
        BY <2>5, <3>1 DEF deriveCapabilityPostureMap
      <4>4. QED
        BY <1>0, <2>5, <4>2, <4>3, StricterEvidence
    <3> HIDE DEF postures
    <3>3. ASSUME NEW p \in SidecarSessionPosture,
                 HottestIsAtLeast(s.capabilityPosture, p)
          PROVE  HottestIsAtLeast(postures, p)
      <4>1. PICK c \in SidecarCapability :
              AtLeastAsStrict(s.capabilityPosture[c], p)
        BY <3>3 DEF HottestIsAtLeast
      <4>2. AtLeastAsStrict(postures[c], p)
        BY <2>3, <3>1, <3>2, <4>1, StrictnessIsTransitive
      <4>3. QED
        BY <4>2 DEF HottestIsAtLeast
    <3>4. /\ s.riskScore \in Nat /\ r.riskScore \in Nat
          /\ s.blockedRuntimeEvents \in Nat /\ r.blockedRuntimeEvents \in Nat
          /\ s.runtimeEvents \in Nat /\ r.runtimeEvents \in Nat
          /\ s.driftCount \in Nat /\ r.driftCount \in Nat
      BY <1>0 DEF SidecarControlSession
    <3>5. AttestationDrifted(s) => AttestationDrifted(r)
      BY <2>5, <3>4 DEF AddsEvidence, AttestationDrifted
    <3>6. /\ s.riskScore <= r.riskScore
          /\ s.blockedRuntimeEvents <= r.blockedRuntimeEvents
          /\ s.runtimeEvents <= r.runtimeEvents
      BY <2>5 DEF AddsEvidence
    <3>7. /\ HottestIsAtLeast(s.capabilityPosture, "sealed")
               => HottestIsAtLeast(postures, "sealed")
          /\ HottestIsAtLeast(s.capabilityPosture, "restricted")
               => HottestIsAtLeast(postures, "restricted")
          /\ HottestIsAtLeast(s.capabilityPosture, "guarded")
               => HottestIsAtLeast(postures, "guarded")
      BY <3>3 DEF SidecarSessionPosture
    <3>8. AtLeastAsStrict(derivePosture(r, postures),
                          derivePosture(s, s.capabilityPosture))
      BY <3>4, <3>5, <3>6, <3>7
      DEF derivePosture, AtLeastAsStrict, Strictness, SidecarSessionPosture
    <3>9. QED
      BY <2>1, <2>2, <3>8
  <2>6. QED
    BY <2>4, <2>5
<1>3. QED
  BY <1>1, <1>2

\* the session of a handler that adds to the evidence, and of every other one
LEMMA UpdateNeverRelaxes ==
  ASSUME IInv, NEW s \in created, NEW r, Accounted(r),
         r.posture = ctl[s].posture,
         CapabilityQuarantine => \/ AddsEvidence(ctl[s], r)
                                 \/ /\ ctl[s].integrity = "drifted"
                                    /\ r.integrity # "drifted",
         ctl' = [ctl EXCEPT ![s] = refreshSessionPosture(r)],
         NEW x \in created
  PROVE  \/ AtLeastAsStrict(ctl'[x].posture, ctl[x].posture)
         \/ /\ CapabilityQuarantine
            /\ ctl[x].integrity = "drifted"
            /\ ctl'[x].integrity # "drifted"
<1>1. /\ Sound(ctl[s]) /\ r \in SidecarControlSession
      /\ ctl[x].posture \in SidecarSessionPosture
  BY DEF IInv, Sound, Accounted, SidecarControlSession
<1>2. ctl'[x] = IF x = s THEN refreshSessionPosture(r) ELSE ctl[x]
  BY DEF created
<1>3. CASE x # s
  BY <1>1, <1>2, <1>3 DEF AtLeastAsStrict, Strictness, SidecarSessionPosture
<1>4. CASE x = s /\ (CapabilityQuarantine => AddsEvidence(ctl[s], r))
  BY <1>1, <1>2, <1>4, RefreshNeverRelaxes
<1>5. CASE /\ x = s /\ CapabilityQuarantine
           /\ ctl[s].integrity = "drifted" /\ r.integrity # "drifted"
  <2>1. refreshSessionPosture(r).integrity = r.integrity
    BY <1>1 DEF refreshSessionPosture, SidecarControlSession
  <2>2. QED
    BY <1>2, <1>5, <2>1
<1>6. QED
  BY <1>3, <1>4, <1>5

\* what every step keeps
LEMMA StepsRelaxOnlyByReport ==
  IInv /\ [Next]_vars =>
    [\A s \in created :
       \/ AtLeastAsStrict(ctl'[s].posture, ctl[s].posture)
       \/ /\ CapabilityQuarantine
          /\ ctl[s].integrity = "drifted"
          /\ ctl'[s].integrity # "drifted"]_vars
<1> DEFINE Kept(x) == \/ AtLeastAsStrict(ctl'[x].posture, ctl[x].posture)
                      \/ /\ CapabilityQuarantine
                         /\ ctl[x].integrity = "drifted"
                         /\ ctl'[x].integrity # "drifted"
<1>0. ASSUME IInv, NEW x \in created, ctl'[x].posture = ctl[x].posture
      PROVE  Kept(x)
  <2>1. ctl[x].posture \in SidecarSessionPosture
    BY <1>0 DEF IInv, Sound, SidecarControlSession
  <2>2. QED
    BY <1>0, <2>1 DEF AtLeastAsStrict, Strictness, SidecarSessionPosture
<1>1. ASSUME IInv, NEW x \in created, NEW s \in Session, NEW mantle, NEW attestation,
             NEW integrity, Bootstrap(s, mantle, attestation, integrity)
      PROVE  Kept(x)
  <2>1. ctl'[x] = ctl[x]
    BY <1>1 DEF Bootstrap, withSession
  <2>2. QED
    BY <1>0, <1>1, <2>1
<1>2. ASSUME IInv, NEW x \in created, NEW c \in Conn, NEW s \in Session,
             NEW route \in SessionRoute, Authorize(c, s, route)
      PROVE  Kept(x)
  <2> DEFINE q == [ctl[s] EXCEPT !.ttl = SessionTtl]
             r == chargeStaleHeartbeat(q)
  <2>1. s \in created
    BY <1>2 DEF Authorize, IInv, TypeOK
  <2>2. Accounted(ctl[s]) /\ ctl[s] \in SidecarControlSession
    BY <1>2, <2>1 DEF IInv, Sound, Accounted
  <2>3. Accounted(r)
    BY <2>2, StaleHeartbeatIsAccounted
  <2>4. AddsEvidence(ctl[s], r)
    <3>1. /\ r.posture = ctl[s].posture
          /\ r.blockedRuntimeEvents = ctl[s].blockedRuntimeEvents
          /\ r.runtimeEvents = ctl[s].runtimeEvents
          /\ r.driftCount = ctl[s].driftCount
          /\ r.integrity = ctl[s].integrity
          /\ r.capabilityRisk = ctl[s].capabilityRisk
          /\ r.capabilityBlocked = ctl[s].capabilityBlocked
          /\ ctl[s].riskScore <= r.riskScore
      BY <2>2
      DEF chargeStaleHeartbeat, pushSessionAlert, raisedTo,
          SidecarControlSession
    <3>2. /\ ctl[s].blockedRuntimeEvents \in Nat
          /\ ctl[s].runtimeEvents \in Nat /\ ctl[s].driftCount \in Nat
          /\ ctl[s].capabilityRisk \in [SidecarCapability -> Nat]
          /\ ctl[s].capabilityBlocked \in [SidecarCapability -> Nat]
      BY <2>2 DEF SidecarControlSession
    <3> HIDE DEF r
    <3>3. QED
      BY <3>1, <3>2 DEF AddsEvidence
  <2>5. ctl' = [ctl EXCEPT ![s] = refreshSessionPosture(r)]
    BY <1>2, <2>1 DEF Authorize, recordControlRequest
  <2> HIDE DEF r
  <2>6. QED
    BY <1>2, <2>1, <2>3, <2>4, <2>5, UpdateNeverRelaxes DEF AddsEvidence
<1>3. ASSUME IInv, NEW x \in created, NEW c \in Conn,
             NEW payload \in Attestation, NEW integrity \in IntegrityStatus,
             Heartbeat(c, payload, integrity)
      PROVE  Kept(x)
  <2> DEFINE s == conn[c].session
             r == chargeHeartbeat(ctl[s], payload, integrity)
             drift == detectAttestationDrift(ctl[s].attestation, payload)
  <2>1. s \in created
    BY <1>3 DEF Heartbeat, BodyArrives, Pending, Idle, IInv, TypeOK
  <2>2. Accounted(ctl[s]) /\ ctl[s] \in SidecarControlSession
    BY <1>3, <2>1 DEF IInv, Sound, Accounted
  <2>3. Accounted(r) /\ r \in SidecarControlSession
    BY <2>2, ChargedHeartbeatIsAccounted DEF Accounted
  <2>4. AddsEvidence(ctl[s], r)
    <3>0. Cardinality(drift) \in Nat
      <4>1. drift \subseteq Field
        BY DEF detectAttestationDrift
      <4>2. QED
        BY <4>1, ConstantTypes, FS_Subset, FS_CardinalityType
    <3>1. /\ ctl[s].blockedRuntimeEvents \in Nat /\ ctl[s].riskScore \in Nat
          /\ ctl[s].runtimeEvents \in Nat /\ ctl[s].driftCount \in Nat
          /\ ctl[s].capabilityRisk \in [SidecarCapability -> Nat]
          /\ ctl[s].capabilityBlocked \in [SidecarCapability -> Nat]
      BY <2>2 DEF SidecarControlSession
    <3> HIDE DEF drift
    <3>2. /\ r.posture = ctl[s].posture
          /\ r.blockedRuntimeEvents = ctl[s].blockedRuntimeEvents
          /\ r.runtimeEvents = ctl[s].runtimeEvents
          /\ r.capabilityRisk = ctl[s].capabilityRisk
          /\ r.capabilityBlocked = ctl[s].capabilityBlocked
          /\ ctl[s].integrity = "drifted" => r.integrity = "drifted"
      BY <2>2
      DEF chargeHeartbeat, pushSessionAlert, SidecarControlSession
    <3>3. /\ r.driftCount = ctl[s].driftCount
                              + (IF drift # {} THEN Cardinality(drift) ELSE 0)
          /\ r.riskScore = IF drift # {}
                           THEN raisedTo(ctl[s].riskScore + 4,
                                         SIDECAR_SEALED_RISK_THRESHOLD)
                           ELSE ctl[s].riskScore
      BY <2>2, <3>1
      DEF chargeHeartbeat, pushSessionAlert, SidecarControlSession, drift
    <3>4. /\ ctl[s].driftCount <= r.driftCount
          /\ ctl[s].riskScore <= r.riskScore
      BY <3>0, <3>1, <3>3 DEF raisedTo
    <3> HIDE DEF r
    <3>5. QED
      BY <3>1, <3>2, <3>4 DEF AddsEvidence
  <2>5. ctl' = [ctl EXCEPT ![s] = refreshSessionPosture(r)]
    BY <1>3, <2>1 DEF Heartbeat
  <2> HIDE DEF r
  <2>6. QED
    BY <1>3, <2>1, <2>3, <2>4, <2>5, UpdateNeverRelaxes DEF AddsEvidence
<1>4. ASSUME IInv, NEW x \in created, NEW c \in Conn, NEW event \in Events,
             RecordRuntimeEvent(c, event)
      PROVE  Kept(x)
  <2> DEFINE s == conn[c].session
             known == /\ ~ event.blocked
                      /\ matchesLearnedAllowlist(occurrences, event)
             r == chargeRuntimeEvent(ctl[s], event, known)
  <2>1. s \in created
    BY <1>4 DEF RecordRuntimeEvent, BodyArrives, Pending, Idle, IInv, TypeOK
  <2>2. Accounted(ctl[s]) /\ ctl[s] \in SidecarControlSession
    BY <1>4, <2>1 DEF IInv, Sound, Accounted
  <2>3. event \in RuntimeEvent
    BY ConstantTypes
  <2>4. Accounted(r)
    BY <2>2, <2>3, ChargedRuntimeEventIsAccounted
  <2>5. /\ r.posture = ctl[s].posture
        /\ \/ AddsEvidence(ctl[s], r)
           \/ ctl[s].integrity = "drifted" /\ r.integrity # "drifted"
    <3>1. ctl[s].driftCount \in Nat
      BY <2>2 DEF SidecarControlSession
    <3>2. /\ r.posture = ctl[s].posture
          /\ ctl[s].riskScore <= r.riskScore
          /\ ctl[s].blockedRuntimeEvents <= r.blockedRuntimeEvents
          /\ ctl[s].runtimeEvents <= r.runtimeEvents
          /\ r.driftCount = ctl[s].driftCount
          /\ \A cap \in SidecarCapability :
               /\ ctl[s].capabilityRisk[cap] <= r.capabilityRisk[cap]
               /\ ctl[s].capabilityBlocked[cap] <= r.capabilityBlocked[cap]
      BY <2>2, <2>3, ChargeKeepsPosture, ZenonT(40)
    <3> HIDE DEF r
    <3>3. QED
      BY <3>1, <3>2 DEF AddsEvidence
  <2>6. ctl' = [ctl EXCEPT ![s] = refreshSessionPosture(r)]
    BY <1>4, <2>1 DEF RecordRuntimeEvent
  <2> HIDE DEF r
  <2>7. QED
    BY <1>4, <2>1, <2>4, <2>5, <2>6, UpdateNeverRelaxes
<1>5. ASSUME IInv, NEW x \in created, Tick
      PROVE  Kept(x)
  <2>1. ctl'[x] = elapse(ctl[x]) /\ ctl[x] \in SidecarControlSession
    BY <1>5 DEF Tick, IInv, Sound
  <2>2. ctl'[x].posture = ctl[x].posture
    BY <2>1 DEF elapse, SidecarControlSession
  <2>3. QED
    BY <1>0, <1>5, <2>2
<1>6. QED
  <2> SUFFICES ASSUME IInv, Next, NEW x \in created PROVE Kept(x)
    OBVIOUS
  <2>1. CASE UNCHANGED ctl
    BY <1>0, <2>1
  <2> HIDE DEF Kept
  <2>2. QED
    BY <1>1, <1>2, <1>3, <1>4, <1>5, <2>1
    DEF Next, ServeRequest, RejectExpired, DecideSurface, Respond, AbortBody

\* A session's posture is relaxed by one kind of step only: a report that
\* replaces a drifted integrity status, with capability quarantine on; not by
\* the heartbeats that the alert of a stale one names.
THEOREM PosturesRelaxOnlyByReport == Spec => PostureRelaxesOnlyByIntegrityReport
BY StepsRelaxOnlyByReport, InvariantHolds, PTL
   DEF Spec, PostureRelaxesOnlyByIntegrityReport

\* what an event that is no integrity report leaves alone
LEMMA OtherEventsKeepIntegrity ==
  ASSUME NEW s \in SidecarControlSession, NEW event \in RuntimeEvent,
         NEW known \in BOOLEAN
  PROVE  LET r == chargeRuntimeEvent(s, event, known) IN
         /\ r.posture = s.posture
         /\ event.category # "PRELOAD_INTEGRITY" => r.integrity = s.integrity
BY DEF chargeRuntimeEvent, pushPressureAlerts, pushAlertIf, pushSessionAlert,
       recordIntegrity, chargeEvent, SidecarControlSession

\* the posture that replaces a drifted status is relaxed by a report that
\* leaves nothing drifted
LEMMA ReportsReattest ==
  ASSUME IInv, IInv', Next, NEW x \in created,
         ctl[x].integrity = "drifted", ctl'[x].integrity # "drifted",
         ~ AtLeastAsStrict(ctl'[x].posture, ctl[x].posture)
  PROVE  Reattests(x)
<1>0. ctl[x] \in SidecarControlSession /\ ctl[x].posture \in SidecarSessionPosture
  BY DEF IInv, Sound, SidecarControlSession
<1>1. ctl'[x] # ctl[x]
  OBVIOUS
<1>2. PICK c \in Conn, event \in Events : RecordRuntimeEvent(c, event)
  <2>1. ASSUME NEW s \in Session, NEW mantle, NEW attestation, NEW integrity,
               Bootstrap(s, mantle, attestation, integrity)
        PROVE  FALSE
    BY <1>1, <2>1 DEF Bootstrap, withSession
  <2>2. ASSUME NEW c \in Conn, NEW s \in Session, NEW route \in SessionRoute,
               Authorize(c, s, route)
        PROVE  FALSE
    <3>1. s \in created /\ ctl[s] \in SidecarControlSession
      BY <2>2 DEF Authorize, IInv, TypeOK, Sound
    <3>2. recordControlRequest(ctl[s]).integrity = ctl[s].integrity
      BY <3>1 DEF recordControlRequest, chargeStaleHeartbeat, pushSessionAlert,
                  refreshSessionPosture, SidecarControlSession
    <3>3. ctl'[x].integrity = ctl[x].integrity
      BY <2>2, <3>1, <3>2 DEF Authorize, created
    <3> QED
      BY <3>3
  <2>3. ASSUME NEW c \in Conn, NEW payload \in Attestation,
               NEW integrity \in IntegrityStatus, Heartbeat(c, payload, integrity)
        PROVE  FALSE
    <3> DEFINE s == conn[c].session
               r == chargeHeartbeat(ctl[s], payload, integrity)
    <3>1. s \in created /\ ctl[s] \in SidecarControlSession
      BY <2>3 DEF Heartbeat, BodyArrives, Pending, Idle, IInv, TypeOK, Sound
    <3>2. Accounted(ctl[s])
      BY <3>1 DEF IInv, Sound, Accounted
    <3>3. ctl[s].integrity = "drifted" => r.integrity = "drifted"
      BY <3>1 DEF chargeHeartbeat, pushSessionAlert, SidecarControlSession
    <3>4. r \in SidecarControlSession
      BY <2>3, <3>2, ChargedHeartbeatIsAccounted DEF Accounted
    <3>5. ctl' = [ctl EXCEPT ![s] = refreshSessionPosture(r)]
      BY <2>3 DEF Heartbeat
    <3> HIDE DEF r
    <3>6. refreshSessionPosture(r).integrity = r.integrity
      BY <3>4 DEF refreshSessionPosture, SidecarControlSession
    <3> QED
      BY <3>1, <3>3, <3>5, <3>6 DEF created
  <2>4. ASSUME Tick
        PROVE  FALSE
    <3>1. ctl'[x].integrity = ctl[x].integrity
      BY <1>0, <2>4 DEF Tick, elapse, SidecarControlSession
    <3> QED
      BY <3>1
  <2>5. ~ UNCHANGED ctl
    BY <1>1
  <2> QED
    BY <2>1, <2>2, <2>3, <2>4, <2>5
    DEF Next, ServeRequest, RejectExpired, DecideSurface, Respond, AbortBody
<1> DEFINE s == conn[c].session
           known == /\ ~ event.blocked
                    /\ matchesLearnedAllowlist(occurrences, event)
           r == chargeRuntimeEvent(ctl[s], event, known)
<1>3. /\ s \in created /\ ctl[s] \in SidecarControlSession
      /\ event \in RuntimeEvent /\ known \in BOOLEAN
      /\ Accounted(ctl[s])
  BY <1>2, ConstantTypes
  DEF RecordRuntimeEvent, BodyArrives, Pending, Idle, IInv, TypeOK, Sound,
      Accounted, matchesLearnedAllowlist
<1>4. ctl' = [ctl EXCEPT ![s] = refreshSessionPosture(r)]
  BY <1>2 DEF RecordRuntimeEvent
<1>5. s = x
  BY <1>1, <1>4 DEF created
<1>6. r \in SidecarControlSession
  BY <1>3, ChargedRuntimeEventIsAccounted DEF Accounted
<1>7. /\ r.posture = ctl[x].posture
      /\ event.category # "PRELOAD_INTEGRITY" => r.integrity = ctl[x].integrity
  BY <1>3, <1>5, OtherEventsKeepIntegrity
<1> HIDE DEF r, known
<1>8. ctl'[x] = refreshSessionPosture(r)
  BY <1>4, <1>5 DEF created
<1>9. event.category = "PRELOAD_INTEGRITY"
  BY <1>6, <1>7, <1>8 DEF refreshSessionPosture, SidecarControlSession
<1>10. ~ AttestationDrifted(ctl'[x])
  <2>1. CASE ~ AutoPosture
    BY <1>0, <1>7, <1>8, <2>1
    DEF refreshSessionPosture, AtLeastAsStrict, Strictness, SidecarSessionPosture
  <2>2. CASE AutoPosture
    <3>1. x \in created'
      BY <1>4 DEF created
    <3>2. Sound(ctl'[x])
      BY <3>1 DEF IInv
    <3>3. AttestationDrifted(ctl'[x]) => ctl'[x].posture = "sealed"
      BY <2>2, <3>2 DEF Sound, Current, derivePosture
    <3> QED
      BY <1>0, <3>3 DEF AtLeastAsStrict, Strictness, SidecarSessionPosture
  <2> QED
    BY <2>1, <2>2
<1> QED
  BY <1>2, <1>5, <1>9, <1>10 DEF Reattests

\* An elevated posture holds until the process attests itself anew: whatever
\* other requests, learned activity, time and other sessions do in between.
THEOREM PosturesHold == Spec => PostureHoldsUntilReattested
<1>1. IInv /\ IInv' /\ [Next]_vars =>
        [\A s \in created : \/ AtLeastAsStrict(ctl'[s].posture, ctl[s].posture)
                            \/ Reattests(s)]_vars
  BY StepsRelaxOnlyByReport, ReportsReattest
<1> QED
  BY <1>1, InvariantHolds, PTL DEF Spec, PostureHoldsUntilReattested
-----------------------------------------------------------------------------
\* A child starts with at least the risk of the parent it was matched to, up
\* to the sealed level, and with at least the capability postures that the
\* parent's own counters justify.
THEOREM ChildrenInherit == Spec => ChildInheritsEvidence
<1> DEFINE Inherits(r, p) ==
             /\ \/ r.riskScore >= ctl[p].riskScore
                \/ r.riskScore >= SIDECAR_SEALED_RISK_THRESHOLD
             /\ CapabilityQuarantine /\ ~ AttestationDrifted(ctl[p]) =>
                  \A capability \in SidecarCapability :
                    AtLeastAsStrict(r.capabilityPosture[capability],
                                    ctl[p].capabilityPosture[capability])
<1>1. ASSUME IInv, AutoPosture, NEW mantle \in MantleId,
             NEW attestation \in Attestation, NEW integrity \in IntegrityStatus,
             NEW p \in created
      PROVE  LET r == createControlSession(mantle, attestation, integrity, p) IN
             /\ r.inheritedFrom = p
             /\ Inherits(r, p)
  <2> DEFINE fresh == newControlSession(mantle, attestation, integrity)
             child == inheritParentControlState(fresh, p)
             q == chargeBootstrapDrift(child)
             r == refreshSessionPosture(q)
  <2>1. /\ Sound(ctl[p]) /\ Accounted(ctl[p]) /\ p \in Session /\ p # None
        /\ ctl[p] \in SidecarControlSession
    BY <1>1, ConstantTypes DEF IInv, TypeOK, Sound, Accounted
  <2>2. /\ fresh \in SidecarControlSession
        /\ fresh.riskScore = 0 /\ fresh.driftCount = 0
    BY NewSessionIsAccounted DEF Accounted, newControlSession
  <2>3. Accounted(fresh)
    BY NewSessionIsAccounted
  <2>4. createControlSession(mantle, attestation, integrity, p) = r
    BY <2>1 DEF createControlSession
  <2> HIDE DEF fresh
  <2>5. Accounted(child) /\ child \in SidecarControlSession
    BY <2>1, <2>2, <2>3, InheritedIsAccounted DEF Accounted
  <2>6. /\ child.riskScore = ctl[p].riskScore
        /\ child.inheritedFrom = p
        /\ child.capabilityRisk = ctl[p].capabilityRisk
        /\ child.capabilityBlocked = ctl[p].capabilityBlocked
    BY <2>1, <2>2
    DEF inheritParentControlState, pushSessionAlert, raisedTo,
        SidecarControlSession
  <2> HIDE DEF child
  <2>7. Accounted(q) /\ q \in SidecarControlSession
    BY <2>5, BootstrapDriftIsAccounted DEF Accounted
  <2>8. /\ \/ q.riskScore = child.riskScore
           \/ q.riskScore = SIDECAR_SEALED_RISK_THRESHOLD
        /\ q.inheritedFrom = child.inheritedFrom
        /\ q.capabilityRisk = child.capabilityRisk
        /\ q.capabilityBlocked = child.capabilityBlocked
    BY <2>5 DEF chargeBootstrapDrift, pushSessionAlert, SidecarControlSession
  <2> HIDE DEF q
  <2>9. /\ r.riskScore = q.riskScore
        /\ r.inheritedFrom = q.inheritedFrom
        /\ CapabilityQuarantine =>
             r.capabilityPosture = deriveCapabilityPostureMap(q)
    BY <1>1, <2>7 DEF refreshSessionPosture, SidecarControlSession
  <2> HIDE DEF r
  <2>10. \/ r.riskScore >= ctl[p].riskScore
         \/ r.riskScore >= SIDECAR_SEALED_RISK_THRESHOLD
    <3>1. ctl[p].riskScore \in Nat
      BY <2>1 DEF SidecarControlSession
    <3>2. QED
      BY <2>6, <2>8, <2>9, <3>1
  <2>11. ASSUME CapabilityQuarantine, ~ AttestationDrifted(ctl[p]),
                NEW c \in SidecarCapability
         PROVE  AtLeastAsStrict(r.capabilityPosture[c],
                                ctl[p].capabilityPosture[c])
    <3> DEFINE d == IF c = "search" THEN "read" ELSE c
    <3>1. d \in SidecarCapability
      BY DEF SidecarCapability
    <3>2. /\ r.capabilityPosture[c] = deriveCapabilityPosture(q, d)
          /\ ctl[p].capabilityPosture[c] = deriveCapabilityPosture(ctl[p], d)
      BY <1>1, <2>1, <2>9, <2>11
      DEF Sound, Current, deriveCapabilityPostureMap
    <3>3. /\ q.capabilityRisk = ctl[p].capabilityRisk
          /\ q.capabilityBlocked = ctl[p].capabilityBlocked
      BY <2>6, <2>8
    <3> HIDE DEF d
    <3>4. AtLeastAsStrict(deriveCapabilityPosture(q, d),
                          deriveCapabilityPosture(ctl[p], d))
      BY <2>11, <3>3
      DEF deriveCapabilityPosture, AtLeastAsStrict, Strictness,
          SidecarSessionPosture
    <3>5. QED
      BY <3>2, <3>4
  <2>12. QED
    BY <2>4, <2>6, <2>8, <2>9, <2>10, <2>11
<1>2. ASSUME IInv, AutoPosture, Next, NEW x \in created' \ created,
             ctl'[x].inheritedFrom # None
      PROVE  Inherits(ctl'[x], ctl'[x].inheritedFrom)
  <2>1. PICK s \in Session, mantle \in MantleId, attestation \in Attestation,
             integrity \in IntegrityStatus :
          Bootstrap(s, mantle, attestation, integrity)
    BY <1>2
    DEF Next, ServeRequest, RejectExpired, Authorize, Heartbeat,
        RecordRuntimeEvent, DecideSurface, Respond, AbortBody, Tick, created
  <2>2. PICK p \in created \cup {None} :
          ctl' = withSession(s, createControlSession(mantle, attestation,
                                                     integrity, p))
    BY <1>2, <2>1, BootstrapPicksParent DEF IInv, TypeOK
  <2>3. x = s /\ ctl'[x] = createControlSession(mantle, attestation, integrity, p)
    BY <1>2, <2>2 DEF created, withSession
  <2>4. p # None
    <3>1. SUFFICES ASSUME p = None PROVE FALSE
      OBVIOUS
    <3> DEFINE fresh == newControlSession(mantle, attestation, integrity)
    <3>2. fresh \in SidecarControlSession /\ fresh.inheritedFrom = None
      BY NewSessionIsAccounted DEF Accounted, newControlSession
    <3>3. createControlSession(mantle, attestation, integrity, p)
            = refreshSessionPosture(chargeBootstrapDrift(fresh))
      BY <3>1 DEF createControlSession
    <3> HIDE DEF fresh
    <3>4. /\ chargeBootstrapDrift(fresh) \in SidecarControlSession
          /\ chargeBootstrapDrift(fresh).inheritedFrom = None
      BY <3>2
      DEF chargeBootstrapDrift, pushSessionAlert, SidecarControlSession,
          AlertCode
    <3>5. refreshSessionPosture(chargeBootstrapDrift(fresh)).inheritedFrom = None
      BY <3>4 DEF refreshSessionPosture, SidecarControlSession
    <3>6. QED
      BY <1>2, <2>3, <3>3, <3>5
  <2>5. QED
    BY <1>1, <1>2, <2>3, <2>4
<1>3. IInv /\ [Next]_vars =>
        [AutoPosture =>
         \A s \in created' \ created :
           LET p == ctl'[s].inheritedFrom IN
           p # None =>
             /\ \/ ctl'[s].riskScore >= ctl[p].riskScore
                \/ ctl'[s].riskScore >= SIDECAR_SEALED_RISK_THRESHOLD
             /\ CapabilityQuarantine /\ ~ AttestationDrifted(ctl[p]) =>
                  \A capability \in SidecarCapability :
                    AtLeastAsStrict(ctl'[s].capabilityPosture[capability],
                                    ctl[p].capabilityPosture[capability])]_vars
  BY <1>2
<1>4. QED
  BY <1>3, InvariantHolds, PTL DEF Spec, ChildInheritsEvidence
-----------------------------------------------------------------------------
(***************************************************************************)
(* SidecarControl implements QuarantineContract when postures are           *)
(* automatic: every step of the control plane is a step of the contract or  *)
(* a stutter, under the inductive invariant above.                          *)
(***************************************************************************)

standingOf == [s \in Session |->
                 IF s \notin created THEN "absent"
                 ELSE IF ctl[s].driftCount > 0 THEN "condemned"
                 ELSE "admitted"]

holderOf == [c \in Conn |-> IF Granted(c) THEN conn[c].session ELSE None]

ContractStep == [Contract!Next]_<<standingOf, holderOf>>

\* standing depends on the sessions' drift counts only
LEMMA SameStanding ==
  ASSUME created' = created,
         \A s \in created : ctl'[s].driftCount = ctl[s].driftCount
  PROVE  standingOf' = standingOf
BY DEF standingOf

LEMMA RefreshKeepsDrift ==
  ASSUME NEW s \in SidecarControlSession
  PROVE  refreshSessionPosture(s).driftCount = s.driftCount
BY DEF refreshSessionPosture, SidecarControlSession

\* one session changes, its drift count does not
LEMMA SameDriftUpdate ==
  ASSUME IInv, NEW s \in created, NEW r, r.driftCount = ctl[s].driftCount,
         ctl' = [ctl EXCEPT ![s] = r]
  PROVE  standingOf' = standingOf
<1>1. created' = created
  BY DEF created
<1>2. \A x \in created : ctl'[x] = IF x = s THEN r ELSE ctl[x]
  BY DEF created
<1>3. QED
  BY <1>1, <1>2, SameStanding

\* a connection that is granted nothing before and after holds nothing
LEMMA SameHolder ==
  ASSUME NEW c \in Conn, NEW v, conn \in [Conn -> {Idle} \cup Pending \cup Resolving],
         conn' = [conn EXCEPT ![c] = v], ~ Granted(c), ~ Granted(c)'
  PROVE  holderOf' = holderOf
<1>1. \A d \in Conn \ {c} : conn'[d] = conn[d]
  OBVIOUS
<1>2. \A d \in Conn \ {c} : Granted(d)' = Granted(d)
  BY <1>1 DEF Granted
<1>3. QED
  BY <1>1, <1>2 DEF holderOf
-----------------------------------------------------------------------------
LEMMA InitImplementsContract == Init => Contract!Init
<1> SUFFICES ASSUME Init PROVE Contract!Init
  OBVIOUS
<1>1. created = {}
  BY DEF Init, created
<1>2. \A c \in Conn : ~ Granted(c)
  BY DEF Init, Granted, Idle, Resolving
<1>3. QED
  BY <1>1, <1>2 DEF Contract!Init

LEMMA NextImplementsContract ==
  ASSUME AutoPosture, IInv, [Next]_vars
  PROVE  ContractStep
<1>0. /\ created \subseteq Session
      /\ conn \in [Conn -> {Idle} \cup Pending \cup Resolving]
      /\ \A c \in Conn : conn[c] # Idle => conn[c].session \in created
      /\ \A s \in created : /\ Sound(ctl[s]) /\ Accounted(ctl[s])
                            /\ ctl[s] \in SidecarControlSession
                            /\ ctl[s].driftCount \in Nat
      /\ None \notin Session
  BY ConstantTypes DEF IInv, TypeOK, Sound, Accounted, SidecarControlSession
<1>1. ASSUME NEW s \in Session, NEW mantle \in MantleId,
             NEW attestation \in Attestation, NEW integrity \in IntegrityStatus,
             Bootstrap(s, mantle, attestation, integrity)
      PROVE  ContractStep
  <2>1. PICK p \in created \cup {None} :
          ctl' = withSession(s, createControlSession(mantle, attestation,
                                                    integrity, p))
    BY <1>1, BootstrapPicksParent DEF IInv, TypeOK
  <2> DEFINE r == createControlSession(mantle, attestation, integrity, p)
  <2>2. r.driftCount = 0
    BY <1>0, NewSessionHasNoDrift
  <2> HIDE DEF r
  <2>3. /\ created' = created \cup {s}
        /\ s \notin created
        /\ \A x \in created' : ctl'[x] = IF x = s THEN r ELSE ctl[x]
    BY <1>1, <2>1 DEF r, created, withSession, Bootstrap
  <2>4. standingOf' = [standingOf EXCEPT ![s] = "admitted"]
    <3>1. \A x \in Session : standingOf'[x] = IF x = s THEN "admitted"
                                             ELSE standingOf[x]
      BY <1>0, <2>2, <2>3 DEF standingOf
    <3>2. QED
      BY <3>1 DEF standingOf
  <2>5. standingOf[s] = "absent"
    BY <2>3 DEF standingOf
  <2>6. UNCHANGED holderOf
    BY <1>1 DEF Bootstrap, holderOf, Granted
  <2>7. Contract!Admit(s)
    BY <2>4, <2>5, <2>6 DEF Contract!Admit, standingOf, holderOf
  <2>8. QED
    BY <2>7 DEF ContractStep, Contract!Next
<1>2. ASSUME NEW c \in Conn, NEW s \in Session, NEW route \in SessionRoute,
             Authorize(c, s, route)
      PROVE  UNCHANGED <<standingOf, holderOf>>
  <2>1. s \in created
    BY <1>2 DEF Authorize, IInv, TypeOK
  <2> DEFINE q == [ctl[s] EXCEPT !.ttl = SessionTtl]
             r == chargeStaleHeartbeat(q)
  <2>2. q \in SidecarControlSession /\ q.driftCount = ctl[s].driftCount
    BY <1>0, <2>1, ConstantTypes DEF SidecarControlSession
  <2>3. r \in SidecarControlSession
    BY <1>0, <2>1, StaleHeartbeatIsAccounted DEF Accounted
  <2>4. r.driftCount = ctl[s].driftCount
    BY <2>2 DEF chargeStaleHeartbeat, pushSessionAlert, SidecarControlSession
  <2> HIDE DEF r
  <2>5. recordControlRequest(ctl[s]) = refreshSessionPosture(r)
    BY DEF recordControlRequest, r
  <2>6. refreshSessionPosture(r).driftCount = ctl[s].driftCount
    BY <2>3, <2>4, RefreshKeepsDrift
  <2>7. ctl' = [ctl EXCEPT ![s] = refreshSessionPosture(r)]
    BY <1>2, <2>5 DEF Authorize
  <2>8. standingOf' = standingOf
    BY <2>1, <2>6, <2>7, SameDriftUpdate
  <2>9. ~ Granted(c) /\ ~ Granted(c)'
    BY <1>0, <1>2 DEF Authorize, Granted, Idle, Resolving
  <2>10. conn' = [conn EXCEPT ![c] = [phase |-> "body", session |-> s,
                                      route |-> route]]
    BY <1>2 DEF Authorize
  <2>11. QED
    BY <1>0, <2>8, <2>9, <2>10, SameHolder
<1>3. ASSUME NEW c \in Conn, NEW payload \in Attestation,
             NEW integrity \in IntegrityStatus,
             Heartbeat(c, payload, integrity)
      PROVE  ContractStep
  <2> DEFINE s == conn[c].session
             drift == detectAttestationDrift(ctl[s].attestation, payload)
             q == chargeHeartbeat(ctl[s], payload, integrity)
             r == refreshSessionPosture(q)
  <2>1. conn[c] \in Pending /\ s \in created /\ s \in Session
    BY <1>0, <1>3 DEF Heartbeat, BodyArrives, Pending, Idle
  <2>2. q \in SidecarControlSession
    BY <1>0, <2>1, ChargedHeartbeatIsAccounted DEF Accounted
  <2>3. r.driftCount = q.driftCount
    BY <2>2, RefreshKeepsDrift
  <2>4. q.driftCount = ctl[s].driftCount
                         + (IF drift # {} THEN Cardinality(drift) ELSE 0)
    BY <1>0, <2>1
    DEF chargeHeartbeat, pushSessionAlert, SidecarControlSession
  <2>5. /\ Cardinality(drift) \in Nat
        /\ drift # {} => Cardinality(drift) > 0
    <3>1. drift \subseteq Field
      BY DEF detectAttestationDrift
    <3>2. IsFiniteSet(drift)
      BY <3>1, ConstantTypes, FS_Subset
    <3>3. Cardinality(drift) \in Nat /\ (Cardinality(drift) = 0 <=> drift = {})
      BY <3>2, FS_CardinalityType, FS_EmptySet
    <3>4. QED
      BY <3>3
  <2>6. ctl' = [ctl EXCEPT ![s] = r] /\ conn' = [conn EXCEPT ![c] = Idle]
    BY <1>3, <2>1 DEF Heartbeat, Close
  <2>7. UNCHANGED holderOf
    <3>1. ~ Granted(c)
      BY <2>1 DEF Granted, Pending, Resolving
    <3>2. ~ Granted(c)'
      BY <1>0, <2>6 DEF Granted, Idle, Resolving
    <3>3. QED
      BY <1>0, <2>6, <3>1, <3>2, SameHolder
  <2> HIDE DEF r, q, drift
  <2>8. CASE drift = {}
    <3>1. r.driftCount = ctl[s].driftCount
      BY <1>0, <2>1, <2>3, <2>4, <2>8
    <3>2. standingOf' = standingOf
      BY <2>1, <2>6, <3>1, SameDriftUpdate
    <3>3. QED
      BY <2>7, <3>2 DEF ContractStep
  <2>9. CASE drift # {}
    <3>1. r.driftCount > 0
      BY <1>0, <2>1, <2>3, <2>4, <2>5, <2>9
    <3>2. /\ created' = created
          /\ \A x \in created : ctl'[x] = IF x = s THEN r ELSE ctl[x]
      BY <2>6 DEF created
    <3>3. standingOf' = [standingOf EXCEPT ![s] = "condemned"]
      BY <2>1, <3>1, <3>2 DEF standingOf
    <3>4. CASE ctl[s].driftCount > 0
      <4>1. standingOf[s] = "condemned"
        BY <2>1, <3>4 DEF standingOf
      <4>2. standingOf' = standingOf
        BY <3>3, <4>1 DEF standingOf
      <4>3. QED
        BY <2>7, <4>2 DEF ContractStep
    <3>5. CASE ~ (ctl[s].driftCount > 0)
      <4>1. standingOf[s] = "admitted"
        BY <2>1, <3>5 DEF standingOf
      <4>2. PICK t \in Session : t = s
        BY <2>1
      <4>3. Contract!Condemn(t)
        BY <2>7, <3>3, <4>1, <4>2 DEF Contract!Condemn, standingOf, holderOf
      <4>4. QED
        BY <4>3 DEF ContractStep, Contract!Next
    <3>6. QED
      BY <3>4, <3>5
  <2>10. QED
    BY <2>8, <2>9
<1>4. ASSUME NEW c \in Conn, NEW event \in Events,
             RecordRuntimeEvent(c, event)
      PROVE  UNCHANGED <<standingOf, holderOf>>
  <2> DEFINE s == conn[c].session
             known == /\ ~ event.blocked
                      /\ matchesLearnedAllowlist(occurrences, event)
             q == chargeRuntimeEvent(ctl[s], event, known)
             r == refreshSessionPosture(q)
  <2>1. conn[c] \in Pending /\ s \in created
    BY <1>0, <1>4 DEF RecordRuntimeEvent, BodyArrives, Pending, Idle
  <2>2. event \in RuntimeEvent
    BY ConstantTypes
  <2>3. q \in SidecarControlSession
    BY <1>0, <2>1, <2>2, ChargedRuntimeEventIsAccounted DEF Accounted
  <2>4. q.driftCount = ctl[s].driftCount
    BY <1>0, <2>1, <2>2, ChargeKeepsPosture, ZenonT(40)
  <2>5. r.driftCount = ctl[s].driftCount
    BY <2>3, <2>4, RefreshKeepsDrift
  <2>6. ctl' = [ctl EXCEPT ![s] = r] /\ conn' = [conn EXCEPT ![c] = Idle]
    BY <1>4, <2>1 DEF RecordRuntimeEvent, Close
  <2> HIDE DEF r
  <2>7. standingOf' = standingOf
    BY <2>1, <2>5, <2>6, SameDriftUpdate
  <2>8. ~ Granted(c)
    BY <2>1 DEF Granted, Pending, Resolving
  <2>9. ~ Granted(c)'
    BY <1>0, <2>6 DEF Granted, Idle, Resolving
  <2>10. QED
    BY <1>0, <2>6, <2>7, <2>8, <2>9, SameHolder
<1>5. ASSUME NEW c \in Conn, NEW request \in SurfaceRequest,
             DecideSurface(c, request)
      PROVE  ContractStep
  <2> DEFINE s == conn[c].session
             v == [phase |-> "resolving", session |-> s,
                   fallback |-> allowRealFallback(ctl[s], request)]
  <2>1. conn[c] \in Pending /\ s \in created /\ s \in Session
    BY <1>0, <1>5 DEF DecideSurface, BodyArrives, Pending, Idle
  <2>2. conn' = [conn EXCEPT ![c] = v] /\ UNCHANGED <<ctl, registered>>
    BY <1>5 DEF DecideSurface
  <2>3. UNCHANGED standingOf
    BY <2>2 DEF standingOf, created
  <2>4. ~ Granted(c)
    BY <2>1 DEF Granted, Pending, Resolving
  <2>5. conn'[c] = v
    BY <1>0, <2>2
  <2>6. CASE ~ allowRealFallback(ctl[s], request)
    <3>1. ~ Granted(c)'
      BY <2>5, <2>6 DEF Granted
    <3>2. QED
      BY <1>0, <2>2, <2>3, <2>4, <3>1, SameHolder DEF ContractStep
  <2>7. CASE allowRealFallback(ctl[s], request)
    <3>1. v \in Resolving
      BY <2>1, <2>7 DEF Resolving
    <3>2. Granted(c)'
      BY <2>5, <2>7, <3>1 DEF Granted, Resolving
    <3>3. request.surface \in SidecarCapability
      BY DEF SurfaceRequest, SidecarCapability
    <3>4. ~ AttestationDrifted(ctl[s])
      BY <1>0, <2>1, <2>7, <3>3, DriftedIsSealed DEF allowRealFallback, RealFallbackAllowed
    <3>5. standingOf[s] = "admitted"
      BY <2>1, <3>4 DEF standingOf, AttestationDrifted
    <3>6. holderOf[c] = None
      BY <2>4 DEF holderOf
    <3>7. \A d \in Conn \ {c} : conn'[d] = conn[d] /\ Granted(d)' = Granted(d)
      BY <2>2 DEF Granted
    <3>8. holderOf' = [holderOf EXCEPT ![c] = s]
      <4>1. \A d \in Conn : holderOf'[d] = IF d = c THEN s ELSE holderOf[d]
        BY <2>5, <3>2, <3>7 DEF holderOf
      <4>2. QED
        BY <4>1 DEF holderOf
    <3>9. PICK t \in Session : t = s
      BY <2>1
    <3>10. Contract!Grant(c, t)
      BY <2>3, <3>5, <3>6, <3>8, <3>9 DEF Contract!Grant, standingOf, holderOf
    <3>11. QED
      BY <3>10 DEF ContractStep, Contract!Next
  <2>8. QED
    BY <2>6, <2>7
<1>6. ASSUME NEW c \in Conn, Respond(c)
      PROVE  ContractStep
  <2>1. /\ conn[c] \in Resolving
        /\ conn' = [conn EXCEPT ![c] = Idle]
        /\ UNCHANGED ctl
    BY <1>6 DEF Respond, Close
  <2>2. UNCHANGED standingOf
    BY <2>1 DEF standingOf, created
  <2>3. ~ Granted(c)'
    BY <1>0, <2>1 DEF Granted, Idle, Resolving
  <2>4. CASE ~ Granted(c)
    BY <1>0, <2>1, <2>2, <2>3, <2>4, SameHolder DEF ContractStep
  <2>5. CASE Granted(c)
    <3>1. conn[c].session \in Session
      BY <1>0, <2>1 DEF Resolving
    <3>2. holderOf[c] # None
      BY <1>0, <2>5, <3>1 DEF holderOf
    <3>3. \A d \in Conn \ {c} : conn'[d] = conn[d] /\ Granted(d)' = Granted(d)
      BY <2>1 DEF Granted
    <3>4. holderOf' = [holderOf EXCEPT ![c] = None]
      BY <2>3, <3>3 DEF holderOf
    <3>5. Contract!Release(c)
      BY <2>2, <3>2, <3>4 DEF Contract!Release, standingOf, holderOf
    <3>6. QED
      BY <3>5 DEF ContractStep, Contract!Next
  <2>6. QED
    BY <2>4, <2>5
<1>7. ASSUME NEW c \in Conn, AbortBody(c)
      PROVE  UNCHANGED <<standingOf, holderOf>>
  <2>1. /\ conn[c] \in Pending
        /\ conn' = [conn EXCEPT ![c] = Idle]
        /\ UNCHANGED ctl
    BY <1>7 DEF AbortBody, Close
  <2>2. UNCHANGED standingOf
    BY <2>1 DEF standingOf, created
  <2>3. ~ Granted(c) /\ ~ Granted(c)'
    BY <1>0, <2>1 DEF Granted, Idle, Pending, Resolving
  <2>4. QED
    BY <1>0, <2>1, <2>2, <2>3, SameHolder
<1>8. ASSUME Tick
      PROVE  UNCHANGED <<standingOf, holderOf>>
  <2>1. \A s \in created : elapse(ctl[s]).driftCount = ctl[s].driftCount
    BY <1>0 DEF elapse, SidecarControlSession
  <2>2. /\ created' = created
        /\ \A s \in created : ctl'[s] = elapse(ctl[s])
        /\ UNCHANGED conn
    BY <1>8 DEF Tick, created
  <2>3. QED
    BY <2>1, <2>2, SameStanding DEF holderOf, Granted
<1>9. ASSUME NEW s \in Session, RejectExpired(s)
      PROVE  UNCHANGED <<standingOf, holderOf>>
  BY <1>9 DEF RejectExpired, standingOf, holderOf, Granted, created
<1>10. CASE UNCHANGED vars
  BY <1>10 DEF vars, standingOf, holderOf, Granted, created, ContractStep
<1>11. QED
  BY <1>1, <1>2, <1>3, <1>4, <1>5, <1>6, <1>7, <1>8, <1>9, <1>10
  DEF Next, ServeRequest, ContractStep

\* With automatic postures the control plane keeps the contract, whatever the
\* thresholds let through and however requests of one session interleave.
THEOREM ControlImplementsContract ==
  ASSUME AutoPosture
  PROVE  Spec => ImplementsContract
<1>1. Init => Contract!Init
  BY InitImplementsContract
<1>2. IInv /\ [Next]_vars => ContractStep
  BY NextImplementsContract
<1>3. QED
  BY <1>1, <1>2, InvariantHolds, PTL
  DEF Spec, ImplementsContract, Contract!Spec, ContractStep, standingOf, holderOf
=============================================================================
