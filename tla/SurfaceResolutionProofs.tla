---------------------- MODULE SurfaceResolutionProofs ----------------------
(***************************************************************************)
(* Theorems about SurfaceResolution, for any number of concurrent requests, *)
(* any resources with any names and similarities, and any policy file.      *)
(***************************************************************************)
EXTENDS SurfaceResolution, TLAPS

Inventories == [Resource -> SUBSET RiskTag]

SurfacePosture == SidecarSessionPosture \cup {Undefined}

-----------------------------------------------------------------------------
(***************************************************************************)
(* What the operators of AccessDecision return.                             *)
(***************************************************************************)

\* The tags of a request are risk tags.
LEMMA TagsTyped ==
  ASSUME NEW payload \in Payload, NEW inv \in Inventories
  PROVE  TagsOf(payload, inv) \in SUBSET RiskTag
BY DecisionAssumption, ResolutionAssumption
   DEF TagsOf, Inventories, Payload

\* A request has the more tags the more the inventory has learned.
LEMMA TagsGrow ==
  ASSUME NEW payload \in Payload, NEW inv \in Inventories,
         NEW later \in Inventories,
         \A r \in Resource : inv[r] \subseteq later[r]
  PROVE  TagsOf(payload, inv) \subseteq TagsOf(payload, later)
BY ResolutionAssumption DEF TagsOf, Payload

\* The zone and trust state of an envelope are the client's or the posture's.
LEMMA EnvelopeZoneTyped ==
  ASSUME NEW current \in SealLevel \cup {Undefined},
         NEW next \in SealLevel \cup {Undefined}
  PROVE  moreRestrictiveZoneLevel(current, next) \in SealLevel \cup {Undefined}
BY DEF moreRestrictiveZoneLevel

LEMMA EnvelopeTrustTyped ==
  ASSUME NEW current \in ActorTrustState \cup {Undefined},
         NEW next \in ActorTrustState \cup {Undefined}
  PROVE  moreRestrictiveTrustState(current, next)
           \in ActorTrustState \cup {Undefined}
BY DEF moreRestrictiveTrustState

\* What the postures ask for.
LEMMA PostureTyped ==
  ASSUME NEW posture \in SidecarSessionPosture, NEW action \in Action
  PROVE  /\ postureToZoneLevel[posture] \in SealLevel \cup {Undefined}
         /\ postureToTrustState[posture] \in ActorTrustState \cup {Undefined}
         /\ resolvePostureAnomalyFloor(posture, action) \in 0 .. 100
BY DEF SidecarSessionPosture, SealLevel, ActorTrustState, postureToZoneLevel,
       postureToTrustState, resolvePostureAnomalyFloor

\* The envelope keeps a request a request, of the same resource and action.
LEMMA EnvelopedTyped ==
  ASSUME NEW payload \in Payload, NEW posture \in SurfacePosture
  PROVE  /\ Enveloped(payload, posture) \in Payload
         /\ Enveloped(payload, posture).resource = payload.resource
         /\ Enveloped(payload, posture).action = payload.action
         /\ Enveloped(payload, posture).actor = payload.actor
<1>1. CASE posture = Undefined
  BY <1>1 DEF Enveloped
<1>2. CASE posture \in SidecarSessionPosture
  <2> DEFINE zone == moreRestrictiveZoneLevel(payload.zoneLevel,
                                              postureToZoneLevel[posture])
             trust == moreRestrictiveTrustState(payload.trustState,
                                                postureToTrustState[posture])
             floor == resolvePostureAnomalyFloor(posture, payload.action)
             score == IF payload.anomalyScore >= floor
                      THEN payload.anomalyScore ELSE floor
             known == resolveKnownActorForPosture(payload.isKnownActor,
                                                  posture, payload.action)
  <2>1. zone \in SealLevel \cup {Undefined}
    BY <1>2, PostureTyped, EnvelopeZoneTyped DEF Payload
  <2>2. trust \in ActorTrustState \cup {Undefined}
    BY <1>2, PostureTyped, EnvelopeTrustTyped DEF Payload
  <2>3. score \in 0 .. 100
    BY <1>2, PostureTyped DEF Payload
  <2>4. known \in {"known", "unknown", Undefined}
    BY DEF Payload, resolveKnownActorForPosture
  <2>5. posture # Undefined
    BY <1>2 DEF SidecarSessionPosture, Undefined
  <2>6. Enveloped(payload, posture) =
          [payload EXCEPT !.zoneLevel = zone, !.trustState = trust,
                          !.anomalyScore = score, !.isKnownActor = known]
    BY <2>5, Zenon DEF Enveloped, applySessionEnvelope
  <2> HIDE DEF zone, trust, floor, score, known
  <2> QED
    BY <2>1, <2>2, <2>3, <2>4, <2>6 DEF Payload
<1> QED
  BY <1>1, <1>2 DEF SurfacePosture

\* A rule of the policy file decides something, and so does the default.
LEMMA PolicyTyped ==
  ASSUME NEW resource, NEW actor, NEW action, NEW sensitive \in BOOLEAN
  PROVE  policyDecision(resource, actor, action, sensitive) \in AccessDecisions
<1> DEFINE first == FirstRules(resource, actor)
<1>1. resolveDefaultDecision(action, sensitive) \in AccessDecisions
  BY DEF resolveDefaultDecision, AccessDecisions
<1>2. ASSUME first # {}
      PROVE  Rules[CHOOSE i \in first : TRUE].decision \in AccessDecisions
  <2>1. PICK i \in first : i = (CHOOSE j \in first : TRUE)
    BY <1>2
  <2>2. i \in DOMAIN Rules
    BY DEF FirstRules, MatchingRules
  <2> DEFINE PolicyRule == [resources : SUBSET Resource, actors : SUBSET Actor,
                            decision : AccessDecisions, priority : Nat]
  <2>3. Rules \in Seq(PolicyRule)
    BY DecisionAssumption
  <2>4. Rules[i] \in PolicyRule
    <3> HIDE DEF PolicyRule
    <3> QED  BY <2>2, <2>3
  <2> QED
    BY <2>1, <2>4
<1> QED
  BY <1>1, <1>2 DEF policyDecision

LEMMA GatekeeperTyped ==
  ASSUME NEW zone, NEW known \in BOOLEAN, NEW score \in 0 .. 100, NEW action,
         NEW sensitive \in BOOLEAN
  PROVE  gatekeeperDecision(zone, known, score, action, sensitive)
           \in AccessDecisions
BY DEF gatekeeperDecision, AccessDecisions

\* The decision that takes effect is blocking if and only if the policy's or
\* the gatekeeper's is.
LEMMA BlocksIfEitherBlocks ==
  ASSUME NEW left \in AccessDecisions, NEW right \in AccessDecisions
  PROVE  /\ moreRestrictiveDecision(left, right) \in AccessDecisions
         /\ moreRestrictiveDecision(left, right) \in BLOCKING_DECISIONS
              <=> \/ left \in BLOCKING_DECISIONS
                  \/ right \in BLOCKING_DECISIONS
         /\ DECISION_ORDER[moreRestrictiveDecision(left, right)]
              >= DECISION_ORDER[left]
         /\ DECISION_ORDER[moreRestrictiveDecision(left, right)]
              >= DECISION_ORDER[right]
         /\ DECISION_ORDER[left] \in 0 .. 6
BY DEF moreRestrictiveDecision, BLOCKING_DECISIONS, AccessDecisions,
       DECISION_ORDER

\* The two decisions effectiveDecision combines.
PolicyPart(payload, riskTags) ==
  policyDecision(payload.resource, payload.actor, payload.action,
                 IsSensitive(ZoneOf(payload, riskTags), riskTags))

GatekeeperPart(payload, riskTags) ==
  gatekeeperDecision(ZoneOf(payload, riskTags), IsKnown(payload),
                     payload.anomalyScore, payload.action,
                     IsSensitive(ZoneOf(payload, riskTags), riskTags))

LEMMA DecisionParts ==
  ASSUME NEW payload \in Payload, NEW riskTags \in SUBSET RiskTag
  PROVE  /\ PolicyPart(payload, riskTags) \in AccessDecisions
         /\ GatekeeperPart(payload, riskTags) \in AccessDecisions
         /\ effectiveDecision(payload, riskTags) =
              moreRestrictiveDecision(PolicyPart(payload, riskTags),
                                      GatekeeperPart(payload, riskTags))
         /\ effectiveDecision(payload, riskTags) \in AccessDecisions
         /\ effectiveDecision(payload, riskTags) \in BLOCKING_DECISIONS
              <=> \/ PolicyPart(payload, riskTags) \in BLOCKING_DECISIONS
                  \/ GatekeeperPart(payload, riskTags) \in BLOCKING_DECISIONS
<1>1. IsSensitive(ZoneOf(payload, riskTags), riskTags) \in BOOLEAN
  BY DEF IsSensitive
<1>2. IsKnown(payload) \in BOOLEAN
  BY DEF IsKnown
<1>3. payload.anomalyScore \in 0 .. 100
  BY DEF Payload
<1>4. PolicyPart(payload, riskTags) \in AccessDecisions
  BY <1>1, PolicyTyped DEF PolicyPart
<1>5. GatekeeperPart(payload, riskTags) \in AccessDecisions
  BY <1>1, <1>2, <1>3, GatekeeperTyped DEF GatekeeperPart
<1>6. effectiveDecision(payload, riskTags) =
        moreRestrictiveDecision(PolicyPart(payload, riskTags),
                                GatekeeperPart(payload, riskTags))
  BY DEF effectiveDecision, PolicyPart, GatekeeperPart
<1> QED
  BY <1>4, <1>5, <1>6, BlocksIfEitherBlocks

LEMMA TrustTyped ==
  ASSUME NEW payload \in Payload, NEW riskTags \in SUBSET RiskTag
  PROVE  trustAfter(payload, riskTags) \in ActorTrustState
<1>1. BaseTrust(payload) \in ActorTrustState
  BY DEF BaseTrust, Payload, ActorTrustState
<1>2. \A base \in ActorTrustState, decision \in AccessDecisions :
        deriveTrustState(base, decision) \in ActorTrustState
  BY DEF deriveTrustState, ActorTrustState
<1> QED
  BY <1>1, <1>2, DecisionParts DEF trustAfter

\* More risk tags make a resource as sensitive as it was, or more so, in any
\* zone that is inferred for it, the one exception being a name that is
\* sealed without a tag.
LEMMA ZoneGrows ==
  ASSUME NEW payload \in Payload,
         NEW riskTags \in SUBSET RiskTag, NEW more \in SUBSET RiskTag,
         riskTags \subseteq more
  PROVE  /\ ZoneOf(payload, riskTags) \in SealLevel
         /\ \/ ZoneOf(payload, more) = ZoneOf(payload, riskTags)
            \/ ZoneOf(payload, riskTags) = "OBSERVED"
            \/ ZoneOf(payload, more) = "SEALED"
            \/ /\ ZoneOf(payload, more) = "RESTRICTED"
               /\ payload.zoneLevel = Undefined
               /\ NamedZone[payload.resource] = "SEALED"
<1>1. NamedZone[payload.resource] \in {"OBSERVED", "RESTRICTED", "SEALED"}
  BY DecisionAssumption DEF Payload
<1>2. CASE payload.zoneLevel # Undefined
  BY <1>2 DEF ZoneOf, Payload
<1>3. CASE payload.zoneLevel = Undefined
  BY <1>1, <1>3 DEF ZoneOf, inferZoneLevel, SealLevel
<1> QED
  BY <1>2, <1>3

\* A zone that stays as it is refuses what it refused, the more sensitive the
\* resource has become.
LEMMA SensitiveMonotone ==
  ASSUME NEW zone \in SealLevel,
         NEW riskTags \in SUBSET RiskTag, NEW more \in SUBSET RiskTag,
         riskTags \subseteq more
  PROVE  IsSensitive(zone, riskTags) => IsSensitive(zone, more)
BY DEF IsSensitive

LEMMA PolicyBlocksMore ==
  ASSUME NEW resource, NEW actor, NEW action,
         NEW sensitive \in BOOLEAN, NEW later \in BOOLEAN,
         sensitive => later,
         policyDecision(resource, actor, action, sensitive)
           \in BLOCKING_DECISIONS
  PROVE  policyDecision(resource, actor, action, later) \in BLOCKING_DECISIONS
<1>1. resolveDefaultDecision(action, sensitive) \in BLOCKING_DECISIONS
        => resolveDefaultDecision(action, later) \in BLOCKING_DECISIONS
  BY DEF resolveDefaultDecision, BLOCKING_DECISIONS
<1> QED
  BY <1>1 DEF policyDecision

\* A gatekeeper that knows nobody refuses everything in a restricted zone.
LEMMA RestrictedRefusesUnknown ==
  ASSUME NEW known \in BOOLEAN, ~ known, NEW score \in 0 .. 100, NEW action,
         NEW sensitive \in BOOLEAN
  PROVE  gatekeeperDecision("RESTRICTED", known, score, action, sensitive)
           \in BLOCKING_DECISIONS
BY DEF gatekeeperDecision, BLOCKING_DECISIONS, Denies, Constrains

\* The gatekeeper refuses in a zone at least as strict what it refused.
LEMMA GatekeeperBlocksMore ==
  ASSUME NEW zone \in SealLevel, NEW later \in SealLevel,
         NEW known \in BOOLEAN, NEW score \in 0 .. 100, NEW action,
         NEW sensitive \in BOOLEAN, NEW sensitiveLater \in BOOLEAN,
         sensitive => sensitiveLater,
         later = "SEALED" => sensitiveLater,
         later = zone \/ zone = "OBSERVED" \/ later = "SEALED",
         gatekeeperDecision(zone, known, score, action, sensitive)
           \in BLOCKING_DECISIONS
  PROVE  gatekeeperDecision(later, known, score, action, sensitiveLater)
           \in BLOCKING_DECISIONS
<1> USE DEF gatekeeperDecision, BLOCKING_DECISIONS, Denies, Constrains, SealLevel
<1>1. CASE score >= 95
  BY <1>1
<1>2. CASE score < 95 /\ zone = "OBSERVED"
  BY <1>2
<1>3. CASE score < 95 /\ later = zone
  BY <1>3
<1>4. CASE score < 95 /\ zone # "OBSERVED" /\ later = "SEALED"
  BY <1>4 DEF IsReadLike, IsMutationLike
<1> QED
  BY <1>1, <1>2, <1>3, <1>4

\* What was refused is refused when more has been learned.
LEMMA RefusedAgain ==
  ASSUME NEW payload \in Payload,
         NEW riskTags \in SUBSET RiskTag, NEW more \in SUBSET RiskTag,
         riskTags \subseteq more,
         ~ SealedByNameAlone(payload),
         effectiveDecision(payload, riskTags) \in BLOCKING_DECISIONS
  PROVE  effectiveDecision(payload, more) \in BLOCKING_DECISIONS
<1> DEFINE zone == ZoneOf(payload, riskTags)
           later == ZoneOf(payload, more)
           sensitive == IsSensitive(zone, riskTags)
           sensitiveLater == IsSensitive(later, more)
<1>1. /\ zone \in SealLevel
      /\ later \in SealLevel
  BY ZoneGrows
<1>2. \/ later = zone \/ zone = "OBSERVED" \/ later = "SEALED"
      \/ later = "RESTRICTED" /\ ~ IsKnown(payload)
  BY ZoneGrows DEF SealedByNameAlone
<1>3. /\ sensitive \in BOOLEAN
      /\ sensitiveLater \in BOOLEAN
      /\ later = "SEALED" => sensitiveLater
  BY DEF IsSensitive
<1>4. /\ IsKnown(payload) \in BOOLEAN
      /\ payload.anomalyScore \in 0 .. 100
  BY DEF IsKnown, Payload
<1>5. SUFFICES \/ PolicyPart(payload, more) \in BLOCKING_DECISIONS
               \/ GatekeeperPart(payload, more) \in BLOCKING_DECISIONS
  BY DecisionParts
<1>6. CASE later = "RESTRICTED" /\ ~ IsKnown(payload)
  BY <1>3, <1>4, <1>6, RestrictedRefusesUnknown DEF GatekeeperPart
<1>7. CASE later = zone \/ zone = "OBSERVED" \/ later = "SEALED"
  <2>1. sensitive => sensitiveLater
    BY <1>1, <1>7 DEF IsSensitive
  <2>2. CASE PolicyPart(payload, riskTags) \in BLOCKING_DECISIONS
    BY <1>3, <2>1, <2>2, PolicyBlocksMore DEF PolicyPart
  <2>3. CASE GatekeeperPart(payload, riskTags) \in BLOCKING_DECISIONS
    BY <1>1, <1>3, <1>4, <1>7, <2>1, <2>3, GatekeeperBlocksMore
       DEF GatekeeperPart
  <2> QED
    BY <2>2, <2>3, DecisionParts
<1> QED
  BY <1>2, <1>6, <1>7
-----------------------------------------------------------------------------
(***************************************************************************)
(* The inductive invariant.                                                 *)
(***************************************************************************)

\* What a request being answered remembers is what it was decided on, the
\* inventory has forgotten none of the tags it was decided on, and its answer
\* is the one the branches of the coordinator give.
Sound(f) ==
  /\ f.riskTags \subseteq TagsOf(f.asked, inventory)
  /\ f.decision = effectiveDecision(Enveloped(f.asked, f.posture), f.riskTags)
  /\ f.trust = trustAfter(Enveloped(f.asked, f.posture), f.riskTags)
  /\ f.fallback = MayUseReal(f.asked, f.posture)
  /\ f.synthetic => f.trust \in ELIGIBLE_OVERLAY_STATES
  /\ f.phase = "answer" =>
       /\ f.reached = f.fallback
       /\ \E realMatched \in BOOLEAN :
            /\ realMatched => f.fallback
            /\ f.source = SourceOf(f, realMatched)

IInv ==
  /\ TypeOK
  /\ \A c \in Conn : flight[c] # Idle => Sound(flight[c])

LEMMA FlightNotIdle ==
  /\ Idle \notin Flight
  /\ \A f : f \in {Idle} \cup Flight /\ f # Idle => f \in Flight
  /\ Idle.phase = "idle"
BY DEF Idle, Flight

\* A flight is typed once its fields are.
LEMMA SourceTyped ==
  ASSUME NEW f, NEW realMatched \in BOOLEAN
  PROVE  SourceOf(f, realMatched) \in Source
BY DEF SourceOf, Source

\* A real answer may be used or not: the envelope decides, both ways.
LEMMA MayUseRealTyped ==
  ASSUME NEW payload \in Payload, NEW posture \in SurfacePosture
  PROVE  MayUseReal(payload, posture) \in BOOLEAN
BY DEF MayUseReal, Payload

\* What is accepted is typed and sound.
LEMMA AcceptSound ==
  ASSUME TypeOK, NEW c \in Conn, NEW payload \in Payload,
         NEW posture \in SurfacePosture, Accept(c, payload, posture)
  PROVE  /\ inventory' = inventory
         /\ flight' = [flight EXCEPT ![c] = flight'[c]]
         /\ flight'[c] \in Flight
         /\ Sound(flight'[c])
<1> DEFINE tags == TagsOf(payload, inventory)
           request == Enveloped(payload, posture)
           f == [phase |-> "overlay", asked |-> payload, posture |-> posture,
                 riskTags |-> tags,
                 decision |-> DecisionFor(payload, posture, inventory),
                 trust |-> trustAfter(request, tags),
                 fallback |-> MayUseReal(payload, posture),
                 synthetic |-> FALSE, reached |-> FALSE, source |-> "none"]
<1>1. /\ inventory' = inventory
      /\ flight' = [flight EXCEPT ![c] = f]
      /\ flight'[c] = f
  BY DEF Accept, TypeOK
<1>2. tags \in SUBSET RiskTag
  BY TagsTyped DEF TypeOK, Inventories
<1>3. request \in Payload
  BY EnvelopedTyped
<1>4. DecisionFor(payload, posture, inventory) = effectiveDecision(request, tags)
  BY DEF DecisionFor
<1>5. /\ DecisionFor(payload, posture, inventory) \in AccessDecisions
      /\ trustAfter(request, tags) \in ActorTrustState
  BY <1>2, <1>3, <1>4, DecisionParts, TrustTyped
<1>6. MayUseReal(payload, posture) \in BOOLEAN
  BY MayUseRealTyped
<1>7. f \in Flight
  BY <1>2, <1>5, <1>6 DEF Flight, Source, SurfacePosture
<1>8. /\ f.phase = "overlay" /\ f.asked = payload /\ f.posture = posture
      /\ f.riskTags = tags /\ f.synthetic = FALSE
      /\ f.decision = DecisionFor(payload, posture, inventory)
      /\ f.trust = trustAfter(request, tags)
      /\ f.fallback = MayUseReal(payload, posture)
  OBVIOUS
<1> HIDE DEF f, tags, request
<1>9. Sound(f)
  <2>1. f.riskTags \subseteq TagsOf(f.asked, inventory)
    BY <1>8 DEF tags
  <2>2. f.decision = effectiveDecision(Enveloped(f.asked, f.posture), f.riskTags)
    BY <1>4, <1>8 DEF request
  <2>3. f.trust = trustAfter(Enveloped(f.asked, f.posture), f.riskTags)
    BY <1>8 DEF request
  <2> QED
    BY <1>8, <2>1, <2>2, <2>3 DEF Sound
<1> QED
  BY <1>1, <1>7, <1>9

\* The inventory only grows, and what is sound stays so.
LEMMA UpsertGrows ==
  ASSUME TypeOK, NEW resource \in Resource, NEW riskTags \in SUBSET RiskTag,
         upsertProfile(resource, riskTags)
  PROVE  /\ inventory' \in Inventories
         /\ \A r \in Resource : inventory[r] \subseteq inventory'[r]
<1> DEFINE tags == inventory[resource] \cup riskTags \cup InferredTags[resource]
<1>1. tags \in SUBSET RiskTag
  BY DecisionAssumption DEF TypeOK
<1>2. inventory' = [inventory EXCEPT ![resource] = tags]
  BY DEF upsertProfile
<1>3. inventory[resource] \subseteq tags
  OBVIOUS
<1> HIDE DEF tags
<1> QED
  BY <1>1, <1>2, <1>3 DEF TypeOK, Inventories

LEMMA SoundKept ==
  ASSUME NEW f \in Flight, Sound(f),
         inventory \in Inventories, inventory' \in Inventories,
         \A r \in Resource : inventory[r] \subseteq inventory'[r]
  PROVE  Sound(f)'
<1>1. f.asked \in Payload
  BY DEF Flight
<1>2. TagsOf(f.asked, inventory) \subseteq TagsOf(f.asked, inventory')
  BY <1>1, TagsGrow
<1>3. f.riskTags \subseteq TagsOf(f.asked, inventory')
  BY <1>2 DEF Sound
<1> QED
  BY <1>3 DEF Sound

\* A step that grows the inventory and leaves each request as it is, or ends
\* it, keeps the invariant.
LEMMA LearningKeepsIInv ==
  ASSUME IInv, inventory' \in Inventories,
         \A r \in Resource : inventory[r] \subseteq inventory'[r],
         flight' \in [Conn -> {Idle} \cup Flight],
         \A c \in Conn : flight'[c] = flight[c] \/ flight'[c] = Idle
  PROVE  IInv'
<1>1. TypeOK'
  BY DEF TypeOK, Inventories
<1>2. ASSUME NEW c \in Conn, flight'[c] # Idle
      PROVE  Sound(flight[c])'
  <2>1. PICK f \in Flight : f = flight[c] /\ f = flight'[c]
    BY <1>2, FlightNotIdle DEF IInv, TypeOK
  <2>2. Sound(f)
    BY <1>2, <2>1 DEF IInv
  <2>3. Sound(f)'
    BY <2>2, SoundKept DEF IInv, TypeOK, Inventories
  <2> QED
    BY <2>1, <2>3
<1> QED
  BY <1>1, <1>2 DEF IInv

\* A step of one request that leaves the inventory as it is.
LEMMA FlightKeepsIInv ==
  ASSUME IInv, NEW c \in Conn, NEW f \in Flight, Sound(f),
         inventory' = inventory, flight' = [flight EXCEPT ![c] = f]
  PROVE  IInv'
<1>1. TypeOK'
  BY DEF IInv, TypeOK
<1>2. ASSUME NEW d \in Conn, flight'[d] # Idle
      PROVE  Sound(flight[d])'
  <2>1. PICK g \in Flight : g = flight'[d]
    BY <1>1, <1>2, FlightNotIdle DEF TypeOK
  <2>2. Sound(g)
    BY <1>2, <2>1 DEF IInv, TypeOK
  <2>3. Sound(g)'
    BY <2>2 DEF Sound
  <2> QED
    BY <2>1, <2>3
<1> QED
  BY <1>1, <1>2 DEF IInv

\* Init and every step keep the invariant.
LEMMA InitIInv == Init => IInv
BY DEF Init, IInv, TypeOK

LEMMA NextIInv == IInv /\ [Next]_vars => IInv'
<1> SUFFICES ASSUME IInv, [Next]_vars PROVE IInv'
  OBVIOUS
<1>1. ASSUME NEW c \in Conn, NEW payload \in Payloads,
             NEW posture \in Postures, Accept(c, payload, posture)
      PROVE  IInv'
  <2>1. payload \in Payload /\ posture \in SurfacePosture
    BY ResolutionAssumption DEF SurfacePosture
  <2>2. PICK f : f = flight'[c]
    OBVIOUS
  <2>3. /\ inventory' = inventory
        /\ flight' = [flight EXCEPT ![c] = f]
        /\ f \in Flight
        /\ Sound(f)
    BY <1>1, <2>1, <2>2, AcceptSound DEF IInv
  <2> QED
    BY <2>3, FlightKeepsIInv
<1>2. ASSUME NEW c \in Conn, NEW matched \in BOOLEAN, ApplyOverlay(c, matched)
      PROVE  IInv'
  <2>1. PICK f \in Flight : f = flight[c]
    BY <1>2, FlightNotIdle DEF ApplyOverlay, IInv, TypeOK
  <2> DEFINE g == [f EXCEPT !.phase = "fallback", !.synthetic = matched]
  <2>2. Sound(f)
    BY <2>1, FlightNotIdle DEF IInv
  <2>3. g \in Flight
    BY DEF Flight
  <2>4. flight' = [flight EXCEPT ![c] = g] /\ inventory' = inventory
    BY <1>2, <2>1 DEF ApplyOverlay, IInv, TypeOK
  <2>5. /\ g.phase = "fallback" /\ g.synthetic = matched
        /\ g.asked = f.asked /\ g.posture = f.posture /\ g.riskTags = f.riskTags
        /\ g.decision = f.decision /\ g.trust = f.trust
        /\ g.fallback = f.fallback
    BY DEF Flight
  <2>6. matched => f.trust \in ELIGIBLE_OVERLAY_STATES
    BY <1>2, <2>1 DEF ApplyOverlay
  <2> HIDE DEF g
  <2>7. Sound(g)
    BY <2>2, <2>5, <2>6 DEF Sound
  <2> QED
    BY <2>3, <2>4, <2>7, FlightKeepsIInv
<1>3. ASSUME NEW c \in Conn, NEW matched \in BOOLEAN, CallFallback(c, matched)
      PROVE  IInv'
  <2>1. PICK f \in Flight : f = flight[c]
    BY <1>3, FlightNotIdle DEF CallFallback, IInv, TypeOK
  <2>2. Sound(f)
    BY <2>1, FlightNotIdle DEF IInv
  <2>3. PICK source \in Source : source = SourceOf(f, matched)
    BY SourceTyped
  <2> DEFINE g == [f EXCEPT !.phase = "answer", !.reached = f.fallback,
                            !.source = source]
  <2>4. g \in Flight
    BY DEF Flight
  <2>5. flight' = [flight EXCEPT ![c] = g] /\ inventory' = inventory
    BY <1>3, <2>1, <2>3 DEF CallFallback, IInv, TypeOK
  <2>6. /\ g.phase = "answer" /\ g.reached = f.fallback /\ g.source = source
        /\ g.asked = f.asked /\ g.posture = f.posture /\ g.riskTags = f.riskTags
        /\ g.decision = f.decision /\ g.trust = f.trust
        /\ g.fallback = f.fallback /\ g.synthetic = f.synthetic
    BY DEF Flight
  <2>7. matched => f.fallback
    BY <1>3, <2>1 DEF CallFallback
  <2> HIDE DEF g
  <2>8. SourceOf(g, matched) = source
    BY <2>3, <2>6 DEF SourceOf
  <2>9. Sound(g)
    BY <2>2, <2>6, <2>7, <2>8 DEF Sound
  <2> QED
    BY <2>4, <2>5, <2>9, FlightKeepsIInv
<1>4. ASSUME NEW c \in Conn, Answer(c)
      PROVE  IInv'
  <2>1. PICK f \in Flight : f = flight[c]
    BY <1>4, FlightNotIdle DEF Answer, IInv, TypeOK
  <2>2. f.asked.resource \in Resource /\ f.riskTags \in SUBSET RiskTag
    BY DEF Flight, Payload
  <2>3. upsertProfile(f.asked.resource, f.riskTags)
    BY <1>4, <2>1 DEF Answer
  <2>4. /\ inventory' \in Inventories
        /\ \A r \in Resource : inventory[r] \subseteq inventory'[r]
    BY <2>2, <2>3, UpsertGrows DEF IInv
  <2>5. flight' = [flight EXCEPT ![c] = Idle]
    BY <1>4 DEF Answer
  <2>6. /\ flight' \in [Conn -> {Idle} \cup Flight]
        /\ \A d \in Conn : flight'[d] = flight[d] \/ flight'[d] = Idle
    BY <2>5 DEF IInv, TypeOK
  <2> QED
    BY <2>4, <2>6, LearningKeepsIInv
<1>5. ASSUME NEW c \in Conn, Fail(c)
      PROVE  IInv'
  <2>1. /\ inventory' = inventory
        /\ flight' = [flight EXCEPT ![c] = Idle]
    BY <1>5 DEF Fail
  <2>2. /\ flight' \in [Conn -> {Idle} \cup Flight]
        /\ \A d \in Conn : flight'[d] = flight[d] \/ flight'[d] = Idle
    BY <2>1 DEF IInv, TypeOK
  <2> QED
    BY <2>1, <2>2, LearningKeepsIInv DEF IInv, TypeOK, Inventories
<1>6. ASSUME NEW resource \in Resource, NEW riskTags \in EventTags,
             ObserveRuntimeEvent(resource, riskTags)
      PROVE  IInv'
  <2>1. riskTags \in SUBSET RiskTag
    BY ResolutionAssumption
  <2>2. /\ inventory' \in Inventories
        /\ \A r \in Resource : inventory[r] \subseteq inventory'[r]
    BY <1>6, <2>1, UpsertGrows DEF ObserveRuntimeEvent, IInv
  <2> QED
    BY <1>6, <2>2, LearningKeepsIInv DEF ObserveRuntimeEvent, IInv, TypeOK
<1>7. CASE UNCHANGED vars
  BY <1>7, LearningKeepsIInv DEF vars, IInv, TypeOK, Inventories
<1> QED
  BY <1>1, <1>2, <1>3, <1>4, <1>5, <1>6, <1>7 DEF Next, Resolve

\* The invariant holds in every reachable state.
THEOREM SurfaceInvariance == Spec => []IInv
<1> QED
  BY InitIInv, NextIInv, PTL DEF Spec

\* Type correctness.
THEOREM SurfaceTypeCorrect == Spec => []TypeOK
<1>1. IInv => TypeOK
  BY DEF IInv
<1> QED
  BY <1>1, SurfaceInvariance, PTL
-----------------------------------------------------------------------------
(***************************************************************************)
(* Containment.                                                             *)
(***************************************************************************)

\* The envelope of a sealed surface: nobody is known and every access is an
\* extreme anomaly.
LEMMA SealedEnvelope ==
  ASSUME NEW payload \in Payload
  PROVE  Enveloped(payload, "sealed").anomalyScore >= 98
<1>1. "sealed" # Undefined /\ "sealed" \in SidecarSessionPosture
  BY DEF Undefined, SidecarSessionPosture
<1>2. resolvePostureAnomalyFloor("sealed", payload.action) = 98
  BY DEF resolvePostureAnomalyFloor
<1> QED
  BY <1>1, <1>2 DEF Enveloped, applySessionEnvelope, Payload

LEMMA SealedRefuses ==
  ASSUME NEW payload \in Payload, NEW riskTags \in SUBSET RiskTag
  PROVE  LET decision == effectiveDecision(Enveloped(payload, "sealed"), riskTags)
         IN  decision \in BLOCKING_DECISIONS /\ DECISION_ORDER[decision] = 6
<1> DEFINE request == Enveloped(payload, "sealed")
<1>1. request \in Payload
  BY EnvelopedTyped DEF SurfacePosture, SidecarSessionPosture
<1>2. request.anomalyScore >= 98 /\ request.anomalyScore \in 0 .. 100
  BY <1>1, SealedEnvelope DEF Payload
<1> HIDE DEF request
<1>3. GatekeeperPart(request, riskTags) = "BLOCK"
  BY <1>2 DEF GatekeeperPart, gatekeeperDecision
<1>4. \A left \in AccessDecisions :
        moreRestrictiveDecision(left, "BLOCK") = "BLOCK"
  BY DEF moreRestrictiveDecision, DECISION_ORDER, AccessDecisions
<1>5. effectiveDecision(request, riskTags) = "BLOCK"
  BY <1>1, <1>3, <1>4, DecisionParts
<1> QED
  BY <1>5 DEF request, BLOCKING_DECISIONS, DECISION_ORDER, AccessDecisions

\* A session whose surface is sealed obtains nothing real.
THEOREM SealedContainment == Spec => []SealedIsContained
<1>1. IInv => SealedIsContained
  <2> SUFFICES ASSUME IInv, NEW c \in Conn, Answered(c),
                      flight[c].posture = "sealed"
               PROVE  Withheld(flight[c])
    BY DEF SealedIsContained
  <2>1. PICK f \in Flight : f = flight[c]
    BY FlightNotIdle DEF Answered, IInv, TypeOK
  <2>2. f.phase = "answer" /\ f.posture = "sealed" /\ Sound(f)
    BY <2>1, FlightNotIdle DEF Answered, IInv
  <2>3. f.asked \in Payload /\ f.riskTags \in SUBSET RiskTag
    BY DEF Flight
  <2>4. f.decision \in BLOCKING_DECISIONS
    BY <2>2, <2>3, SealedRefuses DEF Sound
  <2>5. ~ f.fallback
    BY <2>2 DEF Sound, MayUseReal, RealFallbackAllowed, Undefined
  <2> QED
    BY <2>1, <2>2, <2>4, <2>5 DEF Sound, SourceOf, Withheld
<1> QED
  BY <1>1, SurfaceInvariance, PTL

\* The envelope of a restricted surface.
LEMMA RestrictedEnvelope ==
  ASSUME NEW payload \in Payload
  PROVE  LET request == Enveloped(payload, "restricted") IN
         /\ request.zoneLevel \in {"RESTRICTED", "SEALED"}
         /\ request.zoneLevel = "SEALED" <=> payload.zoneLevel = "SEALED"
         /\ request.anomalyScore >= 72
         /\ request.anomalyScore >= payload.anomalyScore
         /\ request.isKnownActor \in {"known", "unknown"}
         /\ request.isKnownActor = "known" => payload.isKnownActor = "known"
<1>1. "restricted" # Undefined /\ "restricted" \in SidecarSessionPosture
  BY DEF Undefined, SidecarSessionPosture
<1>2. postureToZoneLevel["restricted"] = "RESTRICTED"
  BY <1>1 DEF postureToZoneLevel
<1>3. moreRestrictiveZoneLevel(payload.zoneLevel, "RESTRICTED") =
        IF payload.zoneLevel = "SEALED" THEN "SEALED" ELSE "RESTRICTED"
  BY DEF moreRestrictiveZoneLevel, SealRank, SealLevel, Payload, Undefined
<1>4. resolvePostureAnomalyFloor("restricted", payload.action) \in 72 .. 92
  BY DEF resolvePostureAnomalyFloor
<1>5. /\ resolveKnownActorForPosture(payload.isKnownActor, "restricted",
                                     payload.action) \in {"known", "unknown"}
      /\ resolveKnownActorForPosture(payload.isKnownActor, "restricted",
                                     payload.action) = "known"
           => payload.isKnownActor = "known"
  BY DEF resolveKnownActorForPosture, Payload, Undefined
<1>6. payload.anomalyScore \in 0 .. 100
  BY DEF Payload
<1> QED
  BY <1>1, <1>2, <1>3, <1>4, <1>5, <1>6
     DEF Enveloped, applySessionEnvelope, Payload

LEMMA RestrictedRefuses ==
  ASSUME NEW payload \in Payload, NEW riskTags \in SUBSET RiskTag,
         payload.isKnownActor # "known"
  PROVE  effectiveDecision(Enveloped(payload, "restricted"), riskTags)
           \in BLOCKING_DECISIONS
<1> DEFINE request == Enveloped(payload, "restricted")
<1>1. request \in Payload
  BY EnvelopedTyped DEF SurfacePosture, SidecarSessionPosture
<1>2. /\ request.zoneLevel \in {"RESTRICTED", "SEALED"}
      /\ request.isKnownActor = "unknown"
      /\ request.anomalyScore \in 0 .. 100
  BY <1>1, RestrictedEnvelope DEF Payload
<1> HIDE DEF request
<1>3. ~ IsKnown(request) /\ IsKnown(request) \in BOOLEAN
  BY <1>2 DEF IsKnown, Undefined
<1>4. ZoneOf(request, riskTags) = request.zoneLevel
  BY <1>2 DEF ZoneOf, Undefined
<1>5. IsSensitive(request.zoneLevel, riskTags) \in BOOLEAN
  BY DEF IsSensitive
<1>6. GatekeeperPart(request, riskTags) \in BLOCKING_DECISIONS
  <2>1. CASE request.zoneLevel = "RESTRICTED"
    BY <1>2, <1>3, <1>4, <1>5, <2>1, RestrictedRefusesUnknown DEF GatekeeperPart
  <2>2. CASE request.zoneLevel = "SEALED"
    BY <1>3, <1>4, <2>2
       DEF GatekeeperPart, gatekeeperDecision, BLOCKING_DECISIONS
  <2> QED
    BY <1>2, <2>1, <2>2
<1> QED
  BY <1>1, <1>6, DecisionParts DEF request

\* A session whose surface is restricted obtains nothing real but the answer
\* to a safe HTTP method, unless the client claims to be known.
THEOREM RestrictedContainment == Spec => []RestrictedIsContained
<1>1. IInv => RestrictedIsContained
  <2> SUFFICES ASSUME IInv, NEW c \in Conn, Answered(c),
                      flight[c].posture = "restricted",
                      flight[c].asked.isKnownActor # "known"
               PROVE  \/ Withheld(flight[c])
                      \/ flight[c].asked.action \in SafeMethod /\ flight[c].reached
    BY DEF RestrictedIsContained
  <2>1. PICK f \in Flight : f = flight[c]
    BY FlightNotIdle DEF Answered, IInv, TypeOK
  <2>2. f.phase = "answer" /\ f.posture = "restricted" /\ Sound(f)
    BY <2>1, FlightNotIdle DEF Answered, IInv
  <2>3. /\ f.asked \in Payload /\ f.riskTags \in SUBSET RiskTag
        /\ f.reached \in BOOLEAN /\ f.fallback \in BOOLEAN
    BY DEF Flight
  <2>4. f.decision \in BLOCKING_DECISIONS
    BY <2>1, <2>2, <2>3, RestrictedRefuses DEF Sound
  <2>5. f.fallback => f.asked.action \in SafeMethod
    BY <2>2 DEF Sound, MayUseReal, RealFallbackAllowed, Undefined
  <2>6. CASE f.fallback
    BY <2>1, <2>2, <2>5, <2>6 DEF Sound
  <2>7. CASE ~ f.fallback
    BY <2>1, <2>2, <2>4, <2>7 DEF Sound, SourceOf, Withheld
  <2> QED
    BY <2>3, <2>6, <2>7
<1> QED
  BY <1>1, SurfaceInvariance, PTL

\* Confined sessions obtain nothing that their postures withhold.
THEOREM ConfinedContainment == Spec => []ConfinedIsContained
<1>1. SealedIsContained /\ RestrictedIsContained => ConfinedIsContained
  BY DEF ConfinedIsContained
<1> QED
  BY <1>1, SealedContainment, RestrictedContainment, PTL

\* A refusal does not go out of date while the request is in flight.
THEOREM RefusalsStand == Spec => []RefusalsLast
<1>1. IInv => RefusalsLast
  <2> SUFFICES ASSUME IInv, NEW c \in Conn, flight[c] # Idle,
                      flight[c].decision \in BLOCKING_DECISIONS,
                      ~ SealedByNameAlone(Enveloped(flight[c].asked,
                                                    flight[c].posture))
               PROVE  StillRefused(flight[c])
    BY DEF RefusalsLast
  <2>1. PICK f \in Flight : f = flight[c]
    BY FlightNotIdle DEF IInv, TypeOK
  <2>2. Sound(f)
    BY <2>1 DEF IInv
  <2>3. /\ f.asked \in Payload /\ f.riskTags \in SUBSET RiskTag
        /\ f.posture \in SurfacePosture
    BY DEF Flight, SurfacePosture
  <2>4. Enveloped(f.asked, f.posture) \in Payload
    BY <2>3, EnvelopedTyped
  <2>5. TagsOf(f.asked, inventory) \in SUBSET RiskTag
    BY <2>3, TagsTyped DEF IInv, TypeOK, Inventories
  <2>6. effectiveDecision(Enveloped(f.asked, f.posture),
                          TagsOf(f.asked, inventory)) \in BLOCKING_DECISIONS
    BY <2>1, <2>2, <2>3, <2>4, <2>5, RefusedAgain DEF Sound
  <2> QED
    BY <2>1, <2>6 DEF StillRefused, DecisionFor
<1> QED
  BY <1>1, SurfaceInvariance, PTL

\* A trusted actor whose access is only logged stays on the real surface.
THEOREM TrustedStayReal == Spec => []TrustedSeeReality
<1>1. IInv => TrustedSeeReality
  <2> SUFFICES ASSUME IInv, NEW c \in Conn, Answered(c),
                      flight[c].source \in {"synthetic", "mixed"},
                      BaseTrust(Enveloped(flight[c].asked,
                                          flight[c].posture)) = "trusted"
               PROVE  flight[c].decision \notin {"ALLOW", "ALLOW_WITH_LOGGING"}
    BY DEF TrustedSeeReality
  <2>1. PICK f \in Flight : f = flight[c]
    BY FlightNotIdle DEF Answered, IInv, TypeOK
  <2>2. f.phase = "answer" /\ Sound(f)
    BY <2>1, FlightNotIdle DEF Answered, IInv
  <2>3. f.synthetic
    BY <2>1, <2>2 DEF Sound, SourceOf
  <2>4. deriveTrustState("trusted", f.decision) \in ELIGIBLE_OVERLAY_STATES
    BY <2>1, <2>2, <2>3 DEF Sound, trustAfter
  <2>5. \A d \in {"ALLOW", "ALLOW_WITH_LOGGING"} :
          deriveTrustState("trusted", d) = "trusted"
    BY DEF deriveTrustState
  <2> QED
    BY <2>1, <2>4, <2>5 DEF ELIGIBLE_OVERLAY_STATES
<1> QED
  BY <1>1, SurfaceInvariance, PTL
-----------------------------------------------------------------------------
(***************************************************************************)
(* A stricter posture never gets a laxer decision, but for a zone lost.     *)
(***************************************************************************)

\* The envelopes of the postures that leave a surface open.
LEMMA OpenEnvelope ==
  ASSUME NEW payload \in Payload,
         NEW posture \in {"normal", "guarded", "restricted"}
  PROVE  LET request == Enveloped(payload, posture) IN
         /\ request.zoneLevel = moreRestrictiveZoneLevel(
                                  payload.zoneLevel, postureToZoneLevel[posture])
         /\ request.anomalyScore =
              IF payload.anomalyScore
                   >= resolvePostureAnomalyFloor(posture, payload.action)
              THEN payload.anomalyScore
              ELSE resolvePostureAnomalyFloor(posture, payload.action)
         /\ request.isKnownActor = resolveKnownActorForPosture(
                                     payload.isKnownActor, posture, payload.action)
         /\ request.resource = payload.resource
         /\ request.action = payload.action
         /\ request.actor = payload.actor
<1>1. posture # Undefined
  BY DEF Undefined
<1> QED
  BY <1>1 DEF Enveloped, applySessionEnvelope, Payload

\* What these postures ask for: a zone, a floor of the anomaly score, and who
\* is taken for known.
LEMMA PostureAsks ==
  /\ postureToZoneLevel["normal"] = Undefined
  /\ postureToZoneLevel["guarded"] = "OBSERVED"
  /\ postureToZoneLevel["restricted"] = "RESTRICTED"
  /\ \A action \in Action :
       /\ resolvePostureAnomalyFloor("normal", action) = 0
       /\ resolvePostureAnomalyFloor("guarded", action) = 45
       /\ resolvePostureAnomalyFloor("restricted", action) \in 72 .. 92
  /\ \A current \in {"known", "unknown", Undefined}, action \in Action :
       /\ resolveKnownActorForPosture(current, "normal", action)
            = IF current # Undefined THEN current ELSE "known"
       /\ resolveKnownActorForPosture(current, "guarded", action)
            = IF current # Undefined THEN current ELSE "known"
       /\ resolveKnownActorForPosture(current, "restricted", action)
            \in {"known", "unknown"}
       /\ resolveKnownActorForPosture(current, "restricted", action) = "known"
            => current = "known"
<1>1. {"normal", "guarded", "restricted"} \subseteq SidecarSessionPosture
  BY DEF SidecarSessionPosture
<1> QED
  BY <1>1 DEF postureToZoneLevel, resolvePostureAnomalyFloor,
              resolveKnownActorForPosture, Undefined

\* Scores and acquaintance: under the stricter posture an actor is not known
\* any better, and its access is no less of an anomaly.
LEMMA StricterEnvelope ==
  ASSUME NEW payload \in Payload,
         NEW weaker \in {"normal", "guarded", "restricted"},
         NEW posture \in {"guarded", "restricted"},
         AtLeastAsStrict(posture, weaker)
  PROVE  LET before == Enveloped(payload, weaker)
             now == Enveloped(payload, posture) IN
         /\ before.anomalyScore \in 0 .. 100
         /\ now.anomalyScore \in 45 .. 100
         /\ posture = "restricted" => now.anomalyScore >= 72
         /\ before.anomalyScore <= now.anomalyScore
         /\ before.isKnownActor \in {"known", "unknown"}
         /\ now.isKnownActor \in {"known", "unknown"}
         /\ now.isKnownActor = "known" => before.isKnownActor = "known"
<1>1. /\ payload.anomalyScore \in 0 .. 100
      /\ payload.isKnownActor \in {"known", "unknown", Undefined}
      /\ payload.action \in Action
  BY DEF Payload
<1>2. \/ weaker = "normal" \/ weaker = posture
      \/ weaker = "guarded" /\ posture = "restricted"
  BY DEF AtLeastAsStrict, Strictness, SidecarSessionPosture
<1>3. /\ Enveloped(payload, weaker).anomalyScore \in 0 .. 100
      /\ Enveloped(payload, posture).anomalyScore \in 0 .. 100
  BY EnvelopedTyped DEF SurfacePosture, SidecarSessionPosture, Payload
<1> DEFINE before == Enveloped(payload, weaker)
           now == Enveloped(payload, posture)
<1>4. /\ now.anomalyScore >= 45
      /\ posture = "restricted" => now.anomalyScore >= 72
      /\ before.anomalyScore <= now.anomalyScore
  BY <1>1, <1>2, OpenEnvelope, PostureAsks
<1>5. /\ before.isKnownActor \in {"known", "unknown"}
      /\ now.isKnownActor \in {"known", "unknown"}
      /\ now.isKnownActor = "known" => before.isKnownActor = "known"
  BY <1>1, <1>2, OpenEnvelope, PostureAsks
<1> QED
  BY <1>3, <1>4, <1>5

\* Zones: unless a stricter inferred one is lost, the zone is as strict as it
\* was, and sealed only if it was sealed.
LEMMA StricterZone ==
  ASSUME NEW payload \in Payload, NEW riskTags \in SUBSET RiskTag,
         NEW weaker \in {"normal", "guarded", "restricted"},
         NEW posture \in {"guarded", "restricted"},
         AtLeastAsStrict(posture, weaker)
  PROVE  LET before == ZoneOf(Enveloped(payload, weaker), riskTags)
             now == ZoneOf(Enveloped(payload, posture), riskTags)
             inferred == inferZoneLevel(payload.resource, riskTags)
             lost == /\ weaker = "normal"
                     /\ payload.zoneLevel = Undefined
                     /\ SealRank[inferred] > SealRank[postureToZoneLevel[posture]]
         IN
         /\ before \in SealLevel
         /\ now \in {"OBSERVED", "RESTRICTED", "SEALED"}
         /\ posture = "restricted" => now # "OBSERVED"
         /\ ~ lost => /\ before = "SEALED" <=> now = "SEALED"
                      /\ now = "OBSERVED" => before \in {"OPEN", "OBSERVED"}
                      /\ now = "RESTRICTED" /\ before # "RESTRICTED" =>
                           posture = "restricted"
         /\ now = "SEALED" => payload.zoneLevel = "SEALED"
<1> DEFINE inferred == inferZoneLevel(payload.resource, riskTags)
<1>1. /\ payload.zoneLevel \in SealLevel \cup {Undefined}
      /\ inferred \in {"OBSERVED", "RESTRICTED", "SEALED"}
  BY DecisionAssumption DEF Payload, inferZoneLevel
<1>2. \/ weaker = "normal" \/ weaker = posture
      \/ weaker = "guarded" /\ posture = "restricted"
  BY DEF AtLeastAsStrict, Strictness, SidecarSessionPosture
<1>3. \A p \in {"normal", "guarded", "restricted"} :
        /\ Enveloped(payload, p).zoneLevel
             = moreRestrictiveZoneLevel(payload.zoneLevel, postureToZoneLevel[p])
        /\ Enveloped(payload, p).resource = payload.resource
  BY OpenEnvelope
<1> HIDE DEF inferred
<1>4. ZoneOf(Enveloped(payload, "normal"), riskTags)
        = IF payload.zoneLevel # Undefined THEN payload.zoneLevel ELSE inferred
  BY <1>1, <1>3, PostureAsks DEF ZoneOf, moreRestrictiveZoneLevel, inferred
<1>5. ZoneOf(Enveloped(payload, "guarded"), riskTags)
        = IF payload.zoneLevel \in {"RESTRICTED", "SEALED"}
          THEN payload.zoneLevel ELSE "OBSERVED"
  BY <1>1, <1>3, PostureAsks
     DEF ZoneOf, moreRestrictiveZoneLevel, SealRank, SealLevel, Undefined
<1>6. ZoneOf(Enveloped(payload, "restricted"), riskTags)
        = IF payload.zoneLevel = "SEALED" THEN "SEALED" ELSE "RESTRICTED"
  BY <1>1, <1>3, PostureAsks
     DEF ZoneOf, moreRestrictiveZoneLevel, SealRank, SealLevel, Undefined
<1>7. CASE posture = "guarded"
  BY <1>1, <1>2, <1>4, <1>5, <1>7, PostureAsks
     DEF SealRank, SealLevel, Undefined, inferred
<1>8. CASE posture = "restricted"
  BY <1>1, <1>2, <1>4, <1>5, <1>6, <1>8, PostureAsks
     DEF SealRank, SealLevel, Undefined, inferred
<1> QED
  BY <1>7, <1>8

\* Both parts of the decision are monotone.
LEMMA PolicyTightens ==
  ASSUME NEW resource, NEW actor, NEW action,
         NEW weak \in BOOLEAN, NEW strict \in BOOLEAN, weak => strict
  PROVE  DECISION_ORDER[policyDecision(resource, actor, action, weak)]
           <= DECISION_ORDER[policyDecision(resource, actor, action, strict)]
<1>1. DECISION_ORDER[resolveDefaultDecision(action, weak)]
        <= DECISION_ORDER[resolveDefaultDecision(action, strict)]
  BY DEF resolveDefaultDecision, DECISION_ORDER, AccessDecisions
<1>2. CASE FirstRules(resource, actor) = {}
  BY <1>1, <1>2 DEF policyDecision
<1>3. CASE FirstRules(resource, actor) # {}
  <2>1. policyDecision(resource, actor, action, weak)
          = policyDecision(resource, actor, action, strict)
    BY <1>3 DEF policyDecision
  <2>2. \A d \in AccessDecisions : DECISION_ORDER[d] \in Nat
    BY DEF DECISION_ORDER, AccessDecisions
  <2> QED
    BY <2>1, <2>2, PolicyTyped
<1> QED
  BY <1>2, <1>3

LEMMA GatekeeperTightens ==
  ASSUME NEW zone \in SealLevel,
         NEW later \in {"OBSERVED", "RESTRICTED", "SEALED"},
         zone = "SEALED" <=> later = "SEALED",
         later = "OBSERVED" => zone \in {"OPEN", "OBSERVED"},
         NEW known \in BOOLEAN, NEW knownLater \in BOOLEAN,
         knownLater => known,
         NEW score \in 0 .. 100, NEW scoreLater \in 45 .. 100,
         score <= scoreLater,
         later = "RESTRICTED" /\ zone # "RESTRICTED" => scoreLater >= 72,
         NEW action,
         NEW sensitive \in BOOLEAN, NEW sensitiveLater \in BOOLEAN,
         sensitive => sensitiveLater,
         zone = "SEALED" => sensitive
  PROVE  DECISION_ORDER[gatekeeperDecision(zone, known, score, action, sensitive)]
           <= DECISION_ORDER[gatekeeperDecision(later, knownLater, scoreLater,
                                                action, sensitiveLater)]
<1> DEFINE weak == gatekeeperDecision(zone, known, score, action, sensitive)
           strict == gatekeeperDecision(later, knownLater, scoreLater, action,
                                        sensitiveLater)
<1>0. weak \in AccessDecisions /\ strict \in AccessDecisions
  <2>1. scoreLater \in 0 .. 100
    OBVIOUS
  <2>2. weak \in AccessDecisions
    BY GatekeeperTyped
  <2>3. strict \in AccessDecisions
    BY <2>1, GatekeeperTyped
  <2> QED
    BY <2>2, <2>3
<1> USE DEF gatekeeperDecision, Denies, Constrains
<1>1. CASE scoreLater >= 95
  <2>1. strict = "BLOCK"
    BY <1>1
  <2> HIDE DEF weak, strict
  <2> QED
    BY <1>0, <2>1 DEF DECISION_ORDER, AccessDecisions
<1>2. CASE scoreLater < 95 /\ later = "SEALED"
  <2>1. CASE ~ knownLater
    <3>1. strict = "BLOCK"
      BY <1>2, <2>1
    <3> HIDE DEF weak, strict
    <3> QED
      BY <1>0, <3>1 DEF DECISION_ORDER, AccessDecisions
  <2>2. CASE knownLater
    <3>1. \/ strict = "BLOCK"
          \/ strict = "QUARANTINE" /\ weak \in AccessDecisions \ {"BLOCK"}
          \/ strict = "ALLOW_WITH_LOGGING" /\ weak \in {"ALLOW_WITH_LOGGING", "ALLOW"}
          \/ strict = "ALLOW" /\ weak = "ALLOW"
      BY <1>2, <2>2 DEF AccessDecisions
    <3> HIDE DEF weak, strict
    <3> QED
      BY <1>0, <3>1 DEF DECISION_ORDER, AccessDecisions
  <2> QED
    BY <2>1, <2>2
<1>3. CASE scoreLater < 95 /\ later = "RESTRICTED"
  <2>1. \/ /\ strict = "REQUIRE_APPROVAL"
           /\ weak \in AccessDecisions \ {"BLOCK", "QUARANTINE"}
        \/ /\ strict = "ALLOW_READ_ONLY"
           /\ weak \in {"ALLOW_READ_ONLY", "ALLOW_WITH_LOGGING", "ALLOW"}
        \/ /\ strict = "ALLOW_WITH_LOGGING"
           /\ weak \in {"ALLOW_WITH_LOGGING", "ALLOW"}
        \/ strict = "ALLOW" /\ weak = "ALLOW"
    BY <1>3 DEF AccessDecisions, SealLevel
  <2> HIDE DEF weak, strict
  <2> QED
    BY <2>1 DEF DECISION_ORDER, AccessDecisions
<1>4. CASE scoreLater < 95 /\ later = "OBSERVED"
  <2>1. /\ strict = "ALLOW_WITH_LOGGING"
        /\ weak \in {"ALLOW_WITH_LOGGING", "ALLOW"}
    BY <1>4
  <2> HIDE DEF weak, strict
  <2> QED
    BY <2>1 DEF DECISION_ORDER, AccessDecisions
<1>5. \/ scoreLater >= 95
      \/ scoreLater < 95
  OBVIOUS
<1> HIDE DEF gatekeeperDecision
<1> QED
  BY <1>1, <1>2, <1>3, <1>4, <1>5

\* The combination of two parts is monotone in both.
LEMMA PartsTighten ==
  ASSUME NEW p \in AccessDecisions, NEW q \in AccessDecisions,
         NEW r \in AccessDecisions, NEW s \in AccessDecisions,
         DECISION_ORDER[p] <= DECISION_ORDER[q],
         DECISION_ORDER[r] <= DECISION_ORDER[s]
  PROVE  DECISION_ORDER[moreRestrictiveDecision(p, r)]
           <= DECISION_ORDER[moreRestrictiveDecision(q, s)]
<1>1. \A d \in AccessDecisions : DECISION_ORDER[d] \in Nat
  BY DEF DECISION_ORDER, AccessDecisions
<1> QED
  BY <1>1 DEF moreRestrictiveDecision

\* The same request at the same moment, under two postures of which the
\* stricter one does not lose a zone: it is decided at least as strictly.
LEMMA StricterTightens ==
  ASSUME NEW payload \in Payload, NEW riskTags \in SUBSET RiskTag,
         NEW weaker \in {"normal", "guarded", "restricted"},
         NEW posture \in {"guarded", "restricted"},
         AtLeastAsStrict(posture, weaker),
         ~ /\ weaker = "normal"
           /\ payload.zoneLevel = Undefined
           /\ SealRank[inferZoneLevel(payload.resource, riskTags)]
                > SealRank[postureToZoneLevel[posture]]
  PROVE  DECISION_ORDER[effectiveDecision(Enveloped(payload, weaker), riskTags)]
           <= DECISION_ORDER[effectiveDecision(Enveloped(payload, posture),
                                               riskTags)]
<1> DEFINE before == Enveloped(payload, weaker)
           now == Enveloped(payload, posture)
           zone == ZoneOf(before, riskTags)
           later == ZoneOf(now, riskTags)
           weak == IsSensitive(zone, riskTags)
           strict == IsSensitive(later, riskTags)
<1>1. /\ before \in Payload
      /\ now \in Payload
      /\ before.resource = now.resource
      /\ before.actor = now.actor
      /\ before.action = now.action
  BY EnvelopedTyped DEF SurfacePosture, SidecarSessionPosture
<1>2. /\ before.anomalyScore \in 0 .. 100
      /\ now.anomalyScore \in 45 .. 100
      /\ posture = "restricted" => now.anomalyScore >= 72
      /\ before.anomalyScore <= now.anomalyScore
      /\ before.isKnownActor \in {"known", "unknown"}
      /\ now.isKnownActor \in {"known", "unknown"}
      /\ now.isKnownActor = "known" => before.isKnownActor = "known"
  BY StricterEnvelope
<1>3. /\ zone \in SealLevel
      /\ later \in {"OBSERVED", "RESTRICTED", "SEALED"}
      /\ zone = "SEALED" <=> later = "SEALED"
      /\ later = "OBSERVED" => zone \in {"OPEN", "OBSERVED"}
      /\ later = "RESTRICTED" /\ zone # "RESTRICTED" => posture = "restricted"
  BY StricterZone
<1> HIDE DEF before, now
<1>4. /\ IsKnown(before) \in BOOLEAN
      /\ IsKnown(now) \in BOOLEAN
      /\ IsKnown(now) => IsKnown(before)
  BY <1>2 DEF IsKnown, Undefined
<1> HIDE DEF zone, later
<1>5. /\ weak \in BOOLEAN
      /\ strict \in BOOLEAN
      /\ weak => strict
      /\ zone = "SEALED" => weak
  BY <1>3 DEF IsSensitive
<1>6. DECISION_ORDER[PolicyPart(before, riskTags)]
        <= DECISION_ORDER[PolicyPart(now, riskTags)]
  BY <1>1, <1>5, PolicyTightens DEF PolicyPart, zone, later
<1>7. DECISION_ORDER[GatekeeperPart(before, riskTags)]
        <= DECISION_ORDER[GatekeeperPart(now, riskTags)]
  <2> DEFINE known == IsKnown(before)
             knownLater == IsKnown(now)
             score == before.anomalyScore
             scoreLater == now.anomalyScore
             action == before.action
  <2>1. /\ known \in BOOLEAN /\ knownLater \in BOOLEAN
        /\ knownLater => known
        /\ score \in 0 .. 100 /\ scoreLater \in 45 .. 100
        /\ score <= scoreLater
        /\ later = "RESTRICTED" /\ zone # "RESTRICTED" => scoreLater >= 72
    BY <1>2, <1>3, <1>4
  <2> HIDE DEF weak, strict, known, knownLater, score, scoreLater, action
  <2>2. DECISION_ORDER[gatekeeperDecision(zone, known, score, action, weak)]
          <= DECISION_ORDER[gatekeeperDecision(later, knownLater, scoreLater,
                                               action, strict)]
    BY <1>3, <1>5, <2>1, GatekeeperTightens, ZenonT(60)
  <2> QED
    BY <1>1, <2>2 DEF GatekeeperPart, weak, strict, zone, later, known,
       knownLater, score, scoreLater, action
<1>8. /\ PolicyPart(before, riskTags) \in AccessDecisions
      /\ PolicyPart(now, riskTags) \in AccessDecisions
      /\ GatekeeperPart(before, riskTags) \in AccessDecisions
      /\ GatekeeperPart(now, riskTags) \in AccessDecisions
      /\ effectiveDecision(before, riskTags) =
           moreRestrictiveDecision(PolicyPart(before, riskTags),
                                   GatekeeperPart(before, riskTags))
      /\ effectiveDecision(now, riskTags) =
           moreRestrictiveDecision(PolicyPart(now, riskTags),
                                   GatekeeperPart(now, riskTags))
  BY <1>1, DecisionParts
<1>9. DECISION_ORDER[effectiveDecision(before, riskTags)]
        <= DECISION_ORDER[effectiveDecision(now, riskTags)]
  BY <1>6, <1>7, <1>8, PartsTighten
<1> QED
  BY <1>9 DEF before, now

\* A surface that is not normal logs at least, whatever zone it has replaced.
LEMMA ElevatedIsLogged ==
  ASSUME NEW payload \in Payload, NEW riskTags \in SUBSET RiskTag,
         NEW posture \in {"guarded", "restricted"},
         payload.zoneLevel = Undefined
  PROVE  effectiveDecision(Enveloped(payload, posture), riskTags) # "ALLOW"
<1> DEFINE now == Enveloped(payload, posture)
           zone == ZoneOf(now, riskTags)
<1>1. now \in Payload
  BY EnvelopedTyped DEF SurfacePosture, SidecarSessionPosture
<1>2. AtLeastAsStrict(posture, posture)
  BY DEF AtLeastAsStrict, Strictness, SidecarSessionPosture
<1>3. /\ now.anomalyScore \in 45 .. 100
      /\ posture = "restricted" => now.anomalyScore >= 72
      /\ zone \in {"OBSERVED", "RESTRICTED"}
      /\ zone = "RESTRICTED" => posture = "restricted"
  <2>1. zone \in {"OBSERVED", "RESTRICTED", "SEALED"} /\ zone # "SEALED"
    BY <1>2, StricterZone DEF Undefined
  <2>2. /\ now.anomalyScore \in 45 .. 100
        /\ posture = "restricted" => now.anomalyScore >= 72
    BY <1>2, StricterEnvelope
  <2>3. CASE posture = "guarded"
    <3>1. now.zoneLevel = "OBSERVED"
      BY <2>3, OpenEnvelope, PostureAsks DEF moreRestrictiveZoneLevel, Undefined
    <3> QED
      BY <2>1, <2>2, <2>3, <3>1 DEF ZoneOf, Undefined
  <2> QED
    BY <2>1, <2>2, <2>3
<1> HIDE DEF now, zone
<1>4. GatekeeperPart(now, riskTags) # "ALLOW"
  BY <1>3 DEF GatekeeperPart, gatekeeperDecision, Denies, Constrains, zone
<1>5. \A left, right \in AccessDecisions :
        right # "ALLOW" => moreRestrictiveDecision(left, right) # "ALLOW"
  BY DEF moreRestrictiveDecision, DECISION_ORDER, AccessDecisions
<1>6. effectiveDecision(now, riskTags) # "ALLOW"
  BY <1>1, <1>4, <1>5, DecisionParts
<1> QED
  BY <1>6 DEF now

\* A stricter posture never gets a laxer decision for the same request, from
\* the normal posture on, unless its envelope loses a stricter zone that would
\* have been inferred; and such an access is logged.
THEOREM PosturesTighten == Spec => []QuarantineTightens
<1>1. IInv => QuarantineTightens
  <2> SUFFICES ASSUME IInv, NEW c \in Conn, NEW weaker \in SidecarSessionPosture,
                      flight[c].phase = "overlay",
                      flight[c].posture # Undefined,
                      AtLeastAsStrict(flight[c].posture, weaker)
               PROVE  \/ DECISION_ORDER[flight[c].decision]
                           >= DECISION_ORDER[effectiveDecision(
                                Enveloped(flight[c].asked, weaker),
                                flight[c].riskTags)]
                      \/ /\ weaker = "normal"
                         /\ InferredZoneIsLost(flight[c])
                         /\ flight[c].decision # "ALLOW"
    BY DEF QuarantineTightens
  <2>1. PICK f \in Flight : f = flight[c]
    BY FlightNotIdle DEF IInv, TypeOK
  <2>2. Sound(f)
    BY <2>1, FlightNotIdle DEF IInv
  <2>3. /\ f.asked \in Payload /\ f.riskTags \in SUBSET RiskTag
        /\ f.posture \in SidecarSessionPosture
    BY <2>1 DEF Flight
  <2>4. effectiveDecision(Enveloped(f.asked, weaker), f.riskTags)
          \in AccessDecisions
    BY <2>3, EnvelopedTyped, DecisionParts DEF SurfacePosture
  <2>5. f.decision = effectiveDecision(Enveloped(f.asked, f.posture), f.riskTags)
    BY <2>2 DEF Sound
  <2>6. \A d \in AccessDecisions : DECISION_ORDER[d] \in 0 .. 6
    BY DEF DECISION_ORDER, AccessDecisions
  <2>7. CASE f.posture = "sealed"
    <3>1. DECISION_ORDER[f.decision] = 6
      BY <2>3, <2>5, <2>7, SealedRefuses
    <3> QED
      BY <2>1, <2>4, <2>6, <3>1
  <2>8. CASE f.posture = "normal"
    <3>1. weaker = "normal"
      BY <2>1, <2>8 DEF AtLeastAsStrict, Strictness, SidecarSessionPosture
    <3> QED
      BY <2>1, <2>4, <2>5, <2>6, <2>8, <3>1
  <2>9. CASE f.posture \in {"guarded", "restricted"}
    <3>1. weaker \in {"normal", "guarded", "restricted"}
      BY <2>1, <2>9 DEF AtLeastAsStrict, Strictness, SidecarSessionPosture
    <3>2. CASE weaker = "normal" /\ InferredZoneIsLost(f)
      <4>1. f.decision # "ALLOW"
        BY <2>3, <2>5, <2>9, <3>2, ElevatedIsLogged DEF InferredZoneIsLost
      <4> QED
        BY <2>1, <3>2, <4>1
    <3>3. CASE ~ (weaker = "normal" /\ InferredZoneIsLost(f))
      <4>1. postureToZoneLevel[f.posture] # Undefined
        BY <2>9, PostureAsks DEF Undefined
      <4>2. ~ /\ weaker = "normal"
              /\ f.asked.zoneLevel = Undefined
              /\ SealRank[inferZoneLevel(f.asked.resource, f.riskTags)]
                   > SealRank[postureToZoneLevel[f.posture]]
        BY <3>3, <4>1 DEF InferredZoneIsLost
      <4>3. DECISION_ORDER[effectiveDecision(Enveloped(f.asked, weaker),
                                             f.riskTags)]
              <= DECISION_ORDER[f.decision]
        BY <2>1, <2>3, <2>5, <2>9, <3>1, <4>2, StricterTightens
      <4>4. f.decision \in AccessDecisions
        BY <2>3, <2>5, EnvelopedTyped, DecisionParts DEF SurfacePosture
      <4> QED
        BY <2>1, <2>4, <2>6, <4>3, <4>4
    <3> QED
      BY <3>2, <3>3
  <2> QED
    BY <2>3, <2>7, <2>8, <2>9 DEF SidecarSessionPosture
<1> QED
  BY <1>1, SurfaceInvariance, PTL
=============================================================================
