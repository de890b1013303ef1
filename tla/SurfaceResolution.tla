-------------------------- MODULE SurfaceResolution --------------------------
(***************************************************************************)
(* How the engine answers read, search and http requests                    *)
(* (overlay-coordinator.ts), from the sidecar on behalf of a control        *)
(* session, or directly.  A request is decided in one step, with the        *)
(* posture and the inventory of that moment; the overlay, the real          *)
(* resolver and the audit are awaited one after the other, and other        *)
(* requests run in between.  Whatever is answered is observed by the        *)
(* inventory (resource-inventory.ts), whose tags decide later requests.     *)
(***************************************************************************)
EXTENDS AccessDecision

CONSTANTS
  Conn,      \* requests being answered at the same time
  Payloads,  \* the requests clients send
  Postures,  \* of the requesting session's surface; Undefined: no session
  Similar,   \* Similar[r]: the resources whose profiles match r
  EventTags  \* what a runtime event may add to the tags of its resource

ASSUME ResolutionAssumption ==
  /\ Payloads \subseteq Payload
  /\ Postures \subseteq SidecarSessionPosture \cup {Undefined}
  /\ Similar \in [Resource -> SUBSET Resource]
  /\ EventTags \subseteq SUBSET RiskTag

Source == {"synthetic", "real", "mixed", "blocked", "none"}

Idle == [phase |-> "idle"]

Flight ==
  [phase     : {"overlay", "fallback", "answer"},
   asked     : Payload,           \* as the client sent it
   posture   : SidecarSessionPosture \cup {Undefined},
   riskTags  : SUBSET RiskTag,    \* inferred when it was decided
   decision  : AccessDecisions,
   trust     : ActorTrustState,
   fallback  : BOOLEAN,           \* may call the real resolver
   synthetic : BOOLEAN,           \* an overlay matched
   reached   : BOOLEAN,           \* the real resolver was called
   source    : Source]

VARIABLES
  inventory, \* inventory[r]: the risk tags of r's profile
  flight     \* flight[c]: the request being answered on c

vars == <<inventory, flight>>

TypeOK ==
  /\ inventory \in [Resource -> SUBSET RiskTag]
  /\ flight \in [Conn -> {Idle} \cup Flight]

Init ==
  /\ inventory = [r \in Resource |-> {}]
  /\ flight = [c \in Conn |-> Idle]
-----------------------------------------------------------------------------
\* infer: the tags of a request under an inventory
TagsOf(payload, inv) ==
  payload.riskTags \cup InferredTags[payload.resource]
    \cup UNION {inv[r] : r \in Similar[payload.resource]}

\* the request as the engine sees it
Enveloped(payload, posture) ==
  IF posture = Undefined THEN payload
  ELSE applySessionEnvelope(payload, posture)

DecisionFor(payload, posture, inv) ==
  effectiveDecision(Enveloped(payload, posture), TagsOf(payload, inv))

MayUseReal(payload, posture) ==
  /\ payload.real
  /\ posture # Undefined =>
       RealFallbackAllowed(posture, SurfaceOf(payload.action),
                           payload.action \in SafeMethod)

\* upsertProfile; the mutant keeps only what was seen last
upsertProfile_Replaces(resource, riskTags) ==
  inventory' = [inventory EXCEPT ![resource] = riskTags]

upsertProfile(resource, riskTags) ==
  inventory' =
    [inventory EXCEPT ![resource] = @ \cup riskTags \cup InferredTags[resource]]

\* applySessionEnvelope, allowRealFallback and evaluateDecision, all before
\* the first await that lets another request in
Accept(c, payload, posture) ==
  /\ flight[c] = Idle
  /\ LET tags == TagsOf(payload, inventory) IN
     flight' =
       [flight EXCEPT ![c] =
          [phase     |-> "overlay",
           asked     |-> payload,
           posture   |-> posture,
           riskTags  |-> tags,
           decision  |-> DecisionFor(payload, posture, inventory),
           trust     |-> trustAfter(Enveloped(payload, posture), tags),
           fallback  |-> MayUseReal(payload, posture),
           synthetic |-> FALSE,
           reached   |-> FALSE,
           source    |-> "none"]]
  /\ UNCHANGED inventory

\* ReadOverlay, SearchOverlay or HttpDecoyOverlay: whether an asset of the
\* actor's story matches is left open
ApplyOverlay(c, matched) ==
  /\ flight[c].phase = "overlay"
  /\ matched => flight[c].trust \in ELIGIBLE_OVERLAY_STATES
  /\ flight' = [flight EXCEPT ![c].phase = "fallback", ![c].synthetic = matched]
  /\ UNCHANGED inventory

\* the branches of resolveRead, resolveSearch and resolveHttp
SourceOf(f, realMatched) ==
  IF f.synthetic /\ realMatched /\ f.asked.action = "search" THEN "mixed"
  ELSE IF f.synthetic THEN "synthetic"
  ELSE IF realMatched THEN "real"
  ELSE IF f.decision \in BLOCKING_DECISIONS THEN "blocked"
  ELSE "none"

\* the real resolver is called whenever it is there, matched overlay or not
CallFallback(c, realMatched) ==
  /\ flight[c].phase = "fallback"
  /\ realMatched => flight[c].fallback
  /\ flight' = [flight EXCEPT ![c].phase = "answer",
                              ![c].reached = flight[c].fallback,
                              ![c].source = SourceOf(flight[c], realMatched)]
  /\ UNCHANGED inventory

\* auditOutcome, then the response
Answer(c) ==
  /\ flight[c].phase = "answer"
  /\ upsertProfile(flight[c].asked.resource, flight[c].riskTags)
  /\ flight' = [flight EXCEPT ![c] = Idle]

\* an overlay, the resolver or the audit throws: the client gets an error
Fail(c) ==
  /\ flight[c] # Idle
  /\ flight' = [flight EXCEPT ![c] = Idle]
  /\ UNCHANGED inventory

\* observeRuntimeEvent, from a wrapped process or the runtime monitor
ObserveRuntimeEvent(resource, riskTags) ==
  /\ upsertProfile(resource, riskTags)
  /\ UNCHANGED flight

Resolve(c) ==
  \/ \E payload \in Payloads, posture \in Postures :
       Accept(c, payload, posture)
  \/ \E matched \in BOOLEAN : ApplyOverlay(c, matched) \/ CallFallback(c, matched)
  \/ Answer(c)
  \/ Fail(c)

Next ==
  \/ \E c \in Conn : Resolve(c)
  \/ \E resource \in Resource, riskTags \in EventTags :
       ObserveRuntimeEvent(resource, riskTags)

Spec == Init /\ [][Next]_vars
-----------------------------------------------------------------------------
(***************************************************************************)
(* What the surfaces are relied on for.                                     *)
(***************************************************************************)

Answered(c) == flight[c].phase = "answer"

\* nothing of the real resource: neither its content nor the leave, source
\* "none", with which a wrapped process goes on to the original call
Withheld(f) == ~ f.reached /\ f.source \in {"synthetic", "blocked"}

\* A request of a session whose surface is sealed is answered with a synthetic
\* asset or refused, whatever the client claims about itself, the policy file
\* says or the inventory has learned: the posture, the anomaly floor, the
\* gatekeeper and the grant agree.
SealedIsContained ==
  \A c \in Conn :
    Answered(c) /\ flight[c].posture = "sealed" => Withheld(flight[c])

\* So is a request of a restricted session that does not claim to be a known
\* actor (no wrapped process does), except that a safe HTTP method may be
\* answered with a real response it brings.
RestrictedIsContained ==
  \A c \in Conn :
    LET f == flight[c] IN
    /\ Answered(c)
    /\ f.posture = "restricted"
    /\ f.asked.isKnownActor # "known"
    => \/ Withheld(f)
       \/ f.asked.action \in SafeMethod /\ f.reached

\* The postures that confine a session do so together: what a sealed one may
\* not obtain and what a restricted one may not (mantle-sidecar.ts, the
\* envelope and the grant; overlay-coordinator.ts, the branch).
ConfinedIsContained == SealedIsContained /\ RestrictedIsContained

\* A known actor whom only the name of the resource refuses: its zone is
\* inferred, and sealed as long as the resource has no risk tag.
SealedByNameAlone(request) ==
  /\ request.zoneLevel = Undefined
  /\ NamedZone[request.resource] = "SEALED"
  /\ IsKnown(request)

StillRefused(f) ==
  DecisionFor(f.asked, f.posture, inventory) \in BLOCKING_DECISIONS

\* A request is decided on what the inventory held when it came in, and is
\* answered several awaits later.  A refusal never goes out of date: decided
\* again with all that was learned meanwhile, the request is refused as well,
\* except where the refusal rests on the name of the resource alone.
RefusalsLast ==
  \A c \in Conn :
    LET f == flight[c] IN
    /\ f # Idle
    /\ f.decision \in BLOCKING_DECISIONS
    /\ ~ SealedByNameAlone(Enveloped(f.asked, f.posture))
    => StillRefused(f)

\* The zone inferred for a request whose client names none is stricter than the
\* one the posture of its surface asks for, and is replaced by that one.
InferredZoneIsLost(f) ==
  LET asked == postureToZoneLevel[f.posture] IN
  /\ f.asked.zoneLevel = Undefined
  /\ asked # Undefined
  /\ SealRank[inferZoneLevel(f.asked.resource, f.riskTags)] > SealRank[asked]

\* A stricter posture of the surface never gets a laxer decision for the same
\* request at the same moment.  The code makes one exception, on leaving the
\* normal posture: a guarded or restricted one may replace a stricter zone that
\* was inferred.  Even then the access is at least logged.
QuarantineTightens ==
  \A c \in Conn, weaker \in SidecarSessionPosture :
    LET f == flight[c] IN
    /\ f.phase = "overlay"
    /\ f.posture # Undefined
    /\ AtLeastAsStrict(f.posture, weaker)
    => \/ DECISION_ORDER[f.decision] >=
            DECISION_ORDER[effectiveDecision(Enveloped(f.asked, weaker),
                                             f.riskTags)]
       \/ /\ weaker = "normal"
          /\ InferredZoneIsLost(f)
          /\ f.decision # "ALLOW"

\* A trusted actor is handed synthetic content only for an access that is
\* constrained or refused: logging alone, whether by an OBSERVED zone, an
\* anomaly or a rule, leaves it on the real surface.
TrustedSeeReality ==
  \A c \in Conn :
    LET f == flight[c] IN
    /\ Answered(c)
    /\ f.source \in {"synthetic", "mixed"}
    /\ BaseTrust(Enveloped(f.asked, f.posture)) = "trusted"
    => f.decision \notin {"ALLOW", "ALLOW_WITH_LOGGING"}

\* "Protection deepens ... stricter controls around sensitive zones based on
\* observation": no refusal at all goes out of date.  In the code a risk tag
\* of class admin or prompt takes a resource sealed by its name down to
\* RESTRICTED, where a known actor may read it.
ObservationDeepens ==
  \A c \in Conn :
    flight[c] # Idle /\ flight[c].decision \in BLOCKING_DECISIONS =>
      StillRefused(flight[c])
=============================================================================
