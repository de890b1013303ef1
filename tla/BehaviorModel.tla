---------------------------- MODULE BehaviorModel ----------------------------
(***************************************************************************)
(* What the profiler knows of a resource (profiler.ts) and how anomalous an  *)
(* access to it is (anomaly-detector.ts).  The score is the average of the  *)
(* factors that apply, in percent.  How long an access took and how many    *)
(* the actor made within the last minute are inputs; durations are left     *)
(* out of profiles.                                                         *)
(***************************************************************************)
EXTENDS Naturals, FiniteSets, Sequences, Functions

CONSTANTS
  Actor,
  RARE,                 \* up to so many accesses a resource is rare: 5
  STABILITY_THRESHOLD,  \* from so many on its profile is stable: 50
  BURST_THRESHOLD       \* events a minute beyond which an actor bursts: 100

ASSUME BehaviorAssumption ==
  /\ RARE \in Nat \ {0}
  /\ STABILITY_THRESHOLD \in Nat /\ STABILITY_THRESHOLD > RARE
  /\ BURST_THRESHOLD \in Nat \ {0}

ANOMALY == 60

\* SENSITIVE_RESOURCE_PATTERNS
Weight == {50, 60, 70, 80, 90, 95}

\* the accesses to a resource that have been recorded: whose, and how many
AccessPatterns == [actors : SUBSET Actor, count : Nat]

NoPatterns == [actors |-> {}, count |-> 0]

\* times: how often one access is recorded
record(patterns, actor, times) ==
  [actors |-> patterns.actors \cup {actor : i \in 1 .. times},
   count  |-> patterns.count + times]

Profile == [typicalActors : SUBSET Actor, accessCount : Nat]

buildProfile(patterns) ==
  [typicalActors |-> patterns.actors, accessCount |-> patterns.count]

NoProfile == buildProfile(NoPatterns)

\* a profile is built from at least one access
Exists(profile) == profile.accessCount > 0

isStable(profile) == profile.accessCount >= STABILITY_THRESHOLD
-----------------------------------------------------------------------------
(***************************************************************************)
(* Factors: the empty set if one does not apply, else the set of its score. *)
(***************************************************************************)

unknownActor(profile, actor) ==
  IF ~ (Exists(profile) /\ isStable(profile)) THEN {}
  ELSE IF actor \in profile.typicalActors THEN {0} ELSE {70}

unusualFrequency(profile) ==
  IF ~ Exists(profile) THEN {}
  ELSE IF profile.accessCount <= RARE THEN {40} ELSE {0}

\* more than five times the average: 0.3 and a twentieth of the ratio, up to
\* 0.8; no factor if the average or this duration is zero
durationSpikes(profile) ==
  IF Exists(profile) THEN {{}, {0}, {56}, {80}} ELSE {{}}

\* the first pattern that matches
sensitiveResource(weights) == IF weights = << >> THEN {} ELSE {Head(weights)}

checkBurst(n) ==
  LET ratio == (30 * n) \div BURST_THRESHOLD
  IN  IF n > BURST_THRESHOLD THEN {IF ratio < 70 THEN ratio ELSE 70} ELSE {}

noProfile(profile) == IF Exists(profile) THEN {} ELSE {30}

Worth(factor) == IF factor = {} THEN 0 ELSE CHOOSE score \in factor : TRUE

Total(f) ==
  Worth(f.unknown) + Worth(f.frequency) + Worth(f.duration)
    + Worth(f.sensitive) + Worth(f.burst) + Worth(f.first)

Count(f) ==
  Cardinality(f.unknown) + Cardinality(f.frequency) + Cardinality(f.duration)
    + Cardinality(f.sensitive) + Cardinality(f.burst) + Cardinality(f.first)

\* mutant: the factors are added up and not averaged
score_Sum(f) == Total(f)

\* frequency or first always applies; rounded to the nearest percent
score(f) == (2 * Total(f) + Count(f)) \div (2 * Count(f))

detect(profile, actor, weights, n, spike) ==
  score([unknown   |-> unknownActor(profile, actor),
         frequency |-> unusualFrequency(profile),
         duration  |-> spike,
         sensitive |-> sensitiveResource(weights),
         burst     |-> checkBurst(n),
         first     |-> noProfile(profile)])
=============================================================================
