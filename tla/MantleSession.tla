---------------------------- MODULE MantleSession ----------------------------
(***************************************************************************)
(* The session of "resimantle run" (mantle-session.ts): every event of the   *)
(* runtime monitor is profiled, scored and counted against the zones of its *)
(* resource (seal-manager.ts), which are sealed step by step and kept in a  *)
(* file.  Analyses are not awaited by anyone: they overlap each other, a    *)
(* stop and the next start, and the process may die.                        *)
(*                                                                          *)
(* Once its anomaly is recorded, an analysis asks the engine what the       *)
(* access would have been given, see SurfaceResolution; nothing here        *)
(* depends on that.  RuntimeMonitor models where events come from.          *)
(***************************************************************************)
EXTENDS BehaviorModel, FiniteSetsExt

CONSTANTS
  Task,        \* concurrent calls: analyses, starts, changes by hand
  Resource,
  ZoneOrder,   \* DEFAULT_ZONES, by name
  DefaultLevel,\* their levels
  ZonesOf,     \* the zones whose pattern a resource matches
  WeightsOf,   \* the weights of the sensitive patterns it matches, in order
  ObservedAfter, RestrictedAfter, SealedAfter, \* anomalies: 3, 10, 25
  MaxAnalyzed, MaxSessions, MaxByHand  \* bounds

Zone == {ZoneOrder[i] : i \in DOMAIN ZoneOrder}

SEAL_ORDER ==
  [OPEN |-> 0, OBSERVED |-> 1, RESTRICTED |-> 2, SEALED |-> 3]

SealLevel == DOMAIN SEAL_ORDER

ASSUME SessionAssumption ==
  /\ \A i, j \in DOMAIN ZoneOrder : ZoneOrder[i] = ZoneOrder[j] => i = j
  /\ Zone # {}
  /\ DefaultLevel \in [Zone -> SealLevel]
  /\ ZonesOf \in [Resource -> SUBSET Zone]
  /\ WeightsOf \in [Resource -> Seq(Weight)]
  /\ {ObservedAfter, RestrictedAfter, SealedAfter} \subseteq Nat
  /\ 0 < ObservedAfter
  /\ ObservedAfter < RestrictedAfter /\ RestrictedAfter < SealedAfter
  /\ {MaxAnalyzed, MaxSessions, MaxByHand} \subseteq Nat

\* base and byHand are history: the level the zone was created with, and
\* whether it has been set since
ProtectedZone ==
  [level : SealLevel, anomalyCount : Nat, base : SealLevel, byHand : BOOLEAN]

IdleTask == [phase |-> "idle"]

NoZones == << >>

NoLevels == [z \in Zone |-> "OPEN"]

VARIABLES
  zones,     \* the zones in memory, none before the first start
  file,      \* zones.json
  patterns,  \* patterns[r]: what has been recorded of the resource r
  profiles,  \* what stop has built of that
  tasks,
  session,   \* started, and the listeners registered with the monitor
  used,      \* events, starts and changes by hand, for the bounds
  history    \* settled: the levels last seen while nobody used the file;
             \* disturbed: whether two tasks have used it at once or a write
             \* has failed since the process started

sessionVars == <<zones, file, patterns, profiles, tasks, session, used, history>>

Snapshot == {NoZones} \cup [Zone -> ProtectedZone]

SessionTypeOK ==
  /\ zones \in Snapshot
  /\ file \in [state : {"none", "whole", "truncated", "garbled"}, zones : Snapshot]
  /\ file.state = "whole" => file.zones # NoZones
  /\ patterns \in [Resource -> AccessPatterns]
  /\ profiles \in [Resource -> Profile]
  /\ \A r \in Resource : profiles[r].typicalActors \subseteq
                          buildProfile(patterns[r]).typicalActors
  /\ tasks \in [Task -> {IdleTask}
       \cup [phase : {"scored"}, resource : Resource, score : 0 .. 100]
       \cup [phase : {"open", "write"}, zones : Snapshot \ {NoZones}]
       \cup [phase : {"init", "read"}]]
  /\ session \in [started : BOOLEAN, listeners : 0 .. MaxSessions]
  /\ session.listeners > 0 => zones # NoZones
  /\ used \in [events : 0 .. MaxAnalyzed, starts : 0 .. MaxSessions,
               byHand : 0 .. MaxByHand]
  /\ history \in [settled : [Zone -> SealLevel], disturbed : BOOLEAN]

SessionInit ==
  /\ zones = NoZones
  /\ file = [state |-> "none", zones |-> NoZones]
  /\ patterns = [r \in Resource |-> NoPatterns]
  /\ profiles = [r \in Resource |-> NoProfile]
  /\ tasks = [t \in Task |-> IdleTask]
  /\ session = [started |-> FALSE, listeners |-> 0]
  /\ used = [events |-> 0, starts |-> 0, byHand |-> 0]
  /\ history = [settled |-> NoLevels, disturbed |-> FALSE]
-----------------------------------------------------------------------------
(***************************************************************************)
(* Zones.                                                                   *)
(***************************************************************************)

newZone(level) ==
  [level |-> level, anomalyCount |-> 0, base |-> level, byHand |-> FALSE]

createDefaultZones == [z \in Zone |-> newZone(DefaultLevel[z])]

DEFAULT_ESCALATION ==
  <<[trigger |-> "count", threshold |-> ObservedAfter, target |-> "OBSERVED"],
    [trigger |-> "count", threshold |-> RestrictedAfter, target |-> "RESTRICTED"],
    [trigger |-> "count", threshold |-> SealedAfter, target |-> "SEALED"],
    [trigger |-> "score", threshold |-> 85, target |-> "SEALED"]>>

checkEscalation(zone, condition, anomalyScore) ==
  IF condition.trigger = "count"
  THEN zone.anomalyCount >= condition.threshold
  ELSE anomalyScore >= condition.threshold

\* the conditions that would raise a zone; the first of them does
Raising(zone, anomalyScore) ==
  {i \in DOMAIN DEFAULT_ESCALATION :
     LET condition == DEFAULT_ESCALATION[i] IN
     /\ checkEscalation(zone, condition, anomalyScore)
     /\ SEAL_ORDER[condition.target] > SEAL_ORDER[zone.level]}

counted(zone) == [zone EXCEPT !.anomalyCount = @ + 1]

\* mutant: the conditions are looked at before the anomaly is counted
escalated_Late(zone, anomalyScore) ==
  LET raising == Raising(zone, anomalyScore)
  IN  IF raising = {} THEN counted(zone)
      ELSE [counted(zone) EXCEPT !.level = DEFAULT_ESCALATION[Min(raising)].target]

escalated(zone, anomalyScore) ==
  LET raising == Raising(counted(zone), anomalyScore)
  IN  IF raising = {} THEN counted(zone)
      ELSE [counted(zone) EXCEPT !.level = DEFAULT_ESCALATION[Min(raising)].target]

Escalates(zone, anomalyScore) == escalated(zone, anomalyScore).level # zone.level

\* zones are gone through in order, up to the first that escalates
EscalatingZones(resource, anomalyScore) ==
  {i \in DOMAIN ZoneOrder :
     ZoneOrder[i] \in ZonesOf[resource] /\ Escalates(zones[ZoneOrder[i]], anomalyScore)}

Reached(resource, anomalyScore) ==
  LET escalating == EscalatingZones(resource, anomalyScore)
  IN  {ZoneOrder[i] : i \in {j \in DOMAIN ZoneOrder :
                               escalating = {} \/ j <= Min(escalating)}}

recordAnomaly(resource, anomalyScore) ==
  [z \in Zone |->
     IF z \in ZonesOf[resource] \cap Reached(resource, anomalyScore)
     THEN escalated(zones[z], anomalyScore) ELSE zones[z]]
-----------------------------------------------------------------------------
(***************************************************************************)
(* Analyses.                                                                *)
(***************************************************************************)

\* The monitor emits an event, the nth of its actor within the minute, and
\* each listener in turn records and scores it.
Analyze(resource, actor) ==
  /\ session.started
  /\ used.events < MaxAnalyzed
  /\ \E listening \in kSubset(session.listeners, {t \in Task : tasks[t] = IdleTask}),
        n \in 1 .. used.events + 1,
        spike \in durationSpikes(profiles[resource]) :
     \E turn \in Bijection(listening, 1 .. session.listeners) :
       tasks' = [t \in Task |->
         IF t \notin listening THEN tasks[t]
         ELSE [phase |-> "scored", resource |-> resource,
               score |-> detect(profiles[resource], actor, WeightsOf[resource],
                                (n - 1) * session.listeners + turn[t], spike)]]
  /\ patterns' = [patterns EXCEPT ![resource] =
                    record(@, actor, session.listeners)]
  /\ used' = [used EXCEPT !.events = @ + 1]
  /\ UNCHANGED <<zones, file, profiles, session>>

\* mutant: zones are persisted as they were before
Judge_PersistsBefore(t) ==
  /\ tasks[t].phase = "scored"
  /\ tasks[t].score >= ANOMALY
  /\ LET r == tasks[t].resource
         s == tasks[t].score
     IN  /\ zones' = recordAnomaly(r, s)
         /\ tasks' = [tasks EXCEPT ![t] =
                        IF EscalatingZones(r, s) = {} THEN IdleTask
                        ELSE [phase |-> "open", zones |-> zones]]
  /\ UNCHANGED <<file, patterns, profiles, session, used>>

\* the rest of analyzeEvent: an anomaly is recorded, and zones are persisted
\* when one of them escalates
Judge(t) ==
  /\ tasks[t].phase = "scored"
  /\ LET r == tasks[t].resource
         s == tasks[t].score
     IN  IF s < ANOMALY
         THEN tasks' = [tasks EXCEPT ![t] = IdleTask] /\ UNCHANGED zones
         ELSE /\ zones' = recordAnomaly(r, s)
              /\ tasks' = [tasks EXCEPT ![t] =
                             IF EscalatingZones(r, s) = {} THEN IdleTask
                             ELSE [phase |-> "open", zones |-> zones']]
  /\ UNCHANGED <<file, patterns, profiles, session, used>>

\* setSealLevel and addZone, which replaces a zone of the same name
ChangeByHand(t, z, zone) ==
  /\ zones # NoZones
  /\ tasks[t] = IdleTask
  /\ used.byHand < MaxByHand
  /\ zones' = [zones EXCEPT ![z] = zone]
  /\ tasks' = [tasks EXCEPT ![t] = [phase |-> "open", zones |-> zones']]
  /\ used' = [used EXCEPT !.byHand = @ + 1]
  /\ UNCHANGED <<file, patterns, profiles, session>>

setSealLevel(t, z, level) ==
  ChangeByHand(t, z, [zones[z] EXCEPT !.level = level, !.byHand = TRUE])

addZone(t, z, level) == ChangeByHand(t, z, newZone(level))
-----------------------------------------------------------------------------
(***************************************************************************)
(* The file.                                                                *)
(***************************************************************************)

\* persist: writeFile opens the file and truncates it
OpenFile(t) ==
  /\ tasks[t].phase = "open"
  /\ file' = [state |-> "truncated", zones |-> NoZones]
  /\ tasks' = [tasks EXCEPT ![t].phase = "write"]
  /\ UNCHANGED <<zones, patterns, profiles, session, used>>

\* and writes it; what another task wrote meanwhile may show at the end
WriteFile(t) ==
  /\ tasks[t].phase = "write"
  /\ \/ file' = [state |-> "whole", zones |-> tasks[t].zones]
     \/ /\ file.state # "truncated"
        /\ file' = [state |-> "garbled", zones |-> NoZones]
  /\ tasks' = [tasks EXCEPT ![t] = IdleTask]
  /\ UNCHANGED <<zones, patterns, profiles, session, used>>

\* persist swallows a failure
WriteFails(t) ==
  /\ tasks[t].phase \in {"open", "write"}
  /\ tasks' = [tasks EXCEPT ![t] = IdleTask]
  /\ UNCHANGED <<zones, file, patterns, profiles, session, used>>
-----------------------------------------------------------------------------
(***************************************************************************)
(* Starting and stopping.                                                   *)
(***************************************************************************)

\* start up to the end of engine.init; started is set at the end only
BeginSession(t) ==
  /\ ~ session.started
  /\ used.starts < MaxSessions
  /\ tasks[t] = IdleTask
  /\ tasks' = [tasks EXCEPT ![t] = [phase |-> "init"]]
  /\ used' = [used EXCEPT !.starts = @ + 1]
  /\ UNCHANGED <<zones, file, patterns, profiles, session>>

\* listeners are added, whether or not there are some; the monitor starts
Listening(t, loaded) ==
  /\ zones' = loaded
  /\ session' = [started |-> TRUE, listeners |-> session.listeners + 1]
  /\ tasks' = [tasks EXCEPT ![t] = IdleTask]
  /\ UNCHANGED <<file, patterns, profiles, used>>

\* initialize without a file
CreateZones(t) ==
  /\ tasks[t].phase = "init"
  /\ file.state = "none"
  /\ Listening(t, createDefaultZones)

FindFile(t) ==
  /\ tasks[t].phase = "init"
  /\ file.state # "none"
  /\ tasks' = [tasks EXCEPT ![t].phase = "read"]
  /\ UNCHANGED <<zones, file, patterns, profiles, session, used>>

\* loadFromDisk: what is in memory is replaced, an unreadable file by defaults
LoadZones(t) ==
  /\ tasks[t].phase = "read"
  /\ Listening(t, IF file.state = "whole" THEN file.zones ELSE createDefaultZones)

\* stop does not await analyses, and removes no listener
Stop ==
  /\ session.started
  /\ session' = [session EXCEPT !.started = FALSE]
  /\ profiles' = [r \in Resource |-> buildProfile(patterns[r])]
  /\ UNCHANGED <<zones, file, patterns, tasks, used>>

\* the process dies; the next one finds the file
Crash ==
  /\ zones' = NoZones
  /\ patterns' = [r \in Resource |-> NoPatterns]
  /\ profiles' = [r \in Resource |-> NoProfile]
  /\ tasks' = [t \in Task |-> IdleTask]
  /\ session' = [started |-> FALSE, listeners |-> 0]
  /\ UNCHANGED <<file, used>>

-----------------------------------------------------------------------------
\* history: what a step leaves to be remembered

Busy == {t \in Task : tasks[t].phase \in {"open", "write", "read"}}

Remember(fault) ==
  history' =
    [settled   |-> IF Busy' = {} /\ zones' # NoZones
                   THEN [z \in Zone |-> zones'[z].level] ELSE history.settled,
     disturbed |-> history.disturbed \/ fault \/ \E t, u \in Busy' : t # u]

\* zones that are loaded are held against what was remembered
Compare(fault) ==
  history' = [history EXCEPT !.disturbed = @ \/ fault]

\* a level changed by hand is not promised until it is on disk
Retract(z) ==
  history' = [settled   |-> [history.settled EXCEPT ![z] = "OPEN"],
              disturbed |-> history.disturbed \/ Busy # {}]

\* nothing is promised of a file left in disorder
StartAfresh ==
  history' = [settled   |-> IF history.disturbed \/ file.state = "truncated"
                            THEN NoLevels ELSE history.settled,
              disturbed |-> FALSE]

SessionNext ==
  \/ /\ \/ \E r \in Resource, a \in Actor : Analyze(r, a)
        \/ \E t \in Task : \/ Judge(t) \/ OpenFile(t) \/ WriteFile(t)
                           \/ BeginSession(t) \/ FindFile(t)
        \/ Stop
     /\ Remember(FALSE)
  \/ \E t \in Task, z \in Zone, level \in SealLevel :
       /\ setSealLevel(t, z, level) \/ addZone(t, z, level)
       /\ Retract(z)
  \/ \E t \in Task : CreateZones(t) /\ Compare(Busy # {})
  \/ \E t \in Task : LoadZones(t) /\ Compare(FALSE)
  \/ \E t \in Task : WriteFails(t) /\ Remember(TRUE)
  \/ Crash /\ StartAfresh

SessionSpec == SessionInit /\ [][SessionNext]_sessionVars
-----------------------------------------------------------------------------
(***************************************************************************)
(* Properties.                                                              *)
(***************************************************************************)

AtLeast(level, other) == SEAL_ORDER[level] >= SEAL_ORDER[other]

\* the level a number of anomalies calls for
Called(n) ==
  IF n >= SealedAfter THEN "SEALED"
  ELSE IF n >= RestrictedAfter THEN "RESTRICTED"
  ELSE IF n >= ObservedAfter THEN "OBSERVED" ELSE "OPEN"

\* However analyses, restarts, deaths and reloads interleave, a zone nobody
\* has set by hand is exactly as sealed as the anomalies counted for it call
\* for, and as it was created: no escalation is missed or taken twice, and no
\* single score seals a zone (seal-manager.ts, recordAnomaly, loadFromDisk).
LevelsFollowAnomalies ==
  zones # NoZones =>
    \A z \in Zone :
      LET zone == zones[z] IN
      ~ zone.byHand =>
        zone.level = IF AtLeast(zone.base, Called(zone.anomalyCount))
                     THEN zone.base ELSE Called(zone.anomalyCount)

\* A level a zone had while nobody was using the file is not lost by a
\* restart, in the same process or after its death, as long as writes succeed
\* and one task uses the file at a time (seal-manager.ts, persist,
\* loadFromDisk; mantle-session.ts, start).
EscalationsSurvive ==
  ~ history.disturbed /\ zones # NoZones =>
    \A z \in Zone : AtLeast(zones[z].level, history.settled[z])
=============================================================================
