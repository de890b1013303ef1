--------------------------- MODULE RuntimeEvents ---------------------------
(***************************************************************************)
(* The runtime events a wrapped process reports, and what the              *)
(* compatibility baseline (baseline-manager.ts) makes of one event: whether *)
(* it may be learned, what is learned so far, and whether an event matches  *)
(* it.  Everything here is a pure operator over the table of occurrences;   *)
(* CompatibilityBaseline owns that table with its file, SidecarControl uses *)
(* it from the control sessions.                                            *)
(*                                                                          *)
(* A pattern stands for the normalised resource of an event (the regular    *)
(* expression built from a path or a command, or a host name).  NoPattern   *)
(* is a resource the normalisation rejects: empty, or a loopback host.      *)
(***************************************************************************)
EXTENDS Naturals

CONSTANTS
  Pattern,        \* normalised resources
  NoPattern,      \* a resource with no normalised form
  MinOccurrences, \* observations before a pattern is learned
  BaselineMode,   \* "off", "observe" or "assist"
  AutoApply,      \* autoApplyToContainment
  ReduceRisk      \* reduceRiskFromKnownActivity

ASSUME BaselineAssumption ==
  /\ NoPattern \notin Pattern
  /\ MinOccurrences \in Nat \ {0}
  /\ BaselineMode \in {"off", "observe", "assist"}
  /\ AutoApply \in BOOLEAN
  /\ ReduceRisk \in BOOLEAN

\* OTHER: file writes and deletes, AI calls, queries, monitor alerts
RuntimeEventCategory ==
  {"FILE_READ", "HTTP_OUTBOUND", "PROCESS_SPAWN", "SOCKET_EGRESS",
   "PRELOAD_INTEGRITY", "OTHER"}

IntegrityStatus == {"unknown", "healthy", "drifted"}

RuntimeEvent ==
  [category  : RuntimeEventCategory,
   blocked   : BOOLEAN,
   pattern   : Pattern \cup {NoPattern},
   dangerous : BOOLEAN,              \* details.isDangerous
   status    : IntegrityStatus]      \* details.status

LearnedCategory == {"FILE_READ", "PROCESS_SPAWN", "SOCKET_EGRESS"}

\* how often each pattern was observed; counts beyond MinOccurrences are
\* only compared with it, so they are not told apart
Occurrences == [LearnedCategory -> [Pattern -> 0 .. MinOccurrences]]

createEmptyState == [k \in LearnedCategory |-> [p \in Pattern |-> 0]]

isEnabled == BaselineMode # "off"

shouldAutoApplyToContainment == BaselineMode = "assist" /\ AutoApply

\* mutant: the posture of the session is not looked at
shouldLearnEvent_AnyPosture(event, posture, integrity) ==
  /\ ~ event.blocked
  /\ ~ (event.category = "PROCESS_SPAWN" /\ event.dangerous)
  /\ event.category \in LearnedCategory

shouldLearnEvent(event, posture, integrity) ==
  /\ ~ event.blocked
  /\ integrity # "drifted"
  /\ posture \notin {"restricted", "sealed"}
  /\ ~ (event.category = "PROCESS_SPAWN" /\ event.dangerous)
  /\ event.category \in LearnedCategory

touchCounter(occ, event) ==
  [occ EXCEPT ![event.category][event.pattern] =
     IF @ < MinOccurrences THEN @ + 1 ELSE @]

\* observe: the table after an event seen in a session with that posture
Observed(occ, event, posture, integrity) ==
  IF /\ isEnabled
     /\ shouldLearnEvent(event, posture, integrity)
     /\ event.pattern # NoPattern
  THEN touchCounter(occ, event)
  ELSE occ

getLearnedAllowlist(occ) ==
  {l \in LearnedCategory \X Pattern :
     isEnabled /\ occ[l[1]][l[2]] >= MinOccurrences}

matchesLearnedAllowlist(occ, event) ==
  /\ isEnabled /\ ReduceRisk
  /\ <<event.category, event.pattern>> \in getLearnedAllowlist(occ)
=============================================================================
