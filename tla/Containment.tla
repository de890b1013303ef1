----------------------------- MODULE Containment -----------------------------
(***************************************************************************)
(* How a wrapped process confines itself, apart from what the sidecar says  *)
(* about single accesses (node-preload.ts): a mode for each capability, an  *)
(* allowlist, what they refuse, and how they are written to the environment *)
(* of another process and read back.  A variable of the environment is a    *)
(* set: empty when it is not set, else with its value as the only member.   *)
(***************************************************************************)
EXTENDS SidecarPosture

CONSTANTS
  Target,       \* files, command lines and socket endpoints
  CapabilityOf, \* CapabilityOf[t]: the capability that accessing t takes
  Hazardous,    \* matched by SENSITIVE_READ_PATTERNS or
                \* BLOCKED_PROCESS_MATCHERS, or a host outside the loopback
  NodeCommand   \* commands whose executable is node

ContainedCapability == {"reads", "processes", "sockets"}

ASSUME ContainmentAssumption ==
  /\ CapabilityOf \in [Target -> ContainedCapability]
  /\ Hazardous \subseteq Target
  /\ NodeCommand \subseteq {t \in Target : CapabilityOf[t] = "processes"}

Unset == {}

Allowlist == SUBSET Target

CapabilityModes == [ContainedCapability -> ProcessContainmentMode]

\* what a process enforces
ContainmentState ==
  [mode      : ProcessContainmentMode,
   modes     : CapabilityModes,
   allowlist : Allowlist]

\* the variables of an environment that are about containment
ContainmentEnv ==
  [mode  : SUBSET ProcessContainmentMode,
   modes : SUBSET CapabilityModes,
   rules : SUBSET Allowlist]

NoContainmentEnv == [mode |-> Unset, modes |-> Unset, rules |-> Unset]

TheValue(variable) == CHOOSE value \in variable : TRUE
-----------------------------------------------------------------------------
(***************************************************************************)
(* To the environment and back.                                             *)
(***************************************************************************)

\* written only when a capability differs from the base mode
serializeContainmentCapabilityModes(modes, baseMode) ==
  IF \E c \in ContainedCapability : modes[c] # baseMode THEN {modes} ELSE Unset

resolveContainmentCapabilityModesFromEnv(env, baseMode) ==
  IF env.modes = Unset THEN [c \in ContainedCapability |-> baseMode]
  ELSE TheValue(env.modes)

serializeContainmentAllowlist(allowlist) ==
  IF allowlist = {} THEN Unset ELSE {allowlist}

resolveContainmentAllowlist(env) ==
  IF env.rules = Unset THEN {} ELSE TheValue(env.rules)

resolveContainmentMode(env) ==
  IF env.mode = Unset THEN "adaptive" ELSE TheValue(env.mode)

\* what buildProtectedEnv and applyNonSecretWorkerBootstrapEnv write; what is
\* Unset is deleted
containmentEnv(state) ==
  [mode  |-> {state.mode},
   modes |-> serializeContainmentCapabilityModes(state.modes, state.mode),
   rules |-> serializeContainmentAllowlist(state.allowlist)]

\* what an installation takes from its environment
containmentFromEnv(env) ==
  LET mode == resolveContainmentMode(env)
  IN  [mode      |-> mode,
       modes     |-> resolveContainmentCapabilityModesFromEnv(env, mode),
       allowlist |-> resolveContainmentAllowlist(env)]
-----------------------------------------------------------------------------
(***************************************************************************)
(* What is refused.                                                         *)
(***************************************************************************)

Unlisted(state, t) == t \in Hazardous /\ t \notin state.allowlist

getBlockedReadSurfaceReason(state, t) ==
  state.modes["reads"] = "strict" /\ Unlisted(state, t)

\* a risky command is refused in the adaptive mode too
getBlockedProcessReason(state, t) ==
  state.modes["processes"] # "off" /\ Unlisted(state, t)

\* the sidecar's host, the loopback and local sockets are not hazardous
getBlockedSocketReason(state, t) ==
  state.modes["sockets"] = "strict" /\ Unlisted(state, t)

Refused(state, t) ==
  CASE CapabilityOf[t] = "reads"     -> getBlockedReadSurfaceReason(state, t)
    [] CapabilityOf[t] = "processes" -> getBlockedProcessReason(state, t)
    [] CapabilityOf[t] = "sockets"   -> getBlockedSocketReason(state, t)
-----------------------------------------------------------------------------
(***************************************************************************)
(* What the sidecar sends with a bootstrap and with every heartbeat.        *)
(***************************************************************************)

\* applyContainmentUpdate, of an update that is complete
applyContainmentUpdate(state, update) ==
  [state EXCEPT !.mode = update.mode,
                !.modes = update.modes,
                !.allowlist = update.allowlist]

\* buildSessionContainmentEnvelope, the postures of the three capabilities
\* being given
sessionContainment(mode, postures, allowlist) ==
  [mode      |-> mode,
   modes     |-> [c \in ContainedCapability |->
                    resolveCapabilityContainmentMode(mode, postures[c], TRUE)],
   allowlist |-> allowlist]
=============================================================================
