-------------------------- MODULE ProcessTreeProofs --------------------------
(***************************************************************************)
(* Theorems about ProcessTree, for trees of any size and shape, any number  *)
(* of control sessions, targets, postures and allowlists.                   *)
(***************************************************************************)
EXTENDS ProcessTree, TLAPS

USE ContainmentAssumption, TreeAssumption
-----------------------------------------------------------------------------
(***************************************************************************)
(* The operators.                                                           *)
(***************************************************************************)

LEMMA TheValueOfOne == \A v : TheValue({v}) = v
BY DEF TheValue

LEMMA TheValueIsOneOf == \A S : S # {} => TheValue(S) \in S
BY DEF TheValue

\* What is written to an environment is well formed.
LEMMA ContainmentEnvType ==
  ASSUME NEW state \in ContainmentState
  PROVE  containmentEnv(state) \in ContainmentEnv
BY DEF containmentEnv, ContainmentEnv, ContainmentState,
       serializeContainmentCapabilityModes, serializeContainmentAllowlist, Unset

\* So is what is read from one.
LEMMA ContainmentFromEnvType ==
  ASSUME NEW env, env.mode \in SUBSET ProcessContainmentMode,
         env.modes \in SUBSET CapabilityModes, env.rules \in SUBSET Allowlist
  PROVE  containmentFromEnv(env) \in ContainmentState
<1>1. resolveContainmentMode(env) \in ProcessContainmentMode
  BY TheValueIsOneOf DEF resolveContainmentMode, Unset, ProcessContainmentMode
<1>2. \A m \in ProcessContainmentMode :
        resolveContainmentCapabilityModesFromEnv(env, m) \in CapabilityModes
  BY TheValueIsOneOf DEF resolveContainmentCapabilityModesFromEnv, Unset, CapabilityModes
<1>3. resolveContainmentAllowlist(env) \in Allowlist
  BY TheValueIsOneOf DEF resolveContainmentAllowlist, Unset, Allowlist
<1>4. QED
  BY <1>1, <1>2, <1>3 DEF containmentFromEnv, ContainmentState

\* The round trip: what is read is what was written.
LEMMA RoundTrip ==
  ASSUME NEW state \in ContainmentState, NEW env,
         env.mode = containmentEnv(state).mode,
         env.modes = containmentEnv(state).modes,
         env.rules = containmentEnv(state).rules
  PROVE  containmentFromEnv(env) = state
<1>1. resolveContainmentMode(env) = state.mode
  BY TheValueOfOne DEF containmentEnv, resolveContainmentMode, Unset
<1>2. resolveContainmentCapabilityModesFromEnv(env, state.mode) = state.modes
  <2>1. CASE \E c \in ContainedCapability : state.modes[c] # state.mode
    BY <2>1, TheValueOfOne
    DEF containmentEnv, serializeContainmentCapabilityModes,
        resolveContainmentCapabilityModesFromEnv, Unset
  <2>2. CASE \A c \in ContainedCapability : state.modes[c] = state.mode
    <3>1. state.modes \in [ContainedCapability -> ProcessContainmentMode]
      BY DEF ContainmentState, CapabilityModes
    <3>2. state.modes = [c \in ContainedCapability |-> state.mode]
      BY <2>2, <3>1
    <3>3. QED
      BY <2>2, <3>2
      DEF containmentEnv, serializeContainmentCapabilityModes,
          resolveContainmentCapabilityModesFromEnv, Unset
  <2>3. QED
    BY <2>1, <2>2
<1>3. resolveContainmentAllowlist(env) = state.allowlist
  <2>1. CASE state.allowlist = {}
    BY <2>1 DEF containmentEnv, serializeContainmentAllowlist,
                resolveContainmentAllowlist, Unset
  <2>2. CASE state.allowlist # {}
    BY <2>2, TheValueOfOne DEF containmentEnv, serializeContainmentAllowlist,
                               resolveContainmentAllowlist, Unset
  <2>3. QED
    BY <2>1, <2>2
<1>4. containmentFromEnv(env) =
        [mode |-> state.mode, modes |-> state.modes, allowlist |-> state.allowlist]
  BY <1>1, <1>2, <1>3 DEF containmentFromEnv
<1>5. QED
  BY <1>4 DEF ContainmentState

LEMMA SessionContainmentType ==
  ASSUME NEW postures \in Postures, learned \in Allowlist
  PROVE  containmentFor(postures) \in ContainmentState
<1>1. \A c \in ContainedCapability : postures[c] \in SidecarSessionPosture
  OBVIOUS
<1>2. \A posture \in SidecarSessionPosture :
        resolveCapabilityContainmentMode(ContainmentMode, posture, TRUE)
          \in ProcessContainmentMode
  BY DEF resolveCapabilityContainmentMode, ProcessContainmentMode
<1>3. [c \in ContainedCapability |->
         resolveCapabilityContainmentMode(ContainmentMode, postures[c], TRUE)]
        \in CapabilityModes
  BY <1>1, <1>2 DEF CapabilityModes
<1>4. QED
  BY <1>3 DEF containmentFor, sessionContainment, ContainmentState

\* An update takes over all of the sidecar's word.
LEMMA UpdateType ==
  ASSUME NEW state \in ContainmentState, NEW update \in ContainmentState
  PROVE  applyContainmentUpdate(state, update) \in ContainmentState
BY DEF applyContainmentUpdate, ContainmentState
-----------------------------------------------------------------------------
(***************************************************************************)
(* The inductive invariant.                                                 *)
(***************************************************************************)

Live(p) == proc[p].phase # "absent"

\* An environment belongs to a process that has been installed, as soon as
\* another one shares it; only workers do, with the one that created them.
Homes ==
  \A p \in Process :
    /\ Home(Home(p)) = Home(p)
    /\ ~ Live(p) => Home(p) = p
    /\ Home(p) # p =>
         /\ proc[p].phase \in {"booting", "wrapped"}
         /\ proc[p].creator # None
         /\ Wrapped(Home(p))
         /\ Home(proc[p].creator) = Home(p)

Lines ==
  \A p \in Process :
    /\ \A a \in proc[p].line : Live(a)
    /\ proc[p].creator # None =>
         proc[p].creator \in proc[p].line /\ Wrapped(proc[p].creator)

Keys ==
  \A p \in Process :
    /\ Live(p) /\ environ[Home(p)].key =>
         /\ proc[p].phase = "booting" /\ Home(p) = p
         /\ proc[p].creator # None \/ p = Root
    /\ proc[p].key => proc[p].creator # None \/ p = Root
    /\ proc[p].payload # {} => proc[p].creator # None

\* What a child is born with, as long as it has not heard from the sidecar, is
\* on its way in the payload or in an environment that no other process writes.
Births ==
  \A p \in Process : \A legacy \in proc[p].legacy :
    /\ proc[p].control = None
    /\ proc[p].phase = "booting" =>
         /\ proc[p].payload = {} =>
              Home(p) = p /\ containmentFromEnv(environ[p]) = legacy
         /\ \A payload \in proc[p].payload : payload.containment = legacy
    /\ Wrapped(p) => proc[p].state = legacy
    /\ \A t \in proc[p].deeds : ~ Refused(legacy, t)

\* Whose sessions are held, handed down and named.
Holders ==
  /\ \A s \in Session :
       /\ claims[s].by # None => Wrapped(claims[s].by)
       /\ claims[s].parent # None => claims[claims[s].parent].by # None
  /\ \A p \in Process :
       /\ proc[p].control # None => claims[proc[p].control].by = p
       /\ proc[p].descent # None =>
            proc[p].creator # None /\ claims[proc[p].descent].by = proc[p].creator
       /\ \A payload \in proc[p].payload : payload.parent = proc[p].descent
       /\ environ[p].parent # None => claims[environ[p].parent].by # None

\* x belongs to an ancestor of p, or to one that shares an environment with an
\* ancestor or with p.
OfTheFamily(x, p) ==
  \/ \E a \in proc[p].line : Home(claims[x].by) = Home(a)
  \/ SharesItsEnv(p) /\ Home(claims[x].by) = Home(p)

\* The parent that a process will name.
Parents ==
  \A p \in Process : Live(p) =>
    /\ proc[p].creator # None /\ ~ SharesItsEnv(p) =>
         environ[Home(p)].parent = proc[p].descent
    /\ environ[Home(p)].parent # None => OfTheFamily(environ[Home(p)].parent, p)

Claims ==
  \A s \in Session : claims[s].by # None =>
    /\ proc[claims[s].by].creator # None /\ ~ SharesItsEnv(claims[s].by) =>
         claims[s].parent = proc[claims[s].by].descent
    /\ claims[s].parent # None => OfTheFamily(claims[s].parent, claims[s].by)

TreeInv ==
  /\ TypeOK /\ Homes /\ Lines /\ Keys /\ Births /\ Holders /\ Parents /\ Claims
-----------------------------------------------------------------------------
(***************************************************************************)
(* Creation: the four ways to create a process have this in common.         *)
(***************************************************************************)

\* p creates c, with the record r and, if c has an environment, e.
Born(p, c, r, e) ==
  /\ Live(p) /\ ~ Live(c)
  /\ proc' = [proc EXCEPT ![c] = r]
  /\ environ' = [environ EXCEPT ![c] = e]
  /\ claims' = claims /\ learned' = learned
  /\ r \in ProcessRecord /\ e \in Env
  /\ r.phase \in {"plain", "booting"}
  /\ r.line = LineOf(p)
  /\ r.control = None /\ r.deeds = {} /\ ~ r.key
  /\ \/ r.home = c
     \/ /\ r.home = Home(p) /\ e = environ[c]
        /\ r.phase = "booting" /\ r.creator = p /\ r.payload # {}
  /\ r.creator # None =>
       r.creator = p /\ Wrapped(p) /\ r.descent = proc[p].control
  /\ r.creator = None => r.descent = None
  /\ r.payload # {} => r.creator = p
  /\ r.home = c /\ e.key => r.phase = "booting" /\ r.creator = p
  /\ r.home = c /\ r.creator # None => e.parent = r.descent
  /\ r.home = c => \/ e.parent \in {None, environ[Home(p)].parent}
                   \/ Wrapped(p) /\ e.parent = proc[p].control
  /\ \A legacy \in r.legacy :
       /\ r.payload = {} => r.home = c /\ containmentFromEnv(e) = legacy
       /\ \A payload \in r.payload : payload.containment = legacy
  /\ \A payload \in r.payload : payload.parent = r.descent

LEMMA EnvFields ==
  ASSUME TypeOK, NEW p \in Process
  PROVE  /\ proc[p] \in ProcessRecord
         /\ Home(p) \in Process
         /\ environ[p] \in Env
         /\ environ[Home(p)] \in Env
BY DEF TypeOK, ProcessRecord, Home

LEMMA NoStateType == NoEnv \in Env /\ NoState \in ContainmentState
<1>1. NoEnv \in Env
  BY DEF NoEnv, Env, Unset
<1>2. QED
  BY <1>1, ContainmentFromEnvType DEF NoState, Env

LEMMA NewProcessType ==
  ASSUME NEW home \in Process, NEW phase \in {"absent", "plain", "booting", "wrapped"},
         NEW line \in SUBSET Process
  PROVE  newProcess(home, phase, line) \in ProcessRecord
BY NoStateType DEF newProcess, ProcessRecord

LEMMA ProtectedEnvType ==
  ASSUME NEW creator \in ProcessRecord, NEW base \in Env, NEW node \in BOOLEAN
  PROVE  /\ buildProtectedEnv(creator, base, node) \in Env
         /\ node => containmentFromEnv(buildProtectedEnv(creator, base, node))
                      = creator.state
<1> DEFINE containment == protectedContainment(creator.state, node)
           env == buildProtectedEnv(creator, base, node)
<1>1. creator.state \in ContainmentState /\ creator.control \in Session \cup {None}
  BY DEF ProcessRecord
<1>2. containment \in ContainmentEnv
  <2>1. CASE node
    BY <1>1, <2>1, ContainmentEnvType DEF protectedContainment
  <2>2. CASE ~ node
    BY <1>1, <2>2
    DEF protectedContainment, NoContainmentEnv, ContainmentEnv, ContainmentState, Unset
  <2>3. QED
    BY <2>1, <2>2
<1>3. env = [mode |-> containment.mode, modes |-> containment.modes,
             rules |-> containment.rules,
             preload |-> requiresPreload(base, node),
             key |-> node /\ (creator.key \/ base.key),
             parent |-> parentVariable(creator, base, node)]
  BY DEF buildProtectedEnv
<1>4. requiresPreload(base, node) \in BOOLEAN /\ (node /\ (creator.key \/ base.key)) \in BOOLEAN
  BY DEF requiresPreload, Env
<1>5. parentVariable(creator, base, node) \in Session \cup {None}
  BY <1>1 DEF parentVariable
<1>6. containment.mode \in SUBSET ProcessContainmentMode /\ containment.modes \in SUBSET CapabilityModes
        /\ containment.rules \in SUBSET Allowlist
  BY <1>2 DEF ContainmentEnv
<1>7. env \in Env
  <2> HIDE DEF containment, env
  <2>1. QED
    BY <1>3, <1>4, <1>5, <1>6 DEF Env
<1>8. ASSUME node PROVE containmentFromEnv(env) = creator.state
  <2>1. containment = containmentEnv(creator.state)
    BY <1>8 DEF protectedContainment
  <2>2. env.mode = containment.mode /\ env.modes = containment.modes
          /\ env.rules = containment.rules
    BY <1>3
  <2> HIDE DEF containment, env
  <2>3. QED
    BY <1>1, <2>1, <2>2, RoundTrip
<1>9. QED
  BY <1>7, <1>8

LEMMA ChildOfType ==
  ASSUME TypeOK, NEW p \in Process, NEW home \in Process
  PROVE  childOf(p, home) \in ProcessRecord
<1>1. LineOf(p) \in SUBSET Process
  BY EnvFields DEF LineOf, ProcessRecord
<1>2. newProcess(home, "booting", LineOf(p)) \in ProcessRecord
  BY <1>1, NewProcessType
<1>3. proc[p].state \in ContainmentState /\ proc[p].control \in Session \cup {None}
  BY EnvFields DEF ProcessRecord
<1> DEFINE new    == newProcess(home, "booting", LineOf(p))
           legacy == {proc[p].state}
           descent == proc[p].control
<1>4. childOf(p, home) = [new EXCEPT !.creator = p, !.legacy = legacy,
                                     !.descent = descent]
  BY DEF childOf
<1>5. new \in ProcessRecord /\ legacy \in SUBSET ContainmentState
        /\ descent \in Session \cup {None} /\ p \in Process \cup {None}
  BY <1>2, <1>3
<1> HIDE DEF new, legacy, descent
<1>6. QED
  BY <1>4, <1>5 DEF ProcessRecord

\* What the record of a child says.
LEMMA ChildOfIs ==
  ASSUME NEW p \in Process, NEW home \in Process, NEW r, r = childOf(p, home)
  PROVE  /\ r.phase = "booting" /\ r.home = home /\ r.payload = {} /\ ~ r.key
         /\ r.control = None /\ r.line = LineOf(p) /\ r.creator = p
         /\ r.descent = proc[p].control /\ r.legacy = {proc[p].state}
         /\ r.deeds = {}
BY DEF childOf, newProcess

LEMMA StartedIsBorn ==
  ASSUME TreeInv, NEW p \in Process, NEW c \in Process, NEW t \in Target,
         NEW ownEnv \in BOOLEAN, StartProcess(p, c, t, ownEnv)
  PROVE  \E r \in ProcessRecord, e \in Env : Born(p, c, r, e)
<1> USE DEF TreeInv
<1> DEFINE node == t \in NodeCommand
           base == IF ownEnv THEN NoEnv ELSE environ[Home(p)]
           e == buildProtectedEnv(proc[p], base, node)
           r == IF node THEN childOf(p, c) ELSE newProcess(c, "plain", LineOf(p))
<1>1. base \in Env
  BY EnvFields, NoStateType
<1>2. proc[p] \in ProcessRecord /\ LineOf(p) \in SUBSET Process
  BY EnvFields DEF LineOf, ProcessRecord
<1>3. e \in Env /\ (node => containmentFromEnv(e) = proc[p].state)
  <2>1. node \in BOOLEAN
    OBVIOUS
  <2> HIDE DEF node, base
  <2>2. QED
    BY <1>1, <1>2, <2>1, ProtectedEnvType
<1>4. r \in ProcessRecord
  BY <1>2, ChildOfType, NewProcessType
<1>5. e.parent = (IF node THEN proc[p].control ELSE None) /\ (e.key => node)
  BY DEF buildProtectedEnv, parentVariable
<1>6. /\ Wrapped(p) /\ ~ Live(c) /\ claims' = claims /\ learned' = learned
      /\ proc' = [proc EXCEPT ![c] = r] /\ environ' = [environ EXCEPT ![c] = e]
  BY DEF StartProcess, Live
<1> HIDE DEF base, e
<1>7. CASE node
  <2>1. r = childOf(p, c)
    BY <1>7
  <2> HIDE DEF node, r
  <2>2. /\ r.phase = "booting" /\ r.home = c /\ r.payload = {} /\ ~ r.key
        /\ r.control = None /\ r.line = LineOf(p) /\ r.creator = p
        /\ r.descent = proc[p].control /\ r.legacy = {proc[p].state} /\ r.deeds = {}
    BY <2>1, ChildOfIs
  <2>3. Born(p, c, r, e)
    BY <1>3, <1>4, <1>5, <1>6, <1>7, <2>2 DEF Born, Live, Wrapped
  <2>4. QED
    BY <1>3, <1>4, <2>3
<1>8. CASE ~ node
  <2>1. r = newProcess(c, "plain", LineOf(p))
    BY <1>8
  <2> HIDE DEF node, r
  <2>2. /\ r.phase = "plain" /\ r.home = c /\ r.payload = {} /\ ~ r.key
        /\ r.control = None /\ r.line = LineOf(p) /\ r.creator = None
        /\ r.descent = None /\ r.legacy = {} /\ r.deeds = {}
    BY <2>1 DEF newProcess
  <2>3. e.parent = None /\ ~ e.key
    BY <1>5, <1>8
  <2>4. Live(p)
    BY <1>6 DEF Live, Wrapped
  <2>5. r \in ProcessRecord /\ e \in Env
    BY <1>3, <1>4
  <2>6. Born(p, c, r, e)
    BY <1>6, <2>2, <2>3, <2>4, <2>5 DEF Born
  <2>7. QED
    BY <2>5, <2>6
<1>9. QED
  BY <1>7, <1>8

LEMMA CopiedIsBorn ==
  ASSUME TreeInv, NEW p \in Process, NEW c \in Process, NEW phase \in {"plain", "booting"},
         Live(p), ~ Live(c), proc[p].phase # "booting",
         proc' = [proc EXCEPT ![c] = newProcess(c, phase, LineOf(p))],
         environ' = [environ EXCEPT ![c] = environ[Home(p)]],
         claims' = claims, learned' = learned
  PROVE  \E r \in ProcessRecord, e \in Env : Born(p, c, r, e)
<1> USE DEF TreeInv
<1> DEFINE r == newProcess(c, phase, LineOf(p))
           e == environ[Home(p)]
<1>1. e \in Env /\ LineOf(p) \in SUBSET Process
  BY EnvFields DEF LineOf, ProcessRecord
<1>2. r \in ProcessRecord
  BY <1>1, NewProcessType
<1>3. ~ e.key
  BY DEF Keys
<1>4. /\ r.phase = phase /\ r.home = c /\ r.payload = {} /\ ~ r.key
      /\ r.control = None /\ r.line = LineOf(p) /\ r.creator = None
      /\ r.descent = None /\ r.legacy = {} /\ r.deeds = {}
  BY DEF newProcess
<1>5. proc' = [proc EXCEPT ![c] = r] /\ environ' = [environ EXCEPT ![c] = e]
  OBVIOUS
<1>6. e.parent = environ[Home(p)].parent
  OBVIOUS
<1> HIDE DEF r, e
<1>7. Born(p, c, r, e)
  BY <1>1, <1>2, <1>3, <1>4, <1>5, <1>6 DEF Born
<1>8. QED
  BY <1>1, <1>2, <1>7

LEMMA WorkerIsBorn ==
  ASSUME TreeInv, NEW p \in Process, NEW c \in Process, NEW shareEnv \in BOOLEAN,
         StartWorker(p, c, shareEnv)
  PROVE  \E r \in ProcessRecord, e \in Env : Born(p, c, r, e)
<1> USE DEF TreeInv
<1> DEFINE home == IF shareEnv THEN Home(p) ELSE c
           payload == buildWorkerBootstrapPayload(proc[p])
           r == [childOf(p, home) EXCEPT !.payload = {payload}]
           e == IF shareEnv THEN environ[c]
                ELSE buildProtectedEnv(proc[p], environ[Home(p)], TRUE)
<1>1. proc[p] \in ProcessRecord /\ home \in Process
  BY EnvFields
<1>2. payload \in WorkerBootstrapPayload
  BY <1>1 DEF buildWorkerBootstrapPayload, WorkerBootstrapPayload, ProcessRecord
<1>3. /\ childOf(p, home) \in ProcessRecord
      /\ \A q : q = childOf(p, home) =>
           /\ q.phase = "booting" /\ q.home = home /\ ~ q.key
           /\ q.control = None /\ q.line = LineOf(p) /\ q.creator = p
           /\ q.descent = proc[p].control /\ q.legacy = {proc[p].state} /\ q.deeds = {}
  BY <1>1, ChildOfType, ChildOfIs
<1>4. /\ r \in ProcessRecord
      /\ r.phase = "booting" /\ r.home = home /\ r.payload = {payload} /\ ~ r.key
      /\ r.control = None /\ r.line = LineOf(p) /\ r.creator = p
      /\ r.descent = proc[p].control /\ r.legacy = {proc[p].state} /\ r.deeds = {}
  <2> DEFINE child == childOf(p, home)
  <2>1. r = [child EXCEPT !.payload = {payload}] /\ child \in ProcessRecord
    BY <1>3
  <2>2. /\ child.phase = "booting" /\ child.home = home /\ ~ child.key
        /\ child.control = None /\ child.line = LineOf(p) /\ child.creator = p
        /\ child.descent = proc[p].control /\ child.legacy = {proc[p].state}
        /\ child.deeds = {}
    BY <1>3
  <2> HIDE DEF child, payload, home, r
  <2>3. QED
    BY <1>2, <2>1, <2>2 DEF ProcessRecord
<1>5. payload.containment = proc[p].state /\ payload.parent = proc[p].control
  BY DEF buildWorkerBootstrapPayload
<1>6. e \in Env /\ (~ shareEnv => e.parent = proc[p].control)
  BY <1>1, EnvFields, ProtectedEnvType DEF buildProtectedEnv, parentVariable
<1>7. /\ Wrapped(p) /\ Live(p) /\ ~ Live(c) /\ claims' = claims /\ learned' = learned
      /\ proc' = [proc EXCEPT ![c] = r]
  BY DEF StartWorker, Live, Wrapped
<1>8. environ' = [environ EXCEPT ![c] = e]
  BY DEF StartWorker, TypeOK
<1>9. \/ home = c /\ ~ shareEnv
      \/ home = Home(p) /\ home # c /\ e = environ[c]
  BY <1>7 DEF Live, Wrapped, Homes
<1> HIDE DEF r, e, home, payload
<1>10. Born(p, c, r, e)
  BY <1>4, <1>5, <1>6, <1>7, <1>8, <1>9 DEF Born
<1>11. QED
  BY <1>4, <1>6, <1>10

LEMMA CreatedIsBorn ==
  ASSUME TreeInv, NEW p \in Process, NEW c \in Process, Create(p, c)
  PROVE  \E r \in ProcessRecord, e \in Env : Born(p, c, r, e)
<1>1. CASE \E t \in Target, ownEnv \in BOOLEAN : StartProcess(p, c, t, ownEnv)
  BY <1>1, StartedIsBorn
<1>2. CASE \E t \in Target : ExecWithCallback(p, c, t)
  BY <1>2, CopiedIsBorn DEF ExecWithCallback, Live, Wrapped
<1>3. CASE \E shareEnv \in BOOLEAN : StartWorker(p, c, shareEnv)
  BY <1>3, WorkerIsBorn
<1>4. CASE \E node \in BOOLEAN : PlainStarts(p, c, node)
  BY <1>4, CopiedIsBorn DEF PlainStarts, Live
<1>5. QED
  BY <1>1, <1>2, <1>3, <1>4 DEF Create
-----------------------------------------------------------------------------
(***************************************************************************)
(* What never changes once a process lives or a session is claimed.         *)
(***************************************************************************)

Onward ==
  /\ \A p \in Process : Live(p) =>
       /\ Live(p)' /\ Home(p)' = Home(p)
       /\ proc'[p].line = proc[p].line
       /\ proc'[p].creator = proc[p].creator
       /\ proc'[p].descent = proc[p].descent
       /\ Wrapped(p) => Wrapped(p)'
  /\ \A s \in Session : claims[s].by # None => claims'[s] = claims[s]

LEMMA SharingOnward ==
  ASSUME TreeInv, Onward, NEW p \in Process, Live(p), SharesItsEnv(p)
  PROVE  SharesItsEnv(p)'
BY DEF Onward, SharesItsEnv, Live

LEMMA FamilyOnward ==
  ASSUME TreeInv, Onward, NEW p \in Process, Live(p), NEW x \in Session,
         claims[x].by # None, OfTheFamily(x, p)
  PROVE  OfTheFamily(x, p)'
<1> USE DEF TreeInv
<1>1. claims'[x] = claims[x] /\ claims[x].by \in Process /\ Live(claims[x].by)
  BY DEF Onward, Holders, TypeOK, Live, Wrapped
<1>2. Home(claims[x].by)' = Home(claims[x].by)
  BY <1>1 DEF Onward
<1>3. CASE \E a \in proc[p].line : Home(claims[x].by) = Home(a)
  <2>1. PICK a \in proc[p].line : Home(claims[x].by) = Home(a)
    BY <1>3
  <2>2. a \in Process /\ Live(a) /\ a \in proc'[p].line
    BY EnvFields DEF Lines, Onward, ProcessRecord
  <2>3. Home(a)' = Home(a)
    BY <2>2 DEF Onward
  <2>4. QED
    BY <1>2, <2>1, <2>2, <2>3 DEF OfTheFamily
<1>4. CASE SharesItsEnv(p) /\ Home(claims[x].by) = Home(p)
  <2>1. SharesItsEnv(p)' /\ Home(p)' = Home(p)
    BY <1>4, SharingOnward DEF Onward
  <2>2. QED
    BY <1>2, <1>4, <2>1 DEF OfTheFamily
<1>5. QED
  BY <1>3, <1>4 DEF OfTheFamily

\* What was true of a session when it was claimed stays true.
LEMMA ClaimOnward ==
  ASSUME TreeInv, Onward, NEW s \in Session, claims[s].by # None
  PROVE  /\ proc'[claims'[s].by].creator # None /\ ~ SharesItsEnv(claims[s].by)' =>
              claims'[s].parent = proc'[claims'[s].by].descent
         /\ claims'[s].parent # None => OfTheFamily(claims[s].parent, claims[s].by)'
<1> USE DEF TreeInv
<1>1. PICK p \in Process : p = claims[s].by
  BY DEF TypeOK
<1>2. PICK x \in Session \cup {None} : x = claims[s].parent
  BY DEF TypeOK
<1>3. Live(p) /\ claims'[s] = claims[s] /\ (x # None => claims[x].by # None)
  BY <1>1, <1>2 DEF Onward, Holders, Live, Wrapped
<1>4. proc[p].creator # None /\ ~ SharesItsEnv(p) => x = proc[p].descent
  BY <1>1, <1>2 DEF Claims
<1>5. x # None => OfTheFamily(x, p)
  BY <1>1, <1>2 DEF Claims
<1>6. proc'[p].creator # None /\ ~ SharesItsEnv(p)' => x = proc'[p].descent
  BY <1>3, <1>4, SharingOnward DEF Onward
<1>7. x # None => OfTheFamily(x, p)'
  BY <1>3, <1>5, FamilyOnward
<1>8. QED
  BY <1>1, <1>2, <1>3, <1>6, <1>7
-----------------------------------------------------------------------------
(***************************************************************************)
(* Creation preserves the invariant.                                        *)
(***************************************************************************)

LEMMA BornFrame ==
  ASSUME TreeInv, NEW p \in Process, NEW c \in Process, NEW r \in ProcessRecord,
         NEW e \in Env, Born(p, c, r, e)
  PROVE  /\ TypeOK'
         /\ \A q \in Process \ {c} :
              proc'[q] = proc[q] /\ environ'[q] = environ[q] /\ Home(q) # c
         /\ proc'[c] = r /\ environ'[c] = e
         /\ p # c /\ Live(c)'
         /\ Onward
<1> USE DEF TreeInv
<1>1. TypeOK'
  BY DEF Born, TypeOK
<1>2. proc'[c] = r /\ environ'[c] = e
  BY DEF Born, TypeOK
<1>3. \A q \in Process \ {c} : proc'[q] = proc[q] /\ environ'[q] = environ[q]
  BY DEF Born, TypeOK
<1>4. \A q \in Process \ {c} : Home(q) # c
  BY DEF Born, Homes, Live, Wrapped
<1>5. p # c /\ Live(c)'
  BY <1>2 DEF Born, Live
<1>6. \A q \in Process : Live(q) => q # c
  BY DEF Born
<1>7. \A q \in Process : Live(q) =>
         /\ Live(q)' /\ Home(q)' = Home(q)
         /\ proc'[q].line = proc[q].line
         /\ proc'[q].creator = proc[q].creator
         /\ proc'[q].descent = proc[q].descent
         /\ Wrapped(q) => Wrapped(q)'
  BY <1>3, <1>6 DEF Live, Home, Wrapped
<1>8. Onward
  BY <1>7 DEF Onward, Born
<1>9. QED
  BY <1>1, <1>2, <1>3, <1>4, <1>5, <1>8

LEMMA BornKeepsShape ==
  ASSUME TreeInv, NEW p \in Process, NEW c \in Process, NEW r \in ProcessRecord,
         NEW e \in Env, Born(p, c, r, e)
  PROVE  Homes' /\ Lines' /\ Keys' /\ Births'
<1> USE DEF TreeInv
<1>1. /\ \A q \in Process \ {c} :
           proc'[q] = proc[q] /\ environ'[q] = environ[q] /\ Home(q) # c
      /\ proc'[c] = r /\ environ'[c] = e
      /\ p # c /\ Live(c)'
      /\ Onward
  BY BornFrame
<1>2. \A q \in Process \ {c} :
        /\ Home(q)' = Home(q) /\ Live(q)' = Live(q) /\ Wrapped(q)' = Wrapped(q)
        /\ Home(q) \in Process
  BY <1>1, EnvFields DEF Home, Live, Wrapped
<1>3. Home(c)' = r.home /\ ~ Wrapped(c)' /\ ~ Live(c)
  BY <1>1 DEF Home, Wrapped, Born
<1>4. Homes'
  <2> SUFFICES ASSUME NEW q \in Process
               PROVE  /\ Home(Home(q))' = Home(q)'
                      /\ ~ Live(q)' => Home(q)' = q
                      /\ Home(q)' # q =>
                           /\ proc'[q].phase \in {"booting", "wrapped"}
                           /\ proc'[q].creator # None
                           /\ Wrapped(Home(q))'
                           /\ Home(proc[q].creator)' = Home(q)'
    BY DEF Homes
  <2>1. CASE q = c
    <3>1. CASE r.home = c
      BY <1>1, <1>3, <2>1, <3>1
    <3>2. CASE r.home = Home(p) /\ r.phase = "booting" /\ r.creator = p /\ Wrapped(p)
      <4>1. Home(p) # c /\ Home(Home(p))' = Home(p) /\ Wrapped(Home(p))'
        BY <1>1, <1>2, <3>2 DEF Homes
      <4>2. Home(p)' = Home(p)
        BY <1>1, <1>2
      <4>3. QED
        BY <1>1, <1>3, <2>1, <3>2, <4>1, <4>2
    <3>3. QED
      BY <3>1, <3>2 DEF Born
  <2>2. CASE q # c
    <3>1. Home(q) \in Process \ {c} /\ Home(Home(q))' = Home(Home(q))
      BY <1>1, <1>2, <2>2
    <3>2. Home(q) # q => proc[q].creator \in Process /\ proc[q].creator # c
      BY <1>3, EnvFields DEF Homes, Lines, Live, Wrapped, ProcessRecord
    <3>3. QED
      BY <1>1, <1>2, <2>2, <3>1, <3>2 DEF Homes
  <2>3. QED
    BY <2>1, <2>2
<1>5. Lines'
  <2> SUFFICES ASSUME NEW q \in Process
               PROVE  /\ \A a \in proc'[q].line : Live(a)'
                      /\ proc'[q].creator # None =>
                           /\ proc'[q].creator \in proc'[q].line
                           /\ Wrapped(proc[q].creator)'
    BY DEF Lines
  <2>1. CASE q = c
    <3>1. r.line = proc[p].line \cup {p} /\ proc[p].line \subseteq Process /\ Live(p)
      BY EnvFields DEF Born, LineOf, ProcessRecord
    <3>2. \A a \in r.line : Live(a) /\ a \in Process
      BY <3>1 DEF Lines
    <3>3. r.creator # None => r.creator = p /\ Wrapped(p)
      BY DEF Born
    <3>4. QED
      BY <1>1, <2>1, <3>1, <3>2, <3>3 DEF Onward
  <2>2. CASE q # c
    <3>1. proc[q].line \subseteq Process /\ proc[q].creator \in Process \cup {None}
      BY EnvFields DEF ProcessRecord
    <3>2. QED
      BY <1>1, <2>2, <3>1 DEF Lines, Onward, Wrapped, Live
  <2>3. QED
    BY <2>1, <2>2
<1>6. Keys'
  <2> SUFFICES ASSUME NEW q \in Process
               PROVE  /\ Live(q)' /\ environ'[Home(q)'].key =>
                           /\ proc'[q].phase = "booting" /\ Home(q)' = q
                           /\ proc'[q].creator # None \/ q = Root
                      /\ proc'[q].key => proc'[q].creator # None \/ q = Root
                      /\ proc'[q].payload # {} => proc'[q].creator # None
    BY DEF Keys
  <2>1. CASE q = c
    <3>1. CASE r.home = c
      BY <1>1, <1>3, <2>1, <3>1 DEF Born
    <3>2. CASE r.home = Home(p) /\ r.creator = p /\ Wrapped(p)
      <4>1. ~ environ[Home(p)].key /\ environ'[Home(p)] = environ[Home(p)]
        BY <1>1, <1>2, <3>2 DEF Keys, Live, Wrapped
      <4>2. QED
        BY <1>1, <1>3, <2>1, <3>2, <4>1 DEF Born
    <3>3. QED
      BY <3>1, <3>2 DEF Born
  <2>2. CASE q # c
    BY <1>1, <1>2, <2>2 DEF Keys
  <2>3. QED
    BY <2>1, <2>2
<1>7. Births'
  <2> SUFFICES ASSUME NEW q \in Process, NEW legacy \in proc'[q].legacy
               PROVE  /\ proc'[q].control = None
                      /\ proc'[q].phase = "booting" =>
                           /\ proc'[q].payload = {} =>
                                /\ Home(q)' = q
                                /\ containmentFromEnv(environ'[q]) = legacy
                           /\ \A payload \in proc'[q].payload :
                                payload.containment = legacy
                      /\ Wrapped(q)' => proc'[q].state = legacy
                      /\ \A t \in proc'[q].deeds : ~ Refused(legacy, t)
    BY DEF Births
  <2>1. CASE q = c
    BY <1>1, <1>3, <2>1 DEF Born
  <2>2. CASE q # c
    BY <1>1, <1>2, <2>2 DEF Births
  <2>3. QED
    BY <2>1, <2>2
<1>8. QED
  BY <1>4, <1>5, <1>6, <1>7

LEMMA BornKeepsDescent ==
  ASSUME TreeInv, NEW p \in Process, NEW c \in Process, NEW r \in ProcessRecord,
         NEW e \in Env, Born(p, c, r, e)
  PROVE  Holders' /\ Parents' /\ Claims'
<1> USE DEF TreeInv
<1>1. /\ \A q \in Process \ {c} :
           proc'[q] = proc[q] /\ environ'[q] = environ[q] /\ Home(q) # c
      /\ proc'[c] = r /\ environ'[c] = e
      /\ p # c /\ Live(c)' /\ Live(p)
      /\ Onward /\ claims' = claims
  <2>1. Live(p) /\ claims' = claims
    BY DEF Born
  <2>2. QED
    BY <2>1, BornFrame
<1>2. \A q \in Process \ {c} :
        /\ Home(q)' = Home(q) /\ Live(q)' = Live(q) /\ Wrapped(q)' = Wrapped(q)
        /\ Home(q) \in Process
  BY <1>1, EnvFields DEF Home, Live, Wrapped
<1>3. Home(c)' = r.home /\ ~ Wrapped(c)' /\ ~ Live(c)
  BY <1>1 DEF Home, Wrapped, Born
<1>4. \A q \in Process : environ[q].parent \in Session \cup {None}
  BY EnvFields DEF Env
<1>5. proc[p].control \in Session \cup {None} /\ e.parent \in Session \cup {None}
  BY EnvFields DEF ProcessRecord, Env
<1>6. e.parent # None => claims[e.parent].by # None
  BY <1>1, <1>2, <1>4 DEF Born, Holders
<1>7. Holders'
  <2>1. \A s \in Session :
          /\ claims'[s].by # None => Wrapped(claims[s].by)'
          /\ claims'[s].parent # None => claims'[claims'[s].parent].by # None
    <3>1. \A s \in Session : claims[s].by \in Process \cup {None}
      BY DEF TypeOK
    <3>2. \A s \in Session : claims[s].by # None =>
            Live(claims[s].by) /\ Wrapped(claims[s].by)
      BY DEF Holders, Live, Wrapped
    <3>3. QED
      BY <1>1, <3>1, <3>2 DEF Holders, Onward
  <2>2. ASSUME NEW q \in Process
        PROVE  /\ proc'[q].control # None => claims'[proc'[q].control].by = q
               /\ proc'[q].descent # None =>
                    /\ proc'[q].creator # None
                    /\ claims'[proc'[q].descent].by = proc'[q].creator
               /\ \A payload \in proc'[q].payload : payload.parent = proc'[q].descent
               /\ environ'[q].parent # None => claims'[environ'[q].parent].by # None
    <3>1. CASE q = c
      BY <1>1, <1>6, <3>1 DEF Born, Holders
    <3>2. CASE q # c
      BY <1>1, <3>2 DEF Holders
    <3>3. QED
      BY <3>1, <3>2
  <2>3. QED
    BY <2>1, <2>2 DEF Holders
<1>8. Parents'
  <2> SUFFICES ASSUME NEW q \in Process, Live(q)'
               PROVE  /\ proc'[q].creator # None /\ ~ SharesItsEnv(q)' =>
                           environ'[Home(q)'].parent = proc'[q].descent
                      /\ environ'[Home(q)'].parent # None =>
                           OfTheFamily(environ[Home(q)].parent, q)'
    BY DEF Parents
  <2>1. CASE q # c
    <3>1. PICK x \in Session \cup {None} : x = environ[Home(q)].parent
      BY <1>2, <1>4, <2>1
    <3>2. Live(q) /\ environ'[Home(q)'].parent = x /\ proc'[q] = proc[q]
      BY <1>1, <1>2, <2>1, <3>1
    <3>3. x # None => claims[x].by # None /\ OfTheFamily(x, q)
      BY <1>2, <2>1, <3>1, <3>2 DEF Holders, Parents
    <3>4. x # None => OfTheFamily(x, q)'
      BY <1>1, <3>2, <3>3, FamilyOnward
    <3>5. proc[q].creator # None /\ ~ SharesItsEnv(q) => x = proc[q].descent
      BY <3>1, <3>2 DEF Parents
    <3>6. QED
      BY <1>1, <3>2, <3>4, <3>5, SharingOnward
  <2>2. CASE q = c
    \* x is of the family of p, or belongs to p, or to one in its environment
    <3>1. PICK x \in Session \cup {None} :
            x = IF r.home = c THEN e.parent ELSE environ[Home(p)].parent
      BY <1>1, <1>2, <1>4, <1>5
    <3>2. environ'[Home(c)'].parent = x
      BY <1>1, <1>2, <1>3, <3>1 DEF Born
    <3>3. \/ x \in {None, environ[Home(p)].parent}
          \/ Wrapped(p) /\ x = proc[p].control
      BY <3>1 DEF Born
    <3>4. ASSUME x # None  PROVE OfTheFamily(x, c)'
      <4>1. claims[x].by # None /\ claims[x].by \in Process
        <5>1. claims[x].by \in Process \cup {None} /\ Home(p) \in Process
          BY <1>1, <1>2, <3>4 DEF TypeOK
        <5>2. CASE x = environ[Home(p)].parent
          BY <3>4, <5>1, <5>2 DEF Holders
        <5>3. CASE x = proc[p].control
          BY <3>4, <5>1, <5>3 DEF Holders
        <5>4. QED
          BY <3>3, <3>4, <5>1, <5>2, <5>3
      <4>2. Home(claims[x].by)' = Home(claims[x].by) /\ claims'[x] = claims[x]
        <5>1. Live(claims[x].by)
          BY <3>4, <4>1 DEF Holders, Live, Wrapped
        <5>2. QED
          BY <1>1, <4>1, <5>1 DEF Onward
      <4>3. \E a \in proc[p].line \cup {p} : Home(claims[x].by) = Home(a)
        <5>1. CASE x = environ[Home(p)].parent
          BY <1>1, <3>4, <5>1 DEF Parents, OfTheFamily
        <5>2. CASE Wrapped(p) /\ x = proc[p].control
          BY <3>4, <5>2 DEF Holders
        <5>3. QED
          BY <3>3, <3>4, <5>1, <5>2
      <4>4. PICK a \in proc[p].line \cup {p} : Home(claims[x].by) = Home(a)
        BY <4>3
      <4>5. a \in Process /\ Live(a)
        BY <1>1, EnvFields DEF Lines, ProcessRecord
      <4>6. Home(a)' = Home(a) /\ a \in proc'[c].line
        BY <1>1, <4>5 DEF Onward, Born, LineOf
      <4>7. QED
        BY <4>2, <4>4, <4>6 DEF OfTheFamily
    <3>5. ASSUME r.creator # None, ~ SharesItsEnv(c)'  PROVE x = r.descent
      <4>1. CASE r.home = c
        BY <3>1, <3>5, <4>1 DEF Born
      <4>2. CASE r.home = Home(p)
        <5>1. Home(p)' = Home(c)' /\ Live(p)' /\ p \in Process \ {c}
          BY <1>1, <1>2, <1>3, <4>2
        <5>2. SharesItsEnv(c)'
          BY <5>1 DEF SharesItsEnv, Live
        <5>3. QED
          BY <3>5, <5>2
      <4>3. QED
        BY <4>1, <4>2 DEF Born
    <3>6. QED
      BY <1>1, <2>2, <3>2, <3>4, <3>5
  <2>3. QED
    BY <2>1, <2>2
<1>9. Claims'
  BY <1>1, ClaimOnward DEF Claims
<1>10. QED
  BY <1>7, <1>8, <1>9
-----------------------------------------------------------------------------
(***************************************************************************)
(* Installation preserves the invariant.                                    *)
(***************************************************************************)

\* the environment that an installation leaves
installedEnv(p) ==
  scrubbed(IF proc[p].payload = {} THEN environ[Home(p)]
           ELSE applyPayload(environ[Home(p)], TheValue(proc[p].payload)))

LEMMA InstalledEnvIs ==
  ASSUME TypeOK, NEW p \in Process
  PROVE  /\ installedEnv(p) \in Env
         /\ ~ installedEnv(p).key
         /\ proc[p].payload = {} => installedEnv(p).parent = environ[Home(p)].parent
         /\ proc[p].payload # {} =>
              \E payload \in proc[p].payload : installedEnv(p).parent = payload.parent
<1> DEFINE env == environ[Home(p)]
           payload == TheValue(proc[p].payload)
<1>1. env \in Env /\ proc[p].payload \subseteq WorkerBootstrapPayload
  BY EnvFields DEF ProcessRecord
<1>2. ASSUME NEW any \in Env
      PROVE  scrubbed(any) \in Env /\ ~ scrubbed(any).key /\ scrubbed(any).parent = any.parent
  BY DEF scrubbed, Env
<1>3. CASE proc[p].payload = {}
  BY <1>1, <1>2, <1>3 DEF installedEnv
<1>4. CASE proc[p].payload # {}
  <2>1. payload \in proc[p].payload /\ payload \in WorkerBootstrapPayload
    BY <1>1, <1>4, TheValueIsOneOf
  <2> DEFINE containment == containmentEnv(payload.containment)
  <2>2. containment \in ContainmentEnv /\ payload.parent \in Session \cup {None}
    BY <2>1, ContainmentEnvType DEF WorkerBootstrapPayload
  <2>3. applyPayload(env, payload) =
          [env EXCEPT !.mode = containment.mode, !.modes = containment.modes,
                      !.rules = containment.rules, !.parent = payload.parent]
    BY DEF applyPayload
  <2>4. installedEnv(p) = scrubbed(applyPayload(env, payload))
    BY <1>4 DEF installedEnv
  <2> HIDE DEF env, payload, containment
  <2>5. applyPayload(env, payload) \in Env /\ applyPayload(env, payload).parent = payload.parent
    BY <1>1, <2>2, <2>3 DEF ContainmentEnv, Env
  <2>6. QED
    BY <1>2, <1>4, <2>1, <2>4, <2>5
<1>5. QED
  BY <1>3, <1>4

LEMMA InstalledIs ==
  ASSUME TypeOK, NEW p \in Process
  PROVE  /\ installed(p) \in ProcessRecord
         /\ installed(p).phase = "wrapped" /\ installed(p).payload = {}
         /\ installed(p).key => \/ environ[Home(p)].key
                                \/ proc[p].payload # {}
         /\ proc[p].payload = {} =>
              installed(p).state = containmentFromEnv(environ[Home(p)])
         /\ proc[p].payload # {} =>
              \E payload \in proc[p].payload : installed(p).state = payload.containment
         /\ installed(p).home = proc[p].home /\ installed(p).control = proc[p].control
         /\ installed(p).line = proc[p].line /\ installed(p).creator = proc[p].creator
         /\ installed(p).descent = proc[p].descent
         /\ installed(p).legacy = proc[p].legacy /\ installed(p).deeds = proc[p].deeds
<1> DEFINE state == IF proc[p].payload = {} THEN containmentFromEnv(environ[Home(p)])
                    ELSE TheValue(proc[p].payload).containment
           key == \/ environ[Home(p)].key
                  \/ \E payload \in proc[p].payload : payload.key
<1>1. proc[p] \in ProcessRecord /\ environ[Home(p)] \in Env
  BY EnvFields
<1>2. proc[p].payload # {} =>
        /\ TheValue(proc[p].payload) \in proc[p].payload
        /\ TheValue(proc[p].payload) \in WorkerBootstrapPayload
  BY <1>1, TheValueIsOneOf DEF ProcessRecord
<1>3. containmentFromEnv(environ[Home(p)]) \in ContainmentState
  BY <1>1, ContainmentFromEnvType DEF Env
<1>4. state \in ContainmentState /\ key \in BOOLEAN
  BY <1>2, <1>3 DEF WorkerBootstrapPayload
<1>5. installed(p) = [proc[p] EXCEPT !.phase = "wrapped", !.payload = {},
                                     !.state = state, !.key = key]
  BY DEF installed
<1>6. key => \/ environ[Home(p)].key
             \/ proc[p].payload # {}
  OBVIOUS
<1>7. /\ proc[p].payload = {} => state = containmentFromEnv(environ[Home(p)])
      /\ proc[p].payload # {} =>
           \E payload \in proc[p].payload : state = payload.containment
  BY <1>2
<1> HIDE DEF state, key
<1>8. installed(p) \in ProcessRecord
  BY <1>1, <1>4, <1>5 DEF ProcessRecord
<1>9. /\ installed(p).phase = "wrapped" /\ installed(p).payload = {}
      /\ installed(p).state = state /\ installed(p).key = key
      /\ installed(p).home = proc[p].home /\ installed(p).control = proc[p].control
      /\ installed(p).line = proc[p].line /\ installed(p).creator = proc[p].creator
      /\ installed(p).descent = proc[p].descent
      /\ installed(p).legacy = proc[p].legacy /\ installed(p).deeds = proc[p].deeds
  BY <1>1, <1>5 DEF ProcessRecord
<1>10. QED
  BY <1>6, <1>7, <1>8, <1>9

LEMMA InstallFrame ==
  ASSUME TreeInv, NEW p \in Process, Install(p)
  PROVE  /\ TypeOK'
         /\ proc'[p] = installed(p)
         /\ \A q \in Process \ {p} : proc'[q] = proc[q]
         /\ environ'[Home(p)] = installedEnv(p)
         /\ \A q \in Process \ {Home(p)} : environ'[q] = environ[q]
         /\ \A q \in Process : /\ Live(q)' = Live(q)
                               /\ Home(q)' = Home(q)
                               /\ Wrapped(q) => Wrapped(q)'
         /\ Onward /\ claims' = claims
<1> USE DEF TreeInv
<1>1. installed(p) \in ProcessRecord /\ installedEnv(p) \in Env /\ Home(p) \in Process
  BY InstalledIs, InstalledEnvIs, EnvFields
<1>2. /\ proc' = [proc EXCEPT ![p] = installed(p)]
      /\ environ' = [environ EXCEPT ![Home(p)] = installedEnv(p)]
      /\ claims' = claims /\ learned' = learned
  BY DEF Install, installedEnv
<1>3. TypeOK'
  BY <1>1, <1>2 DEF TypeOK
<1>4. /\ proc'[p] = installed(p)
      /\ \A q \in Process \ {p} : proc'[q] = proc[q]
      /\ environ'[Home(p)] = installedEnv(p)
      /\ \A q \in Process \ {Home(p)} : environ'[q] = environ[q]
  BY <1>1, <1>2 DEF TypeOK
<1>5. \A q \in Process : /\ Live(q)' = Live(q) /\ Home(q)' = Home(q)
                         /\ Wrapped(q) => Wrapped(q)'
                         /\ proc'[q].line = proc[q].line
                         /\ proc'[q].creator = proc[q].creator
                         /\ proc'[q].descent = proc[q].descent
  BY <1>4, InstalledIs DEF Live, Home, Wrapped, Install
<1>6. Onward
  BY <1>2, <1>5 DEF Onward
<1>7. QED
  BY <1>2, <1>3, <1>4, <1>5, <1>6

LEMMA InstallKeepsShape ==
  ASSUME TreeInv, NEW p \in Process, Install(p)
  PROVE  Homes' /\ Lines' /\ Keys' /\ Births'
<1> USE DEF TreeInv
<1>1. /\ proc'[p] = installed(p)
      /\ \A q \in Process \ {p} : proc'[q] = proc[q]
      /\ environ'[Home(p)] = installedEnv(p)
      /\ \A q \in Process \ {Home(p)} : environ'[q] = environ[q]
      /\ \A q \in Process : /\ Live(q)' = Live(q)
                            /\ Home(q)' = Home(q)
                            /\ Wrapped(q) => Wrapped(q)'
  BY InstallFrame
<1>2. /\ installed(p).phase = "wrapped" /\ installed(p).payload = {}
      /\ installed(p).line = proc[p].line /\ installed(p).creator = proc[p].creator
      /\ installed(p).legacy = proc[p].legacy /\ installed(p).deeds = proc[p].deeds
      /\ installed(p).control = proc[p].control /\ ~ installedEnv(p).key
      /\ proc[p].phase = "booting"
  BY InstalledIs, InstalledEnvIs DEF Install
<1>3. \A q \in Process : Home(q) \in Process /\ proc[q].creator \in Process \cup {None}
                           /\ proc[q].line \subseteq Process
  BY EnvFields DEF ProcessRecord
<1>4. \A q \in Process : proc'[q].line = proc[q].line /\ proc'[q].creator = proc[q].creator
  BY <1>1, <1>2
<1>5. Homes'
  <2> SUFFICES ASSUME NEW q \in Process
               PROVE  /\ Home(Home(q))' = Home(q)'
                      /\ ~ Live(q)' => Home(q)' = q
                      /\ Home(q)' # q =>
                           /\ proc'[q].phase \in {"booting", "wrapped"}
                           /\ proc'[q].creator # None
                           /\ Wrapped(Home(q))'
                           /\ Home(proc[q].creator)' = Home(q)'
    BY <1>4 DEF Homes
  <2>1. Home(Home(q))' = Home(Home(q)) /\ (Wrapped(Home(q)) => Wrapped(Home(q))')
    BY <1>1, <1>3
  <2>2. proc[q].creator # None => Home(proc[q].creator)' = Home(proc[q].creator)
    BY <1>1, <1>3, <1>4 DEF Home
  <2>3. proc[q].phase \in {"booting", "wrapped"} =>
          proc'[q].phase \in {"booting", "wrapped"}
    BY <1>1, <1>2
  <2>4. Live(q)' = Live(q) /\ Home(q)' = Home(q)
    BY <1>1
  <2>5. QED
    BY <1>4, <2>1, <2>2, <2>3, <2>4 DEF Homes
<1>6. Lines'
  BY <1>1, <1>3, <1>4 DEF Lines
<1>7. Keys'
  <2> SUFFICES ASSUME NEW q \in Process
               PROVE  /\ Live(q)' /\ environ'[Home(q)'].key =>
                           /\ proc'[q].phase = "booting" /\ Home(q)' = q
                           /\ proc'[q].creator # None \/ q = Root
                      /\ proc'[q].key => proc'[q].creator # None \/ q = Root
                      /\ proc'[q].payload # {} => proc'[q].creator # None
    BY DEF Keys
  <2>1. ASSUME Live(q)', environ'[Home(q)'].key
        PROVE  /\ proc'[q].phase = "booting" /\ Home(q)' = q
               /\ proc'[q].creator # None \/ q = Root
    <3>1. Home(q) # Home(p)
      BY <1>1, <1>2, <2>1
    <3>2. QED
      BY <1>1, <1>3, <2>1, <3>1 DEF Keys
  <2>2. proc'[q].key => proc'[q].creator # None \/ q = Root
    <3>1. CASE q = p
      <4>1. installed(p).key => environ[Home(p)].key \/ proc[p].payload # {}
        BY InstalledIs
      <4>2. Live(p)
        BY <1>2 DEF Live
      <4>3. QED
        BY <1>1, <1>2, <3>1, <4>1, <4>2 DEF Keys
    <3>2. CASE q # p
      BY <1>1, <3>2 DEF Keys
    <3>3. QED
      BY <3>1, <3>2
  <2>3. proc'[q].payload # {} => proc'[q].creator # None
    BY <1>1, <1>2 DEF Keys
  <2>4. QED
    BY <2>1, <2>2, <2>3
<1>8. Births'
  <2> SUFFICES ASSUME NEW q \in Process, NEW legacy \in proc'[q].legacy
               PROVE  /\ proc'[q].control = None
                      /\ proc'[q].phase = "booting" =>
                           /\ proc'[q].payload = {} =>
                                /\ Home(q)' = q
                                /\ containmentFromEnv(environ'[q]) = legacy
                           /\ \A payload \in proc'[q].payload :
                                payload.containment = legacy
                      /\ Wrapped(q)' => proc'[q].state = legacy
                      /\ \A t \in proc'[q].deeds : ~ Refused(legacy, t)
    BY DEF Births
  <2>1. CASE q = p
    <3>1. legacy \in proc[p].legacy
      BY <1>1, <1>2, <2>1
    <3>2. installed(p).state = legacy
      <4>1. CASE proc[p].payload = {}
        BY <1>2, <3>1, <4>1, InstalledIs DEF Births
      <4>2. CASE proc[p].payload # {}
        BY <1>2, <3>1, <4>2, InstalledIs DEF Births
      <4>3. QED
        BY <4>1, <4>2
    <3>3. QED
      BY <1>1, <1>2, <2>1, <3>1, <3>2 DEF Births
  <2>2. CASE q # p
    <3>1. proc'[q] = proc[q] /\ Home(q)' = Home(q) /\ (Wrapped(q)' => Wrapped(q))
      BY <1>1, <2>2 DEF Wrapped
    <3>2. proc[q].phase = "booting" => q # Home(p)
      \* the environment of a process that is booting is its own
      BY <1>3, <2>2 DEF Homes, Wrapped
    <3>3. proc[q].phase = "booting" => environ'[q] = environ[q]
      BY <1>1, <3>2
    <3>4. QED
      BY <3>1, <3>3 DEF Births
  <2>3. QED
    BY <2>1, <2>2
<1>9. QED
  BY <1>5, <1>6, <1>7, <1>8

LEMMA InstallKeepsDescent ==
  ASSUME TreeInv, NEW p \in Process, Install(p)
  PROVE  Holders' /\ Parents' /\ Claims'
<1> USE DEF TreeInv
<1>1. /\ proc'[p] = installed(p)
      /\ \A q \in Process \ {p} : proc'[q] = proc[q]
      /\ environ'[Home(p)] = installedEnv(p)
      /\ \A q \in Process \ {Home(p)} : environ'[q] = environ[q]
      /\ \A q \in Process : /\ Live(q)' = Live(q)
                            /\ Home(q)' = Home(q)
                            /\ Wrapped(q) => Wrapped(q)'
      /\ Onward /\ claims' = claims
  BY InstallFrame
<1>2. /\ installed(p).payload = {} /\ installed(p).control = proc[p].control
      /\ installed(p).line = proc[p].line /\ installed(p).creator = proc[p].creator
      /\ installed(p).descent = proc[p].descent
      /\ proc[p].phase = "booting" /\ Live(p)
  BY InstalledIs DEF Install, Live
<1>3. \A q \in Process :
        /\ Home(q) \in Process /\ proc[q].creator \in Process \cup {None}
        /\ proc[q].descent \in Session \cup {None}
        /\ environ[Home(q)].parent \in Session \cup {None}
  BY EnvFields DEF ProcessRecord, Env
<1>4. \A s \in Session : claims[s].by \in Process \cup {None}
  BY DEF TypeOK
<1>5. \/ installedEnv(p).parent = environ[Home(p)].parent /\ proc[p].payload = {}
      \/ installedEnv(p).parent = proc[p].descent /\ proc[p].payload # {}
  BY InstalledEnvIs DEF Holders
<1>6. \A q \in Process : /\ proc'[q].control = proc[q].control
                         /\ proc'[q].creator = proc[q].creator
                         /\ proc'[q].descent = proc[q].descent
                         /\ proc'[q].payload \subseteq proc[q].payload
  BY <1>1, <1>2
<1>7. Holders'
  <2>1. \A s \in Session :
          /\ claims'[s].by # None => Wrapped(claims[s].by)'
          /\ claims'[s].parent # None => claims'[claims'[s].parent].by # None
    BY <1>1, <1>4 DEF Holders
  <2>2. ASSUME NEW q \in Process
        PROVE  environ'[q].parent # None => claims[environ'[q].parent].by # None
    <3>1. CASE q = Home(p)
      BY <1>1, <1>3, <1>5, <3>1 DEF Holders
    <3>2. CASE q # Home(p)
      BY <1>1, <3>2 DEF Holders
    <3>3. QED
      BY <3>1, <3>2
  <2>3. QED
    BY <1>1, <1>6, <2>1, <2>2 DEF Holders
<1>8. Parents'
  <2> SUFFICES ASSUME NEW q \in Process, Live(q)
               PROVE  /\ proc'[q].creator # None /\ ~ SharesItsEnv(q)' =>
                           environ'[Home(q)'].parent = proc'[q].descent
                      /\ environ'[Home(q)'].parent # None =>
                           OfTheFamily(environ[Home(q)].parent, q)'
    BY <1>1 DEF Parents
  <2>1. PICK x \in Session \cup {None} : x = environ'[Home(q)].parent
    BY <1>1, <1>3, <1>5
  <2>2. Home(q)' = Home(q)
    BY <1>1
  <2>3. ASSUME environ'[Home(q)].parent = environ[Home(q)].parent
        PROVE  /\ proc[q].creator # None /\ ~ SharesItsEnv(q) => x = proc[q].descent
               /\ x # None => claims[x].by # None /\ OfTheFamily(x, q)
    BY <1>3, <2>1, <2>3 DEF Parents, Holders
  <2>4. ASSUME Home(q) = Home(p), proc[p].payload # {}
        PROVE  /\ proc[q].creator # None /\ ~ SharesItsEnv(q) => x = proc[q].descent
               /\ x # None => claims[x].by # None /\ OfTheFamily(x, q)
    <3>1. x = proc[p].descent
      BY <1>1, <1>5, <2>1, <2>4
    <3>2. x # None => claims[x].by = proc[p].creator /\ proc[p].creator # None
      BY <3>1 DEF Holders
    <3>3. CASE q = p
      BY <3>1, <3>2, <3>3 DEF OfTheFamily, Lines
    <3>4. CASE q # p
      <4>1. SharesItsEnv(q) /\ SharesItsEnv(p)
        BY <1>2, <2>4, <3>4 DEF SharesItsEnv, Live
      <4>2. Home(p) # p
        BY <1>2, <2>4, <3>4 DEF Homes, Wrapped
      <4>3. Home(proc[p].creator) = Home(q)
        BY <2>4, <4>2 DEF Homes
      <4>4. QED
        BY <3>2, <4>1, <4>3 DEF OfTheFamily
    <3>5. QED
      BY <3>3, <3>4
  <2>5. /\ proc[q].creator # None /\ ~ SharesItsEnv(q) => x = proc[q].descent
        /\ x # None => claims[x].by # None /\ OfTheFamily(x, q)
    <3>1. \/ environ'[Home(q)].parent = environ[Home(q)].parent
          \/ Home(q) = Home(p) /\ proc[p].payload # {}
      BY <1>1, <1>3, <1>5
    <3>2. QED
      BY <2>3, <2>4, <3>1
  <2>6. x # None => OfTheFamily(x, q)'
    BY <1>1, <2>5, FamilyOnward
  <2>7. ~ SharesItsEnv(q)' => ~ SharesItsEnv(q)
    BY <1>1, SharingOnward
  <2>8. OfTheFamily(environ[Home(q)].parent, q)' = OfTheFamily(x, q)'
    BY <2>1, <2>2 DEF OfTheFamily
  <2>9. QED
    BY <1>6, <2>1, <2>2, <2>5, <2>6, <2>7, <2>8
<1>9. Claims'
  BY <1>1, ClaimOnward DEF Claims
<1>10. QED
  BY <1>7, <1>8, <1>9
-----------------------------------------------------------------------------
(***************************************************************************)
(* The exchanges with the sidecar, and what a process does on its own.      *)
(***************************************************************************)

\* p goes on with the record r, which differs in its state, its session and its
\* history only; the session may be a new one.
GoesOn(p, r) ==
  /\ Wrapped(p)
  /\ r \in ProcessRecord
  /\ proc' = [proc EXCEPT ![p] = r]
  /\ environ' = environ
  /\ r.phase = "wrapped" /\ r.home = proc[p].home /\ r.payload = proc[p].payload
  /\ r.key = proc[p].key /\ r.line = proc[p].line
  /\ r.creator = proc[p].creator /\ r.descent = proc[p].descent
  /\ \A legacy \in r.legacy :
       /\ r.control = None /\ r.state = legacy
       /\ \A t \in r.deeds : ~ Refused(legacy, t)
  /\ \/ claims' = claims /\ r.control = proc[p].control
     \/ \E s \in Session :
          /\ claims[s].by = None /\ r.control = s
          /\ claims' = [claims EXCEPT ![s] = [by |-> p, parent |-> environ[Home(p)].parent]]

LEMMA GoesOnFrame ==
  ASSUME TreeInv, NEW p \in Process, NEW r \in ProcessRecord, GoesOn(p, r),
         learned' \in Allowlist
  PROVE  /\ TypeOK' /\ Onward
         /\ proc'[p] = r /\ \A q \in Process \ {p} : proc'[q] = proc[q]
         /\ \A q \in Process : /\ Live(q)' = Live(q) /\ Home(q)' = Home(q)
                               /\ Wrapped(q)' = Wrapped(q)
                               /\ proc'[q].phase = proc[q].phase
                               /\ proc'[q].payload = proc[q].payload
                               /\ proc'[q].key = proc[q].key
                               /\ proc'[q].line = proc[q].line
                               /\ proc'[q].creator = proc[q].creator
                               /\ proc'[q].descent = proc[q].descent
<1> USE DEF TreeInv
<1>1. proc'[p] = r /\ \A q \in Process \ {p} : proc'[q] = proc[q]
  BY DEF GoesOn, TypeOK
<1>2. \A q \in Process : /\ proc'[q].phase = proc[q].phase
                         /\ proc'[q].home = proc[q].home
                         /\ proc'[q].payload = proc[q].payload
                         /\ proc'[q].key = proc[q].key
                         /\ proc'[q].line = proc[q].line
                         /\ proc'[q].creator = proc[q].creator
                         /\ proc'[q].descent = proc[q].descent
  BY <1>1 DEF GoesOn, Wrapped
<1>3. \A q \in Process : /\ Live(q)' = Live(q) /\ Home(q)' = Home(q)
                         /\ Wrapped(q)' = Wrapped(q)
  BY <1>2 DEF Live, Home, Wrapped
<1>4. proc' \in [Process -> ProcessRecord] /\ environ' \in [Process -> Env]
  BY DEF GoesOn, TypeOK
<1>5. environ[Home(p)].parent \in Session \cup {None}
  BY EnvFields DEF Env
<1>6. claims' \in [Session -> [by : Process \cup {None}, parent : Session \cup {None}]]
        /\ \A s \in Session : claims[s].by # None => claims'[s] = claims[s]
  BY <1>5 DEF GoesOn, TypeOK
<1>7. TypeOK'
  BY <1>4, <1>6 DEF TypeOK
<1>8. Onward
  BY <1>2, <1>3, <1>6 DEF Onward
<1>9. QED
  BY <1>1, <1>2, <1>3, <1>7, <1>8

LEMMA GoesOnKeepsShape ==
  ASSUME TreeInv, NEW p \in Process, NEW r \in ProcessRecord, GoesOn(p, r),
         learned' \in Allowlist
  PROVE  Homes' /\ Lines' /\ Keys' /\ Births'
<1> USE DEF TreeInv
<1>1. proc'[p] = r /\ \A q \in Process \ {p} : proc'[q] = proc[q]
  BY GoesOnFrame
<1>2. \A q \in Process : /\ Live(q)' = Live(q) /\ Home(q)' = Home(q)
                         /\ Wrapped(q)' = Wrapped(q)
                         /\ proc'[q].phase = proc[q].phase
                         /\ proc'[q].payload = proc[q].payload
                         /\ proc'[q].key = proc[q].key
                         /\ proc'[q].line = proc[q].line
                         /\ proc'[q].creator = proc[q].creator
  BY GoesOnFrame
<1>3. \A q \in Process : Home(q) \in Process /\ proc[q].creator \in Process \cup {None}
                           /\ proc[q].line \subseteq Process
  BY EnvFields DEF ProcessRecord
<1>4. environ' = environ
  BY DEF GoesOn
<1>5. Homes'
  BY <1>2, <1>3 DEF Homes
<1>6. Lines'
  BY <1>2, <1>3 DEF Lines
<1>7. Keys'
  BY <1>2, <1>4 DEF Keys
<1>8. Births'
  <2> SUFFICES ASSUME NEW q \in Process, NEW legacy \in proc'[q].legacy
               PROVE  /\ proc'[q].control = None
                      /\ proc'[q].phase = "booting" =>
                           /\ proc'[q].payload = {} =>
                                /\ Home(q)' = q
                                /\ containmentFromEnv(environ'[q]) = legacy
                           /\ \A payload \in proc'[q].payload :
                                payload.containment = legacy
                      /\ Wrapped(q)' => proc'[q].state = legacy
                      /\ \A t \in proc'[q].deeds : ~ Refused(legacy, t)
    BY DEF Births
  <2>1. CASE q = p
    BY <1>1, <2>1 DEF GoesOn
  <2>2. CASE q # p
    BY <1>1, <1>2, <1>4, <2>2 DEF Births
  <2>3. QED
    BY <2>1, <2>2
<1>9. QED
  BY <1>5, <1>6, <1>7, <1>8

LEMMA GoesOnKeepsDescent ==
  ASSUME TreeInv, NEW p \in Process, NEW r \in ProcessRecord, GoesOn(p, r),
         learned' \in Allowlist
  PROVE  Holders' /\ Parents' /\ Claims'
<1> USE DEF TreeInv
<1>1. /\ proc'[p] = r /\ \A q \in Process \ {p} : proc'[q] = proc[q]
      /\ Onward
  BY GoesOnFrame
<1>2. \A q \in Process : /\ Live(q)' = Live(q) /\ Home(q)' = Home(q)
                         /\ Wrapped(q)' = Wrapped(q)
                         /\ proc'[q].payload = proc[q].payload
                         /\ proc'[q].creator = proc[q].creator
                         /\ proc'[q].descent = proc[q].descent
  BY GoesOnFrame
<1>3. \A q \in Process :
        /\ Home(q) \in Process /\ proc[q].creator \in Process \cup {None}
        /\ proc[q].control \in Session \cup {None}
        /\ proc[q].descent \in Session \cup {None}
        /\ environ[q].parent \in Session \cup {None}
  BY EnvFields DEF ProcessRecord, Env
<1>4. \A s \in Session : /\ claims[s].by \in Process \cup {None}
                         /\ claims[s].parent \in Session \cup {None}
  BY DEF TypeOK
<1>5. Wrapped(p) /\ Live(p) /\ environ' = environ
  BY DEF GoesOn, Wrapped, Live
<1>6. \A s \in Session :
        \/ claims'[s] = claims[s]
        \/ /\ claims[s].by = None /\ r.control = s
           /\ claims'[s] = [by |-> p, parent |-> environ[Home(p)].parent]
  BY DEF GoesOn, TypeOK
<1>7. r.control # None => claims'[r.control].by = p
  BY <1>1, <1>3 DEF GoesOn, Holders, TypeOK
<1>8. \A s \in Session : claims[s].by # None => claims'[s] = claims[s]
  BY <1>1 DEF Onward
<1>9. Holders'
  <2>1. \A s \in Session :
          /\ claims'[s].by # None => Wrapped(claims[s].by)'
          /\ claims'[s].parent # None => claims'[claims'[s].parent].by # None
    <3> SUFFICES ASSUME NEW s \in Session
                 PROVE  /\ claims'[s].by # None => Wrapped(claims[s].by)'
                        /\ claims'[s].parent # None =>
                             claims'[claims'[s].parent].by # None
      OBVIOUS
    <3>1. PICK by \in Process \cup {None} : by = claims'[s].by
      BY <1>4, <1>6
    <3>2. PICK parent \in Session \cup {None} : parent = claims'[s].parent
      BY <1>3, <1>4, <1>6
    <3>3. by # None => Wrapped(by)
      BY <1>5, <1>6, <3>1 DEF Holders
    <3>4. parent # None => claims[parent].by # None
      BY <1>3, <1>6, <3>2 DEF Holders
    <3>5. by # None => Wrapped(by)'
      BY <1>2, <3>3
    <3>6. parent # None => claims'[parent].by # None
      BY <1>8, <3>4
    <3>7. Wrapped(by)' = Wrapped(claims[s].by)'
      BY <3>1 DEF Wrapped
    <3>8. QED
      BY <3>1, <3>2, <3>5, <3>6, <3>7
  <2>2. ASSUME NEW q \in Process
        PROVE  /\ proc'[q].control # None => claims'[proc'[q].control].by = q
               /\ proc'[q].descent # None =>
                    /\ proc'[q].creator # None
                    /\ claims'[proc'[q].descent].by = proc'[q].creator
               /\ \A payload \in proc'[q].payload : payload.parent = proc'[q].descent
               /\ environ'[q].parent # None => claims'[environ'[q].parent].by # None
    <3>1. proc'[q].control # None => claims'[proc'[q].control].by = q
      <4>1. CASE q = p
        BY <1>1, <1>7, <4>1
      <4>2. CASE q # p
        <5>1. proc[q].control # None => claims[proc[q].control].by = q
          BY DEF Holders
        <5>2. QED
          BY <1>1, <1>3, <1>8, <4>2, <5>1
      <4>3. QED
        BY <4>1, <4>2
    <3>2. proc[q].descent # None =>
            /\ proc[q].creator # None
            /\ claims[proc[q].descent].by = proc[q].creator
      BY DEF Holders
    <3>3. proc'[q].descent # None =>
            /\ proc'[q].creator # None
            /\ claims'[proc'[q].descent].by = proc'[q].creator
      BY <1>2, <1>3, <1>8, <3>2
    <3>4. environ[q].parent # None => claims'[environ[q].parent].by # None
      BY <1>3, <1>8 DEF Holders
    <3>5. QED
      BY <1>2, <1>5, <3>1, <3>3, <3>4 DEF Holders
  <2>3. QED
    BY <2>1, <2>2 DEF Holders
<1>10. ASSUME NEW q \in Process, Live(q)
       PROVE  /\ proc[q].creator # None /\ ~ SharesItsEnv(q) =>
                   environ[Home(q)].parent = proc[q].descent
              /\ environ[Home(q)].parent # None =>
                   OfTheFamily(environ[Home(q)].parent, q)'
  <2>1. PICK x \in Session \cup {None} : x = environ[Home(q)].parent
    BY <1>3
  <2>2. x # None => claims[x].by # None /\ OfTheFamily(x, q)
    BY <1>3, <1>10, <2>1 DEF Holders, Parents
  <2>3. x # None => OfTheFamily(x, q)'
    BY <1>1, <1>10, <2>2, FamilyOnward
  <2>4. environ[Home(q)].parent' = x
    BY <1>2, <1>5, <2>1
  <2>5. OfTheFamily(environ[Home(q)].parent, q)' = OfTheFamily(x, q)'
    BY <2>4 DEF OfTheFamily
  <2>6. QED
    BY <1>10, <2>1, <2>3, <2>5 DEF Parents
<1>11. \A q \in Process : Live(q) /\ SharesItsEnv(q) => SharesItsEnv(q)'
  BY <1>1, SharingOnward
<1>12. Parents'
  BY <1>2, <1>5, <1>10, <1>11 DEF Parents
<1>13. Claims'
  <2> SUFFICES ASSUME NEW s \in Session, claims'[s].by # None
               PROVE  /\ proc'[claims'[s].by].creator # None
                           /\ ~ SharesItsEnv(claims[s].by)' =>
                             claims'[s].parent = proc'[claims'[s].by].descent
                      /\ claims'[s].parent # None =>
                           OfTheFamily(claims[s].parent, claims[s].by)'
    BY DEF Claims
  <2>1. CASE claims[s].by # None
    BY <1>1, <2>1, ClaimOnward
  <2>2. CASE claims[s].by = None
    <3>1. claims'[s].by = p /\ claims'[s].parent = environ[Home(p)].parent
      BY <1>6, <2>2
    <3>2. environ[Home(p)].parent' = environ[Home(p)].parent
      BY <1>2, <1>5
    <3>3. OfTheFamily(claims[s].parent, claims[s].by)'
            = OfTheFamily(environ[Home(p)].parent, p)'
      BY <3>1, <3>2 DEF OfTheFamily, SharesItsEnv
    <3>4. SharesItsEnv(claims[s].by)' = SharesItsEnv(p)'
      BY <3>1 DEF SharesItsEnv
    <3>5. QED
      BY <1>2, <1>5, <1>10, <1>11, <3>1, <3>3, <3>4
  <2>3. QED
    BY <2>1, <2>2
<1>14. QED
  BY <1>9, <1>12, <1>13
-----------------------------------------------------------------------------
(***************************************************************************)
(* The theorems.                                                            *)
(***************************************************************************)

LEMMA TreeInvInit == Init => TreeInv
<1> SUFFICES ASSUME Init PROVE TreeInv
  OBVIOUS
<1> DEFINE start(p) == IF p = Root THEN "booting" ELSE "absent"
<1>1. \A p \in Process : proc[p] = newProcess(p, start(p), {})
  BY DEF Init
<1> HIDE DEF start
<1>2. \A p \in Process :
        /\ proc[p].phase = start(p) /\ proc[p].home = p /\ proc[p].payload = {}
        /\ ~ proc[p].key /\ proc[p].control = None /\ proc[p].line = {}
        /\ proc[p].creator = None /\ proc[p].descent = None
        /\ proc[p].legacy = {} /\ proc[p].deeds = {}
  <2>1. \A p, phase, line : LET r == newProcess(p, phase, line)
                           IN  /\ r.phase = phase /\ r.home = p /\ r.payload = {}
                               /\ ~ r.key /\ r.control = None /\ r.line = line
                               /\ r.creator = None /\ r.descent = None
                               /\ r.legacy = {} /\ r.deeds = {}
    BY DEF newProcess
  <2>2. QED
    BY <1>1, <2>1
<1>3. PICK mode \in ProcessContainmentMode :
        environ = [p \in Process |-> IF p = Root THEN buildEnvPayload(mode) ELSE NoEnv]
  BY DEF Init
<1>4. buildEnvPayload(mode) \in Env /\ buildEnvPayload(mode).parent = None
  <2>1. serializeContainmentAllowlist(ConfiguredAllowlist) \in SUBSET Allowlist
    BY DEF serializeContainmentAllowlist, Unset
  <2>2. QED
    BY <2>1, NoStateType DEF buildEnvPayload, NoEnv, Env
<1>5. TypeOK
  <2>1. \A p \in Process : newProcess(p, start(p), {}) \in ProcessRecord
    BY NewProcessType DEF start
  <2>2. proc \in [Process -> ProcessRecord]
    BY <2>1 DEF Init, start
  <2>3. environ \in [Process -> Env]
    BY <1>3, <1>4, NoStateType
  <2>4. QED
    BY <2>2, <2>3 DEF Init, TypeOK
<1>6. \A p \in Process :
        /\ environ[p].parent = None
        /\ Home(p) = p
        /\ Live(p) => p = Root /\ proc[p].phase = "booting"
  BY <1>2, <1>3, <1>4 DEF NoEnv, Home, Live, start
<1>7. \A s \in Session : claims[s].by = None /\ claims[s].parent = None
  BY DEF Init
<1>8. Homes /\ Lines
  BY <1>2, <1>6 DEF Homes, Lines
<1>9. Keys /\ Births
  BY <1>2, <1>6 DEF Keys, Births
<1>10. Holders
  BY <1>2, <1>6, <1>7 DEF Holders
<1>11. Parents /\ Claims
  BY <1>2, <1>6, <1>7 DEF Parents, Claims
<1>12. QED
  BY <1>5, <1>8, <1>9, <1>10, <1>11 DEF TreeInv

\* A step of a process other than its installation is an exchange or an access.
LEMMA StepGoesOn ==
  ASSUME TreeInv, NEW p \in Process, Step(p), ~ Install(p)
  PROVE  learned' \in Allowlist /\ \E r \in ProcessRecord : GoesOn(p, r)
<1> USE DEF TreeInv
<1>1. proc[p] \in ProcessRecord /\ learned \in Allowlist
  BY EnvFields DEF TypeOK
<1>2. proc[p].state \in ContainmentState /\ proc[p].deeds \in SUBSET Target
        /\ proc[p].phase \in {"absent", "plain", "booting", "wrapped"}
  BY <1>1 DEF ProcessRecord
<1>3. \A postures \in Postures :
        updated(p, postures) \in ContainmentState
  BY <1>1, <1>2, SessionContainmentType, UpdateType DEF updated
<1>4. ASSUME NEW s \in Session, NEW postures \in Postures, Bootstrap(p, s, postures)
      PROVE  learned' \in Allowlist /\ \E r \in ProcessRecord : GoesOn(p, r)
  <2> DEFINE state == updated(p, postures)
             r == [proc[p] EXCEPT !.control = s, !.legacy = {}, !.deeds = {},
                                  !.state = state]
  <2>1. /\ Wrapped(p) /\ claims[s].by = None
        /\ claims' = [claims EXCEPT ![s] = [by |-> p, parent |-> environ[Home(p)].parent]]
        /\ proc' = [proc EXCEPT ![p] = r]
        /\ environ' = environ /\ learned' = learned
    BY <1>4 DEF Bootstrap
  <2>2. state \in ContainmentState
    BY <1>3
  <2> HIDE DEF state
  <2>3. /\ r \in ProcessRecord
        /\ r.phase = proc[p].phase /\ r.home = proc[p].home
        /\ r.payload = proc[p].payload /\ r.key = proc[p].key
        /\ r.line = proc[p].line /\ r.creator = proc[p].creator
        /\ r.descent = proc[p].descent /\ r.legacy = {} /\ r.control = s
    BY <1>1, <2>2 DEF ProcessRecord
  <2> HIDE DEF r
  <2>4. GoesOn(p, r)
    BY <2>1, <2>3 DEF GoesOn, Wrapped
  <2>5. QED
    BY <1>1, <2>1, <2>3, <2>4
<1>5. ASSUME NEW postures \in Postures, Heartbeat(p, postures)
      PROVE  learned' \in Allowlist /\ \E r \in ProcessRecord : GoesOn(p, r)
  <2> DEFINE state == updated(p, postures)
             r == [proc[p] EXCEPT !.state = state]
  <2>1. /\ Wrapped(p) /\ proc[p].control # None
        /\ claims' = claims /\ environ' = environ /\ learned' = learned
        /\ proc' = [proc EXCEPT ![p] = r]
    BY <1>5 DEF Heartbeat
  <2>2. state \in ContainmentState
    BY <1>3
  <2>3. proc[p].legacy = {}
    BY <2>1 DEF Births
  <2> HIDE DEF state
  <2>4. /\ r \in ProcessRecord
        /\ r.phase = proc[p].phase /\ r.home = proc[p].home
        /\ r.payload = proc[p].payload /\ r.key = proc[p].key
        /\ r.line = proc[p].line /\ r.creator = proc[p].creator
        /\ r.descent = proc[p].descent /\ r.control = proc[p].control
        /\ r.legacy = {}
    BY <1>1, <2>2, <2>3 DEF ProcessRecord
  <2> HIDE DEF r
  <2>5. GoesOn(p, r)
    BY <2>1, <2>4 DEF GoesOn, Wrapped
  <2>6. QED
    BY <1>1, <2>1, <2>4, <2>5
<1>6. ASSUME NEW t \in Target, Access(p, t)
      PROVE  learned' \in Allowlist /\ \E r \in ProcessRecord : GoesOn(p, r)
  <2> DEFINE deeds == IF t \in Hazardous /\ proc[p].legacy # {}
                      THEN proc[p].deeds \cup {t} ELSE proc[p].deeds
             r == [proc[p] EXCEPT !.deeds = deeds]
  <2>1. /\ Wrapped(p) /\ ~ Refused(proc[p].state, t)
        /\ claims' = claims /\ environ' = environ /\ learned' = learned
    BY <1>6 DEF Access
  <2>2. proc' = [proc EXCEPT ![p] = r]
    <3>1. CASE t \in Hazardous /\ proc[p].legacy # {}
      <4>1. proc' = [proc EXCEPT ![p] = [proc[p] EXCEPT !.deeds = proc[p].deeds \cup {t}]]
        BY <1>6, <3>1 DEF Access
      <4>2. deeds = proc[p].deeds \cup {t}
        BY <3>1
      <4>3. QED
        BY <4>1, <4>2
    <3>2. CASE ~ (t \in Hazardous /\ proc[p].legacy # {})
      <4>1. r = proc[p]
        BY <1>1, <3>2 DEF ProcessRecord
      <4>2. QED
        BY <1>6, <3>2, <4>1 DEF Access, TypeOK
    <3>3. QED
      BY <3>1, <3>2
  <2>3. deeds \in SUBSET Target
    BY <1>2
  <2>4. \A legacy \in proc[p].legacy :
          /\ proc[p].control = None /\ proc[p].state = legacy
          /\ \A d \in deeds : ~ Refused(legacy, d)
    BY <2>1 DEF Births
  <2> HIDE DEF deeds
  <2>5. /\ r \in ProcessRecord
        /\ r.phase = proc[p].phase /\ r.home = proc[p].home
        /\ r.payload = proc[p].payload /\ r.key = proc[p].key
        /\ r.line = proc[p].line /\ r.creator = proc[p].creator
        /\ r.descent = proc[p].descent /\ r.control = proc[p].control
        /\ r.legacy = proc[p].legacy /\ r.state = proc[p].state /\ r.deeds = deeds
    BY <1>1, <2>3 DEF ProcessRecord
  <2> HIDE DEF r
  <2>6. GoesOn(p, r)
    BY <2>1, <2>4, <2>5, <2>2 DEF GoesOn, Wrapped
  <2>7. QED
    BY <1>1, <2>1, <2>5, <2>6
<1>7. QED
  BY <1>4, <1>5, <1>6 DEF Step

LEMMA StutterKeeps ==
  ASSUME TreeInv, proc' = proc, environ' = environ, claims' = claims,
         learned' \in Allowlist
  PROVE  TreeInv'
<1>1. TypeOK'
  BY DEF TreeInv, TypeOK
<1>2. Homes' /\ Lines' /\ Keys' /\ Births' /\ Holders'
  BY DEF TreeInv, Homes, Lines, Keys, Births, Holders, Home, Live, Wrapped
<1>3. /\ \A p : Home(p)' = Home(p) /\ (Live(p)' <=> Live(p))
      /\ \A p : SharesItsEnv(p)' <=> SharesItsEnv(p)
      /\ \A x, p : OfTheFamily(x, p)' <=> OfTheFamily(x, p)
  BY DEF OfTheFamily, SharesItsEnv, Home, Live
<1>3a. Parents'
  BY <1>3 DEF TreeInv, Parents
<1>3b. Claims'
  BY <1>3 DEF TreeInv, Claims
<1>4. QED
  BY <1>1, <1>2, <1>3a, <1>3b DEF TreeInv

LEMMA TreeInvNext == TreeInv /\ [Next]_vars => TreeInv'
<1> SUFFICES ASSUME TreeInv, [Next]_vars PROVE TreeInv'
  OBVIOUS
<1>1. ASSUME NEW p \in Process, Install(p)  PROVE TreeInv'
  BY <1>1, InstallFrame, InstallKeepsShape, InstallKeepsDescent DEF TreeInv
<1>2. ASSUME NEW p \in Process, Step(p), ~ Install(p)  PROVE TreeInv'
  <2>1. PICK r \in ProcessRecord : GoesOn(p, r)
    BY <1>2, StepGoesOn
  <2>2. learned' \in Allowlist
    BY <1>2, StepGoesOn
  <2>3. QED
    BY <2>1, <2>2, GoesOnFrame, GoesOnKeepsShape, GoesOnKeepsDescent DEF TreeInv
<1>3. ASSUME NEW p \in Process, NEW c \in Process, Create(p, c)  PROVE TreeInv'
  <2>1. PICK r \in ProcessRecord, e \in Env : Born(p, c, r, e)
    BY <1>3, CreatedIsBorn
  <2>2. QED
    BY <2>1, BornFrame, BornKeepsShape, BornKeepsDescent DEF TreeInv
<1>4. ASSUME NEW t \in Target, Learn(t)  PROVE TreeInv'
  <2>1. learned' \in Allowlist
    BY <1>4 DEF Learn, TreeInv, TypeOK, Allowlist
  <2>2. QED
    BY <1>4, <2>1, StutterKeeps DEF Learn
<1>5. CASE UNCHANGED vars
  BY <1>5, StutterKeeps DEF vars, TreeInv, TypeOK
<1>6. QED
  BY <1>1, <1>2, <1>3, <1>4, <1>5 DEF Next

\* The inductive invariant holds in every tree of processes.
THEOREM TreeInvariant == Spec => []TreeInv
<1>1. TreeInv /\ UNCHANGED vars => TreeInv'
  BY TreeInvNext
<1>2. QED
  BY TreeInvInit, TreeInvNext, PTL DEF Spec

\* Type correctness.
THEOREM TypeCorrectness == Spec => []TypeOK
BY TreeInvariant, PTL DEF TreeInv

\* A node process or worker starts with the containment that its creator
\* enforced: nothing is lost or out of date on the way through the environment
\* or the payload; and before it hears from the sidecar it gets at nothing that
\* its creator would have been refused.
THEOREM ContainmentInherited == Spec => []InheritsAtBirth
<1>1. TreeInv => InheritsAtBirth
  BY DEF TreeInv, Births, InheritsAtBirth
<1>2. QED
  BY <1>1, TreeInvariant, PTL

\* Programs never see the bootstrap key.
THEOREM KeyStays == Spec => []KeyStaysInNode
<1>1. TreeInv => KeyStaysInNode
  BY DEF TreeInv, Keys, KeyStaysInNode, Live
<1>2. QED
  BY <1>1, TreeInvariant, PTL

\* The parent that a control session names is the one that its process
\* descends from, or at least of its family.
THEOREM LineageFollowsDescent == Spec => []LineageIsDescent
<1>1. TreeInv => LineageIsDescent
  BY DEF TreeInv, Claims, OfTheFamily, LineageIsDescent
<1>2. QED
  BY <1>1, TreeInvariant, PTL
=============================================================================
