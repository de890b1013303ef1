------------------------------ MODULE ProcessTree ------------------------------
(***************************************************************************)
(* The processes and worker threads that descend from a wrapped process     *)
(* (node-preload.ts): what the wrappers of child_process and worker_threads *)
(* hand down, what an installation makes of it, and what a process allows   *)
(* itself from then on.  A process hears from the sidecar when it bootstraps*)
(* a control session and with its heartbeats; in between, and before, it is *)
(* on its own.  PreloadClient models these exchanges, SidecarControl the    *)
(* sessions; here a process obtains a session in one step, and whatever     *)
(* posture the sidecar may see in it.                                       *)
(*                                                                          *)
(* Three kinds of children are told apart: a process of the node executable *)
(* (spawn, execFile, fork), any other program, among them every command     *)
(* line that exec gives to a shell, and worker threads, which may share the *)
(* environment of their creator.  Programs start processes as well, and     *)
(* pass their environment on unchanged.                                     *)
(***************************************************************************)
EXTENDS Containment

CONSTANTS
  Process,        \* processes and worker threads
  Root,           \* the one that is started with the sidecar's environment
  Session,        \* control sessions
  None,
  ContainmentMode,\* the sidecar's mode and allowlist as configured
  ConfiguredAllowlist,
  Learnable,      \* what the baseline may add to the allowlist
  Postures        \* what sessions are under: a posture for each capability

ASSUME TreeAssumption ==
  /\ Root \in Process
  /\ None \notin Process \cup Session
  /\ ContainmentMode \in ProcessContainmentMode
  /\ ConfiguredAllowlist \in Allowlist
  /\ Learnable \subseteq Target
  /\ Postures \subseteq [ContainedCapability -> SidecarSessionPosture]

VARIABLES
  proc,    \* proc[p]: p and its installed preload
  environ, \* environ[p]: process.env, of a process that has one of its own
  claims,  \* claims[s]: whose session s is, and the parent it named
  learned  \* computeEffectiveContainmentAllowlist

vars == <<proc, environ, claims, learned>>

Env ==
  [mode    : SUBSET ProcessContainmentMode,
   modes   : SUBSET CapabilityModes,
   rules   : SUBSET Allowlist,
   preload : BOOLEAN,             \* NODE_OPTIONS requires the preload
   key     : BOOLEAN,             \* holds the bootstrap key
   parent  : Session \cup {None}] \* PARENT_CONTROL_SESSION_ID

WorkerBootstrapPayload ==
  [containment : ContainmentState, key : BOOLEAN, parent : Session \cup {None}]

ProcessRecord ==
  [phase   : {"absent", "plain", "booting", "wrapped"},
   home    : Process,                   \* whose environment it uses
   payload : SUBSET WorkerBootstrapPayload,
   state   : ContainmentState,
   key     : BOOLEAN,                   \* sidecarBootstrapKey
   control : Session \cup {None},       \* controlSessionId
   \* history: its ancestors; the wrapped process that created it with a
   \* protected environment, if one did, and which session that had then; and,
   \* until the sidecar's word arrives, what that enforced then and the
   \* hazardous accesses made by itself
   line    : SUBSET Process,
   creator : Process \cup {None},
   descent : Session \cup {None},
   legacy  : SUBSET ContainmentState,
   deeds   : SUBSET Target]

TypeOK ==
  /\ proc \in [Process -> ProcessRecord]
  /\ environ \in [Process -> Env]
  /\ claims \in [Session -> [by : Process \cup {None}, parent : Session \cup {None}]]
  /\ learned \in Allowlist

NoEnv ==
  [mode |-> Unset, modes |-> Unset, rules |-> Unset,
   preload |-> FALSE, key |-> FALSE, parent |-> None]

NoState == containmentFromEnv(NoEnv)

newProcess(home, phase, line) ==
  [phase |-> phase, home |-> home, payload |-> {}, state |-> NoState,
   key |-> FALSE, control |-> None, line |-> line, creator |-> None,
   descent |-> None, legacy |-> {}, deeds |-> {}]

Wrapped(p) == proc[p].phase = "wrapped"

Home(p) == proc[p].home

\* the line of p's children
LineOf(p) == proc[p].line \cup {p}

\* what the sidecar tells the one who starts a process to put into its
\* environment, the mode possibly set by hand, and the preload required
buildEnvPayload(mode) ==
  [NoEnv EXCEPT !.mode = {mode},
                !.rules = serializeContainmentAllowlist(ConfiguredAllowlist),
                !.preload = TRUE, !.key = TRUE]

Init ==
  /\ proc = [p \in Process |->
               newProcess(p, IF p = Root THEN "booting" ELSE "absent", {})]
  /\ \E mode \in ProcessContainmentMode :
       environ = [p \in Process |-> IF p = Root THEN buildEnvPayload(mode) ELSE NoEnv]
  /\ learned = ConfiguredAllowlist
  /\ claims = [s \in Session |-> [by |-> None, parent |-> None]]
-----------------------------------------------------------------------------
(***************************************************************************)
(* Creation.                                                                *)
(***************************************************************************)

\* programs other than node get the base mode only
protectedContainment(state, node) ==
  IF node THEN containmentEnv(state)
  ELSE [NoContainmentEnv EXCEPT !.mode = {state.mode}]

\* mutant: a creator that has no session yet leaves the variable alone
parentVariable_Kept(creator, base, node) ==
  IF creator.control # None THEN creator.control ELSE base.parent

parentVariable(creator, base, node) == IF node THEN creator.control ELSE None

\* mergeNodeOptions
requiresPreload(base, node) == base.preload \/ node

\* node is includeNodeOptions
buildProtectedEnv(creator, base, node) ==
  LET containment == protectedContainment(creator.state, node)
  IN  [mode    |-> containment.mode,
       modes   |-> containment.modes,
       rules   |-> containment.rules,
       preload |-> requiresPreload(base, node),
       key     |-> node /\ (creator.key \/ base.key),
       parent  |-> parentVariable(creator, base, node)]

\* the record of a node process or worker that p creates
childOf(p, home) ==
  [newProcess(home, "booting", LineOf(p)) EXCEPT !.creator = p,
                                                 !.legacy = {proc[p].state},
                                                 !.descent = proc[p].control]

\* spawn, execFile and fork, and exec of a command line: t is refused or runs,
\* in an environment made from one of its own or from its creator's
StartProcess(p, c, t, ownEnv) ==
  /\ Wrapped(p)
  /\ proc[c].phase = "absent"
  /\ CapabilityOf[t] = "processes"
  /\ ~ Refused(proc[p].state, t)
  /\ LET node == t \in NodeCommand
         base == IF ownEnv THEN NoEnv ELSE environ[Home(p)]
     IN  /\ environ' =
              [environ EXCEPT ![c] = buildProtectedEnv(proc[p], base, node)]
         /\ proc' =
              [proc EXCEPT ![c] =
                 IF node THEN childOf(p, c) ELSE newProcess(c, "plain", LineOf(p))]
  /\ UNCHANGED <<claims, learned>>

\* exec of a command line and a callback, without options: the program gets
\* the environment of its creator as it is
ExecWithCallback(p, c, t) ==
  /\ Wrapped(p)
  /\ proc[c].phase = "absent"
  /\ CapabilityOf[t] = "processes"
  /\ ~ Refused(proc[p].state, t)
  /\ environ' = [environ EXCEPT ![c] = environ[Home(p)]]
  /\ proc' = [proc EXCEPT ![c] = newProcess(c, "plain", LineOf(p))]
  /\ UNCHANGED <<claims, learned>>

buildWorkerBootstrapPayload(creator) ==
  [containment |-> creator.state, key |-> creator.key, parent |-> creator.control]

\* Worker: it is never refused, and gets an environment, unless it shares its
\* creator's, and a payload
StartWorker(p, c, shareEnv) ==
  /\ Wrapped(p)
  /\ proc[c].phase = "absent"
  /\ proc' =
       [proc EXCEPT ![c] =
          [childOf(p, IF shareEnv THEN Home(p) ELSE c)
             EXCEPT !.payload = {buildWorkerBootstrapPayload(proc[p])}]]
  /\ environ' =
       IF shareEnv THEN environ
       ELSE [environ EXCEPT ![c] =
               buildProtectedEnv(proc[p], environ[Home(p)], TRUE)]
  /\ UNCHANGED <<claims, learned>>

\* a program starts another, or a node process, which is wrapped if the
\* environment says so
PlainStarts(p, c, node) ==
  /\ proc[p].phase = "plain"
  /\ proc[c].phase = "absent"
  /\ environ' = [environ EXCEPT ![c] = environ[Home(p)]]
  /\ proc' =
       [proc EXCEPT ![c] =
          newProcess(c, IF node /\ environ[Home(p)].preload
                        THEN "booting" ELSE "plain", LineOf(p))]
  /\ UNCHANGED <<claims, learned>>
-----------------------------------------------------------------------------
(***************************************************************************)
(* Installation, and the sidecar's word.                                    *)
(***************************************************************************)

\* applyNonSecretWorkerBootstrapEnv
applyPayload(env, payload) ==
  [env EXCEPT !.mode = containmentEnv(payload.containment).mode,
              !.modes = containmentEnv(payload.containment).modes,
              !.rules = containmentEnv(payload.containment).rules,
              !.parent = payload.parent]

\* mutant: the environment goes before the payload
installed_EnvFirst(p) ==
  [proc[p] EXCEPT
     !.phase = "wrapped", !.payload = {},
     !.state = containmentFromEnv(environ[Home(p)]),
     !.key = \/ environ[Home(p)].key
             \/ \E payload \in proc[p].payload : payload.key]

\* installNodePreload: the containment of a payload is taken before the
\* environment's, its key only if the environment has none
installed(p) ==
  [proc[p] EXCEPT
     !.phase = "wrapped",
     !.payload = {},
     !.state = IF proc[p].payload = {} THEN containmentFromEnv(environ[Home(p)])
               ELSE TheValue(proc[p].payload).containment,
     !.key = \/ environ[Home(p)].key
             \/ \E payload \in proc[p].payload : payload.key]

\* mutant: only the token, which is not modelled, is removed
scrubbed_TokenOnly(env) == env

\* scrubSidecarAuthEnv
scrubbed(env) == [env EXCEPT !.key = FALSE]

Install(p) ==
  /\ proc[p].phase = "booting"
  /\ proc' = [proc EXCEPT ![p] = installed(p)]
  /\ environ' =
       [environ EXCEPT ![Home(p)] =
          scrubbed(IF proc[p].payload = {} THEN @
                   ELSE applyPayload(@, TheValue(proc[p].payload)))]
  /\ UNCHANGED <<claims, learned>>

containmentFor(postures) ==
  sessionContainment(ContainmentMode, postures, learned)

updated(p, postures) ==
  applyContainmentUpdate(proc[p].state, containmentFor(postures))

\* p redeems its bootstrap key, for the first time or after its token has
\* been refused, and names the parent that its environment names
Bootstrap(p, s, postures) ==
  /\ Wrapped(p)
  /\ proc[p].key
  /\ claims[s].by = None
  /\ claims' = [claims EXCEPT ![s] = [by |-> p, parent |-> environ[Home(p)].parent]]
  /\ proc' =
       [proc EXCEPT ![p] =
          [@ EXCEPT !.control = s, !.legacy = {}, !.deeds = {},
                    !.state = updated(p, postures)]]
  /\ UNCHANGED <<environ, learned>>

\* the response of a heartbeat
Heartbeat(p, postures) ==
  /\ Wrapped(p)
  /\ proc[p].control # None
  /\ proc' =
       [proc EXCEPT ![p] = [@ EXCEPT !.state = updated(p, postures)]]
  /\ UNCHANGED <<environ, claims, learned>>

\* the baseline qualifies a pattern
Learn(t) ==
  /\ t \in Learnable
  /\ learned' = learned \cup {t}
  /\ UNCHANGED <<proc, environ, claims>>

\* readFileSync, createReadStream, connect, or a process that does not last.
\* A refused access leaves the process as it is; refusals, processes and
\* connections are reported by calls such as PreloadClient's.
Access(p, t) ==
  /\ Wrapped(p)
  /\ ~ Refused(proc[p].state, t)
  /\ proc' =
       IF t \in Hazardous /\ proc[p].legacy # {}
       THEN [proc EXCEPT ![p] = [@ EXCEPT !.deeds = proc[p].deeds \cup {t}]]
       ELSE proc
  /\ UNCHANGED <<environ, claims, learned>>

Create(p, c) ==
  \/ \E t \in Target, ownEnv \in BOOLEAN : StartProcess(p, c, t, ownEnv)
  \/ \E t \in Target : ExecWithCallback(p, c, t)
  \/ \E shareEnv \in BOOLEAN : StartWorker(p, c, shareEnv)
  \/ \E node \in BOOLEAN : PlainStarts(p, c, node)

Step(p) ==
  \/ Install(p)
  \/ \E s \in Session, postures \in Postures : Bootstrap(p, s, postures)
  \/ \E postures \in Postures : Heartbeat(p, postures)
  \/ \E t \in Target : Access(p, t)

Next ==
  \/ \E p \in Process : Step(p)
  \/ \E p, c \in Process : Create(p, c)
  \/ \E t \in Target : Learn(t)

Spec == Init /\ [][Next]_vars
-----------------------------------------------------------------------------
(***************************************************************************)
(* What is handed down.                                                     *)
(***************************************************************************)

\* Until it hears from the sidecar, a node process or worker thread has the
\* containment that its creator enforced when it created it, however stale the
\* environment it was started in: mode, overrides and allowlist survive the
\* environment and the payload.  And it has got at nothing before that its
\* creator would have been refused: there is no gap before the first exchange.
InheritsAtBirth ==
  \A p \in Process :
    \A legacy \in proc[p].legacy :
      /\ Wrapped(p) => proc[p].state = legacy
      /\ \A t \in proc[p].deeds : ~ Refused(legacy, t)

\* The bootstrap key is in an environment only between the creation of a node
\* process and its installation; programs never see it, nor do the processes
\* that programs start.
KeyStaysInNode ==
  \A p \in Process :
    /\ proc[p].phase # "absent" /\ environ[Home(p)].key => proc[p].phase = "booting"
    /\ proc[p].key => proc[p].creator # None \/ p = Root

SharesItsEnv(p) ==
  \E q \in Process \ {p} : proc[q].phase # "absent" /\ Home(q) = Home(p)

\* The parent that a control session of a node process or worker names is the
\* session that its creator had when it created it.  This is not so where
\* workers share an environment, in which each writes its own parent, nor
\* behind a program; but the named session always belongs to an ancestor, or
\* to one that shares an environment with an ancestor or with itself.
LineageIsDescent ==
  \A s \in Session :
    LET p      == claims[s].by
        parent == claims[s].parent
    IN  p # None =>
          /\ proc[p].creator # None /\ ~ SharesItsEnv(p) =>
               parent = proc[p].descent
          /\ parent # None =>
               \/ \E a \in proc[p].line : Home(claims[parent].by) = Home(a)
               \/ SharesItsEnv(p) /\ Home(claims[parent].by) = Home(p)
=============================================================================
