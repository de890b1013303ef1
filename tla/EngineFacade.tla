---------------------------- MODULE EngineFacade ----------------------------
(***************************************************************************)
(* The engine (engine.ts) and the resource inventory (resource-inventory.ts)*)
(* of the processes that work on one project: a wrapped run, a sidecar, a   *)
(* scan.  They share the file of the inventory and nothing else.            *)
(*                                                                          *)
(* A process is an event loop: a call runs atomically up to an await.       *)
(* init sets the configuration before it awaits the inventory, the project  *)
(* topology and the policy, and creates the coordinator last; what other    *)
(* calls find in between, or after an init that threw, is the matter here.  *)
(* What a coordinator decides is the matter of SurfaceResolution: of it     *)
(* only what it was given to decide with is kept.  Of a profile only who    *)
(* has observed the resource is kept.                                       *)
(***************************************************************************)
EXTENDS Naturals, JsonFile

CONSTANTS
  Process,     \* processes working on the project
  Task,        \* places for calls under way
  Home,        \* Home[t]: the process whose calls t holds
  Resource,    \* resources the inventory may know
  Topology,    \* those that a walk of the project finds
  None,
  MaxFailures  \* bound: calls on the system that fail

ASSUME EngineAssumption ==
  /\ Home \in [Task -> Process]
  /\ Topology \subseteq Resource
  /\ MaxFailures \in Nat

Source == {"heuristic", "surface-scan", "runtime"}

Observation == [resource : Resource, source : Source]

\* what a coordinator was constructed with
Coordinator == [policy : BOOLEAN, inventory : BOOLEAN]

ASSUME NoneIsNoCoordinator == None \notin Coordinator

Complete == [policy |-> TRUE, inventory |-> TRUE]

Engine ==
  [config      : BOOLEAN,                  \* loaded
   policy      : BOOLEAN,                  \* policyEngine is set
   coordinator : Coordinator \cup {None},
   initialized : BOOLEAN,                  \* the inventory
   profiles    : SUBSET Observation,
   ready       : BOOLEAN]                  \* history: an init has completed

NewEngine ==
  [config |-> FALSE, policy |-> FALSE, coordinator |-> None,
   initialized |-> FALSE, profiles |-> {}, ready |-> FALSE]

VARIABLES
  engine,         \* engine[p]: the engine of the process p
  task,           \* task[t]: a call under way
  inventoryFile,  \* resource-inventory.json
  failures        \* how many calls have failed

engineVars == <<engine, task, inventoryFile, failures>>

Idle == [phase |-> "idle"]

\* phases of init, of ResourceInventory.initialize, of what follows them, and
\* of ResourceInventory.persist
EnginePhase ==
  {"config", "initialize", "reading", "topology", "policy",
   "decide", "scan", "upsert", "persist", "open", "write"}

Of(t) == engine[Home[t]]

\* a call in its first phase; ready: whether an init had completed by then
Call(kind, phase, ready) ==
  [kind |-> kind, phase |-> phase, ready |-> ready, coordinator |-> None,
   inited |-> FALSE, observed |-> {}, saved |-> {}]

At(t, phase) == task[t].phase = phase

Goto(t, phase) == task' = [task EXCEPT ![t].phase = phase]

Fails == failures < MaxFailures /\ failures' = failures + 1
-----------------------------------------------------------------------------
\* what the load of a file makes of the profiles: those of the file replace
\* those of the same resource
Loaded(profiles, content) ==
  IF Parses(content)
  THEN {o \in profiles : \A f \in content.elements : f.resource # o.resource}
         \cup content.elements
  ELSE profiles

\* where a call goes on after init; a call that is done is idle
AfterInit(call) ==
  CASE call.kind = "start" -> [call EXCEPT !.phase = "baseline"]
    [] call.kind = "scan"  -> [call EXCEPT !.phase = "scan", !.inited = TRUE]
    [] call.kind \in {"resolve", "surface"} ->
         [call EXCEPT !.phase = "decide", !.coordinator = Complete]
    [] OTHER -> Idle

\* and after initialize: init goes on with the topology, the rest observes
AfterInitialize(call) ==
  IF call.kind \in {"observe", "event"} \/ call.inited
  THEN [call EXCEPT !.phase = "upsert"]
  ELSE [call EXCEPT !.phase = "topology"]

\* and after persist
AfterPersist(call) ==
  IF call.kind \in {"stop", "interrupt"}
  THEN [call EXCEPT !.phase = "baseline-persist"] ELSE Idle
-----------------------------------------------------------------------------
\* the embedding program, or a command, initialises the engine
BeginInit(t) ==
  /\ task[t] = Idle
  /\ task' = [task EXCEPT ![t] = Call("init", "config", Of(t).ready)]
  /\ UNCHANGED <<engine, inventoryFile, failures>>

\* resolveReadSurface and its kind, with getOrCreateOverlayCoordinator: without
\* a coordinator the first to come initialises the engine; whoever finds a
\* configuration makes do with a coordinator of what there is, and keeps it
BeginResolve(t, kind) ==
  LET e == Of(t)
      bare == [policy |-> e.policy, inventory |-> FALSE]
  IN
  /\ task[t] = Idle
  /\ \/ /\ e.coordinator # None
        /\ task' = [task EXCEPT ![t] =
                      [Call(kind, "decide", e.ready) EXCEPT
                         !.coordinator = e.coordinator]]
        /\ UNCHANGED engine
     \/ /\ e.coordinator = None /\ ~ e.config
        /\ task' = [task EXCEPT ![t] = Call(kind, "config", e.ready)]
        /\ UNCHANGED engine
     \/ /\ e.coordinator = None /\ e.config
        /\ task' = [task EXCEPT ![t] =
                      [Call(kind, "decide", e.ready) EXCEPT
                         !.coordinator = bare]]
        /\ engine' = [engine EXCEPT ![Home[t]].coordinator = bare]
  /\ UNCHANGED <<inventoryFile, failures>>

\* observeRuntimeEvent
BeginObserve(t, kind, resource) ==
  /\ task[t] = Idle
  /\ task' = [task EXCEPT ![t] =
                [Call(kind, "initialize", Of(t).ready) EXCEPT
                   !.observed = {[resource |-> resource,
                                  source |-> "runtime"]}]]
  /\ UNCHANGED <<engine, inventoryFile, failures>>

\* scan initialises the engine only when there is no configuration
BeginScan(t) ==
  /\ task[t] = Idle
  /\ task' = [task EXCEPT ![t] =
                IF Of(t).config
                THEN [Call("scan", "scan", Of(t).ready) EXCEPT !.inited = TRUE]
                ELSE Call("scan", "config", Of(t).ready)]
  /\ UNCHANGED <<engine, inventoryFile, failures>>

\* ConfigLoader.load; the output directory is made
LoadConfig(t) ==
  /\ At(t, "config")
  /\ engine' = [engine EXCEPT ![Home[t]].config = TRUE]
  /\ Goto(t, "initialize")
  /\ UNCHANGED <<inventoryFile, failures>>

\* initialize, up to the read of the file
InitializeInventory(t) ==
  /\ At(t, "initialize")
  /\ LET done == Of(t).initialized \/ inventoryFile = Absent IN
     /\ engine' = [engine EXCEPT ![Home[t]].initialized = done]
     /\ task' = [task EXCEPT ![t] = IF done THEN AfterInitialize(@)
                                    ELSE [@ EXCEPT !.phase = "reading"]]
  /\ UNCHANGED <<inventoryFile, failures>>

\* and from it on: an unreadable file is ignored
ReadInventory(t) ==
  /\ At(t, "reading")
  /\ engine' = [engine EXCEPT
                  ![Home[t]].initialized = TRUE,
                  ![Home[t]].profiles = Loaded(@, inventoryFile)]
  /\ task' = [task EXCEPT ![t] = AfterInitialize(@)]
  /\ UNCHANGED <<inventoryFile, failures>>

\* ingestProjectTopology: manifests, lockfiles and routes
IngestTopology(t) ==
  /\ At(t, "topology")
  /\ engine' = [engine EXCEPT ![Home[t]].profiles =
                  @ \cup [resource : Topology, source : {"heuristic"}]]
  /\ Goto(t, "policy")
  /\ UNCHANGED <<inventoryFile, failures>>

\* mutant: a coordinator that is there already is kept
LoadPolicy_KeepsCoordinator(t) ==
  /\ At(t, "policy")
  /\ engine' = [engine EXCEPT ![Home[t]].policy = TRUE,
                              ![Home[t]].ready = TRUE,
                              ![Home[t]].coordinator =
                                 IF @ = None THEN Complete ELSE @]
  /\ task' = [task EXCEPT ![t] = AfterInit(@)]
  /\ UNCHANGED <<inventoryFile, failures>>

\* PolicyEngine.fromFile, which falls back to the default policy, and with it
\* the coordinator
LoadPolicy(t) ==
  /\ At(t, "policy")
  /\ engine' = [engine EXCEPT ![Home[t]].policy = TRUE,
                              ![Home[t]].ready = TRUE,
                              ![Home[t]].coordinator = Complete]
  /\ task' = [task EXCEPT ![t] = AfterInit(@)]
  /\ UNCHANGED <<inventoryFile, failures>>

\* the configuration is malformed, or a directory cannot be read: init throws,
\* and with it the call; a configuration that was loaded stays
FailInit(t) ==
  /\ task[t].phase \in {"config", "topology"}
  /\ Fails
  /\ task' = [task EXCEPT ![t] = Idle]
  /\ UNCHANGED <<engine, inventoryFile>>

\* the coordinator decides with what it has
Decide(t) ==
  /\ At(t, "decide")
  /\ task' = [task EXCEPT ![t] = Idle]
  /\ UNCHANGED <<engine, inventoryFile, failures>>

\* the surface coat is disabled, or it has been scanned: findings are audited
\* and summed up, and each is to be observed
Scan(t, found) ==
  /\ At(t, "scan")
  /\ \/ task' = [task EXCEPT ![t] = Idle]
     \/ task' = [task EXCEPT
                   ![t].phase = "initialize",
                   ![t].observed =
                      [resource : found, source : {"surface-scan"}]]
  /\ UNCHANGED <<engine, inventoryFile, failures>>

\* mutant: a profile is replaced by the latest observation of its resource
Upsert_Replaces(t) ==
  LET observed == task[t].observed
      known == {o.resource : o \in observed}
  IN
  /\ At(t, "upsert")
  /\ engine' = [engine EXCEPT ![Home[t]].profiles =
                  {o \in @ : o.resource \notin known} \cup observed]
  /\ task' = [task EXCEPT ![t] =
                CASE @.kind = "scan"  -> [@ EXCEPT !.phase = "persist"]
                  [] @.kind = "event" -> [@ EXCEPT !.phase = "learn"]
                  [] OTHER            -> Idle]
  /\ UNCHANGED <<inventoryFile, failures>>

\* upsertProfile; a scan persists, a sidecar's handler shows the event to the
\* baseline next
Upsert(t) ==
  /\ At(t, "upsert")
  /\ engine' = [engine EXCEPT ![Home[t]].profiles = @ \cup task[t].observed]
  /\ task' = [task EXCEPT ![t] =
                CASE @.kind = "scan"  -> [@ EXCEPT !.phase = "persist"]
                  [] @.kind = "event" -> [@ EXCEPT !.phase = "learn"]
                  [] OTHER            -> Idle]
  /\ UNCHANGED <<inventoryFile, failures>>

\* persist: what is to be written is fixed before the file is opened
PersistInventory(t) ==
  /\ At(t, "persist")
  /\ task' = [task EXCEPT ![t].phase = "open", ![t].saved = Of(t).profiles]
  /\ UNCHANGED <<engine, inventoryFile, failures>>

OpenInventory(t) ==
  /\ At(t, "open")
  /\ inventoryFile' = Truncated
  /\ Goto(t, "write")
  /\ UNCHANGED <<engine, failures>>

WriteInventory(t) ==
  /\ At(t, "write")
  /\ inventoryFile' \in Written(inventoryFile, task[t].saved)
  /\ task' = [task EXCEPT ![t] = AfterPersist(@)]
  /\ UNCHANGED <<engine, failures>>

\* the file cannot be opened, or not be written once it is
FailPersist(t) ==
  /\ task[t].phase \in {"open", "write"}
  /\ Fails
  /\ task' = [task EXCEPT ![t] = Idle]
  /\ UNCHANGED <<engine, inventoryFile>>

EngineStep(t) ==
  \/ LoadConfig(t)
  \/ InitializeInventory(t)
  \/ ReadInventory(t)
  \/ IngestTopology(t)
  \/ LoadPolicy(t)
  \/ FailInit(t)
  \/ Decide(t)
  \/ \E found \in SUBSET Resource : Scan(t, found)
  \/ Upsert(t)
  \/ PersistInventory(t)
  \/ OpenInventory(t)
  \/ WriteInventory(t)
=============================================================================
