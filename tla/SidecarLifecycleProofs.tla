----------------------- MODULE SidecarLifecycleProofs -----------------------
(***************************************************************************)
(* For any processes, calls, failures and overlaps: SidecarLifecycle is     *)
(* type correct, requests that come in once an engine is ready are decided  *)
(* with its policy and its inventory, the address of a sidecar is that of   *)
(* the server that listens, and what was learned outlives starts and stops. *)
(***************************************************************************)
EXTENDS SidecarLifecycle, TLAPS

\* what a call has to write fits the file it opens; a start goes on, and a
\* handler runs, with a ready engine only, and then decides with all there is
CallSound(t) ==
  /\ task[t].phase \in {"open", "write"} => task[t].saved \subseteq Observation
  /\ task[t].phase \in {"baseline-open", "baseline-write"} =>
       task[t].saved \subseteq Resource
  /\ task[t].phase \in {"baseline", "baseline-reading", "listen"} =>
       engine[Home[t]].ready
  /\ task[t].phase = "listen" => listened[t] \in Server
  /\ task[t] # Idle /\ task[t].kind = "surface" => task[t].ready
  /\ task[t].phase = "decide" /\ task[t].ready =>
       task[t].coordinator = Complete

EngineSound(p) == engine[p].ready => engine[p].coordinator = Complete

ListensWhenReady(p) == sidecar[p].listening # {} => engine[p].ready

IInv ==
  /\ TypeOK
  /\ \A t \in Task : CallSound(t)
  /\ \A p \in Process : EngineSound(p) /\ ListensWhenReady(p)

\* The step of a call keeps to its process.
Confined(t) ==
  /\ \A u \in Task \ {t} : task'[u] = task[u] /\ listened'[u] = listened[u]
  /\ \A p \in Process \ {Home[t]} :
       engine'[p] = engine[p] /\ sidecar'[p] = sidecar[p]

\* types that no history has a part in
StateOK ==
  /\ engine \in [Process -> Engine]
  /\ DOMAIN task = Task
  /\ \A t \in Task : task[t] = Idle \/ task[t] \in CallRecord
  /\ inventoryFile \in Content(Observation)
  /\ failures \in 0 .. MaxFailures
  /\ sidecar \in [Process -> Sidecar]
  /\ listened \in [Task -> MaybeServer]
  /\ baselineFile \in Content(Resource)

\* what is to be shown of the step of a call
Kept(t) ==
  /\ StateOK'
  /\ Confined(t)
  /\ CallSound(t)'
  /\ EngineSound(Home[t])'
  /\ ListensWhenReady(Home[t])'
  /\ engine[Home[t]].ready => engine'[Home[t]].ready
-----------------------------------------------------------------------------
LEMMA HomeIsAProcess == ASSUME NEW t \in Task PROVE Home[t] \in Process
  BY EngineAssumption

\* What a file of the right kind holds, and what is written to one, is of its
\* kind.
LEMMA ContentFits ==
  ASSUME NEW Element, NEW c \in Content(Element)
  PROVE  /\ c.elements \subseteq Element
         /\ Truncated \in Content(Element)
         /\ \A s \in SUBSET Element : Written(c, s) \subseteq Content(Element)
  BY DEF Content, Absent, Truncated, Garbled, Whole, Written

\* A loaded inventory holds observations.
LEMMA LoadedFits ==
  ASSUME NEW profiles \in SUBSET Observation, NEW c \in Content(Observation)
  PROVE  Loaded(profiles, c) \in SUBSET Observation
  BY ContentFits DEF Loaded

\* Whatever is not idle is a call.
LEMMA ACall ==
  ASSUME IInv, NEW t \in Task, task[t] # Idle
  PROVE  task[t] \in CallRecord
  BY DEF IInv, TypeOK

\* A call that begins is a call.
LEMMA NewCall ==
  ASSUME NEW kind \in Kind, NEW phase \in EnginePhase \cup LifecyclePhase,
         NEW ready \in BOOLEAN
  PROVE  Call(kind, phase, ready) \in CallRecord
  BY DEF Call, CallRecord

\* A step that gives t another call, or none, and nothing else.
LEMMA TaskStep ==
  ASSUME IInv, NEW t \in Task, NEW c, c = Idle \/ c \in CallRecord,
         task' = [task EXCEPT ![t] = c]
  PROVE  /\ DOMAIN task' = Task
         /\ \A u \in Task : task'[u] = Idle \/ task'[u] \in CallRecord
         /\ \A u \in Task \ {t} : task'[u] = task[u]
         /\ task'[t] = c
  BY DEF IInv, TypeOK

\* One that leaves engines and sidecars alone.
LEMMA QuietStep ==
  ASSUME IInv, NEW t \in Task, NEW c, c = Idle \/ c \in CallRecord,
         task' = [task EXCEPT ![t] = c],
         UNCHANGED <<engine, sidecar>>,
         listened' \in [Task -> MaybeServer],
         \A u \in Task \ {t} : listened'[u] = listened[u],
         inventoryFile' \in Content(Observation),
         baselineFile' \in Content(Resource),
         failures' \in 0 .. MaxFailures,
         CallSound(t)'
  PROVE  Kept(t)
<1>1. /\ DOMAIN task' = Task
      /\ \A u \in Task : task'[u] = Idle \/ task'[u] \in CallRecord
      /\ \A u \in Task \ {t} : task'[u] = task[u]
  BY TaskStep
<1>2. StateOK'
  BY <1>1 DEF StateOK, IInv, TypeOK
<1>3. EngineSound(Home[t])' /\ ListensWhenReady(Home[t])'
  BY HomeIsAProcess DEF IInv, EngineSound, ListensWhenReady
<1>4. QED
  BY <1>1, <1>2, <1>3 DEF Kept, Confined

\* One that changes the engine, and does not take its readiness back.
LEMMA StepOfEngine ==
  ASSUME IInv, NEW t \in Task, NEW c, c = Idle \/ c \in CallRecord,
         task' = [task EXCEPT ![t] = c],
         NEW e \in Engine,
         engine' = [engine EXCEPT ![Home[t]] = e],
         Of(t).ready => e.ready,
         e.ready => e.coordinator = Complete,
         UNCHANGED <<sidecar, listened, inventoryFile, baselineFile, failures>>,
         CallSound(t)'
  PROVE  Kept(t)
<1>1. /\ DOMAIN task' = Task
      /\ \A u \in Task : task'[u] = Idle \/ task'[u] \in CallRecord
      /\ \A u \in Task \ {t} : task'[u] = task[u]
  BY TaskStep
<1>2. /\ engine' \in [Process -> Engine]
      /\ engine'[Home[t]] = e
      /\ \A p \in Process \ {Home[t]} : engine'[p] = engine[p]
  BY HomeIsAProcess DEF IInv, TypeOK
<1>3. StateOK'
  BY <1>1, <1>2 DEF StateOK, IInv, TypeOK
<1>4. EngineSound(Home[t])' /\ ListensWhenReady(Home[t])'
  BY <1>2, HomeIsAProcess DEF IInv, EngineSound, ListensWhenReady, Of
<1>5. QED
  BY <1>1, <1>2, <1>3, <1>4 DEF Kept, Confined, Of

\* One that changes the sidecar, whose server listens with a ready engine.
LEMMA StepOfSidecar ==
  ASSUME IInv, NEW t \in Task, NEW c, c = Idle \/ c \in CallRecord,
         task' = [task EXCEPT ![t] = c],
         NEW s \in Sidecar,
         sidecar' = [sidecar EXCEPT ![Home[t]] = s],
         s.listening \subseteq Its(t).listening \/ Of(t).ready,
         listened' \in [Task -> MaybeServer],
         \A u \in Task \ {t} : listened'[u] = listened[u],
         baselineFile' \in Content(Resource),
         UNCHANGED <<engine, inventoryFile, failures>>,
         CallSound(t)'
  PROVE  Kept(t)
<1>1. /\ DOMAIN task' = Task
      /\ \A u \in Task : task'[u] = Idle \/ task'[u] \in CallRecord
      /\ \A u \in Task \ {t} : task'[u] = task[u]
  BY TaskStep
<1>2. /\ sidecar' \in [Process -> Sidecar]
      /\ sidecar'[Home[t]] = s
      /\ \A p \in Process \ {Home[t]} : sidecar'[p] = sidecar[p]
  BY HomeIsAProcess DEF IInv, TypeOK
<1>3. StateOK'
  BY <1>1, <1>2 DEF StateOK, IInv, TypeOK
<1>4. EngineSound(Home[t])' /\ ListensWhenReady(Home[t])'
  BY <1>2, HomeIsAProcess DEF IInv, EngineSound, ListensWhenReady, Of, Its
<1>5. QED
  BY <1>1, <1>2, <1>3, <1>4 DEF Kept, Confined

\* What is known of the engine and the sidecar of a call.
LEMMA OfACall ==
  ASSUME IInv, NEW t \in Task
  PROVE  /\ Of(t) \in Engine /\ Of(t).ready \in BOOLEAN
         /\ Its(t) \in Sidecar
         /\ Of(t).ready => Of(t).coordinator = Complete
         /\ Its(t).listening # {} => Of(t).ready
         /\ Complete # None /\ Complete \in Coordinator
<1>1. Home[t] \in Process
  BY HomeIsAProcess
<1>2. Complete # None /\ Complete \in Coordinator
  <2>1. Complete \in Coordinator
    BY DEF Complete, Coordinator
  <2>2. QED
    BY <2>1, NoneIsNoCoordinator
<1>3. QED
  BY <1>1, <1>2
  DEF IInv, TypeOK, Engine, Of, Its, EngineSound, ListensWhenReady

\* Fewer failures than allowed, and one more.
LEMMA FailsKeeps ==
  ASSUME IInv, Fails
  PROVE  failures' \in 0 .. MaxFailures
  BY EngineAssumption DEF IInv, TypeOK, Fails
-----------------------------------------------------------------------------
\* Calls on the engine: their beginnings.
LEMMA BeginInitKeeps ==
  ASSUME IInv, NEW t \in Task, BeginInit(t),
         UNCHANGED <<sidecar, listened, baselineFile>>
  PROVE  Kept(t)
<1> DEFINE c == Call("init", "config", Of(t).ready)
<1>1. c \in CallRecord
  BY NewCall, OfACall DEF Kind, EnginePhase
<1>2. task' = [task EXCEPT ![t] = c]
  BY DEF BeginInit
<1>3. task'[t] = c
  BY <1>1, <1>2, TaskStep
<1>4. CallSound(t)'
  BY <1>3 DEF CallSound, Call, Idle
<1>5. QED
  BY <1>1, <1>2, <1>4, QuietStep DEF BeginInit, IInv, TypeOK

LEMMA BeginResolveKeeps ==
  ASSUME IInv, NEW t \in Task, NEW kind \in {"resolve", "surface"},
         BeginResolve(t, kind), kind = "surface" => Of(t).ready,
         UNCHANGED <<sidecar, listened, baselineFile>>
  PROVE  Kept(t)
<1> DEFINE bare == [policy |-> Of(t).policy, inventory |-> FALSE]
           next == Call(kind, "config", Of(t).ready)
           with(k) == [Call(kind, "decide", Of(t).ready) EXCEPT !.coordinator = k]
<1>1. /\ next \in CallRecord
      /\ \A k \in Coordinator : with(k) \in CallRecord
  <2>1. /\ next \in CallRecord
        /\ Call(kind, "decide", Of(t).ready) \in CallRecord
    BY NewCall, OfACall DEF Kind, EnginePhase
  <2>2. QED
    BY <2>1 DEF CallRecord
<1>2. bare \in Coordinator
  BY OfACall DEF Engine, Coordinator
<1>3. CASE /\ Of(t).coordinator # None
           /\ task' = [task EXCEPT ![t] = with(Of(t).coordinator)]
           /\ UNCHANGED engine
  <2>1. Of(t).coordinator \in Coordinator
    BY <1>3, OfACall DEF Engine
  <2>2. task'[t] = with(Of(t).coordinator)
    BY <1>1, <1>3, <2>1, TaskStep
  <2>3. CallSound(t)'
    BY <2>2, OfACall DEF CallSound, Call, Idle
  <2>4. QED
    BY <1>1, <1>3, <2>1, <2>3, QuietStep DEF BeginResolve, IInv, TypeOK
<1>4. CASE task' = [task EXCEPT ![t] = next] /\ UNCHANGED engine
  <2>1. task'[t] = next
    BY <1>1, <1>4, TaskStep
  <2>2. CallSound(t)'
    BY <2>1 DEF CallSound, Call, Idle
  <2>3. QED
    BY <1>1, <1>4, <2>2, QuietStep DEF BeginResolve, IInv, TypeOK
<1>5. CASE /\ Of(t).coordinator = None
           /\ task' = [task EXCEPT ![t] = with(bare)]
           /\ engine' = [engine EXCEPT ![Home[t]].coordinator = bare]
  <2> DEFINE e == [Of(t) EXCEPT !.coordinator = bare]
  <2>1. ~ Of(t).ready
    BY <1>5, OfACall
  <2>2. task'[t] = with(bare)
    BY <1>1, <1>2, <1>5, TaskStep
  <2>3. CallSound(t)'
    BY <2>1, <2>2 DEF CallSound, Call, Idle
  <2>4. e \in Engine /\ ~ e.ready
    BY <1>2, <2>1, OfACall DEF Engine
  <2>5. engine' = [engine EXCEPT ![Home[t]] = e]
    BY <1>5 DEF Of
  <2>6. with(bare) \in CallRecord
    BY <1>1, <1>2
  <2>7. QED
    BY <1>5, <2>1, <2>3, <2>4, <2>5, <2>6, StepOfEngine DEF BeginResolve
<1>6. QED
  BY <1>3, <1>4, <1>5 DEF BeginResolve, Of

LEMMA BeginObserveKeeps ==
  ASSUME IInv, NEW t \in Task, NEW kind \in {"observe", "event"},
         NEW resource \in Resource, BeginObserve(t, kind, resource),
         UNCHANGED <<sidecar, listened, baselineFile>>
  PROVE  Kept(t)
<1> DEFINE new == Call(kind, "initialize", Of(t).ready)
           o == [resource |-> resource, source |-> "runtime"]
           c == [new EXCEPT !.observed = {o}]
<1>1. new \in CallRecord
  BY NewCall, OfACall DEF Kind, EnginePhase
<1>2. {o} \in SUBSET Observation
  BY DEF Observation, Source
<1>3. c \in CallRecord
  BY <1>1, <1>2 DEF CallRecord
<1>4. task' = [task EXCEPT ![t] = c]
  BY DEF BeginObserve
<1>5. task'[t] = c
  BY <1>3, <1>4, TaskStep
<1>6. CallSound(t)'
  BY <1>5 DEF CallSound, Call, Idle
<1>7. QED
  BY <1>3, <1>4, <1>6, QuietStep DEF BeginObserve, IInv, TypeOK

LEMMA BeginScanKeeps ==
  ASSUME IInv, NEW t \in Task, BeginScan(t),
         UNCHANGED <<sidecar, listened, baselineFile>>
  PROVE  Kept(t)
<1> DEFINE scan == [Call("scan", "scan", Of(t).ready) EXCEPT !.inited = TRUE]
           init == Call("scan", "config", Of(t).ready)
           c == IF Of(t).config THEN scan ELSE init
<1>1. c \in CallRecord
  <2>1. Call("scan", "scan", Of(t).ready) \in CallRecord /\ init \in CallRecord
    BY NewCall, OfACall DEF Kind, EnginePhase
  <2>2. QED
    BY <2>1 DEF CallRecord
<1>2. task' = [task EXCEPT ![t] = c]
  BY DEF BeginScan
<1>3. task'[t] = c
  BY <1>1, <1>2, TaskStep
<1>4. CallSound(t)'
  BY <1>3 DEF CallSound, Call, Idle
<1>5. QED
  BY <1>1, <1>2, <1>4, QuietStep DEF BeginScan, IInv, TypeOK

LEMMA BeginHandlerKeeps ==
  ASSUME IInv, NEW t \in Task, NEW kind \in {"surface", "event"},
         BeginHandler(t, kind), UNCHANGED <<sidecar, listened, baselineFile>>
  PROVE  Kept(t)
<1>1. Of(t).ready
  BY OfACall DEF BeginHandler
<1>2. CASE kind = "surface"
  BY <1>1, <1>2, BeginResolveKeeps DEF BeginHandler
<1>3. CASE kind = "event"
  BY <1>3, BeginObserveKeeps DEF BeginHandler
<1>4. QED
  BY <1>2, <1>3
-----------------------------------------------------------------------------
\* The steps of calls on the engine.
LEMMA LoadConfigKeeps ==
  ASSUME IInv, NEW t \in Task, LoadConfig(t),
         UNCHANGED <<sidecar, listened, baselineFile>>
  PROVE  Kept(t)
<1> DEFINE c == [task[t] EXCEPT !.phase = "initialize"]
           e == [Of(t) EXCEPT !.config = TRUE]
<1>1. task[t] \in CallRecord
  BY ACall DEF LoadConfig, At, Idle
<1>2. c \in CallRecord
  BY <1>1 DEF CallRecord, EnginePhase
<1>3. e \in Engine /\ e.ready = Of(t).ready /\ e.coordinator = Of(t).coordinator
  BY OfACall DEF Engine
<1>4. /\ task' = [task EXCEPT ![t] = c]
      /\ engine' = [engine EXCEPT ![Home[t]] = e]
  BY DEF LoadConfig, Goto, Of
<1>5. task'[t] = c
  BY <1>2, <1>4, TaskStep
<1>6. CallSound(t)'
  BY <1>1, <1>5 DEF CallSound, CallRecord, IInv, LoadConfig, At, Idle
<1>7. QED
  BY <1>2, <1>3, <1>4, <1>6, OfACall, StepOfEngine DEF LoadConfig

\* A call after initialize.
LEMMA AfterInitializeFits ==
  ASSUME NEW c \in CallRecord
  PROVE  /\ AfterInitialize(c) \in CallRecord
         /\ AfterInitialize(c).phase \in {"upsert", "topology"}
         /\ AfterInitialize(c).kind = c.kind
         /\ AfterInitialize(c).ready = c.ready
         /\ AfterInitialize(c) # Idle
<1>1. CASE c.kind \in {"observe", "event"} \/ c.inited
  BY <1>1 DEF AfterInitialize, CallRecord, EnginePhase, Idle
<1>2. CASE ~ (c.kind \in {"observe", "event"} \/ c.inited)
  BY <1>2 DEF AfterInitialize, CallRecord, EnginePhase, Idle
<1>3. QED
  BY <1>1, <1>2

LEMMA InitializeInventoryKeeps ==
  ASSUME IInv, NEW t \in Task, InitializeInventory(t),
         UNCHANGED <<sidecar, listened, baselineFile>>
  PROVE  Kept(t)
<1> DEFINE done == Of(t).initialized \/ inventoryFile = Absent
           c == IF done THEN AfterInitialize(task[t])
                ELSE [task[t] EXCEPT !.phase = "reading"]
           e == [Of(t) EXCEPT !.initialized = done]
<1>1. task[t] \in CallRecord
  BY ACall DEF InitializeInventory, At, Idle
<1>2. /\ c \in CallRecord /\ c.phase \in {"upsert", "topology", "reading"}
      /\ c.kind = task[t].kind /\ c.ready = task[t].ready
  BY <1>1, AfterInitializeFits DEF CallRecord, EnginePhase
<1>3. done \in BOOLEAN
  BY OfACall DEF Engine
<1>4. e \in Engine /\ e.ready = Of(t).ready /\ e.coordinator = Of(t).coordinator
  <2> HIDE DEF done
  <2>1. QED
    BY <1>3, OfACall DEF Engine
<1>5. /\ task' = [task EXCEPT ![t] = c]
      /\ engine' = [engine EXCEPT ![Home[t]] = e]
  BY DEF InitializeInventory, Of
<1> HIDE DEF c, e
<1>6. task'[t] = c
  BY <1>2, <1>5, TaskStep
<1>7. CallSound(t)'
  BY <1>1, <1>2, <1>6 DEF CallSound, IInv, InitializeInventory, At, Idle
<1>8. QED
  BY <1>2, <1>4, <1>5, <1>7, OfACall, StepOfEngine DEF InitializeInventory

LEMMA ReadInventoryKeeps ==
  ASSUME IInv, NEW t \in Task, ReadInventory(t),
         UNCHANGED <<sidecar, listened, baselineFile>>
  PROVE  Kept(t)
<1> DEFINE c == AfterInitialize(task[t])
           profiles == Loaded(Of(t).profiles, inventoryFile)
           e == [Of(t) EXCEPT !.initialized = TRUE, !.profiles = profiles]
<1>1. task[t] \in CallRecord
  BY ACall DEF ReadInventory, At, Idle
<1>2. /\ c \in CallRecord /\ c.phase \in {"upsert", "topology"}
      /\ c.kind = task[t].kind /\ c.ready = task[t].ready
  BY <1>1, AfterInitializeFits
<1>3. profiles \in SUBSET Observation
  BY LoadedFits, OfACall DEF Engine, IInv, TypeOK
<1>4. /\ task' = [task EXCEPT ![t] = c]
      /\ engine' = [engine EXCEPT ![Home[t]] = e]
  BY DEF ReadInventory, Of
<1> HIDE DEF c, profiles
<1>5. e \in Engine /\ e.ready = Of(t).ready /\ e.coordinator = Of(t).coordinator
  BY <1>3, OfACall DEF Engine
<1> HIDE DEF e
<1>6. task'[t] = c
  BY <1>2, <1>4, TaskStep
<1>7. CallSound(t)'
  BY <1>1, <1>2, <1>6 DEF CallSound, IInv, ReadInventory, At, Idle
<1>8. QED
  BY <1>2, <1>4, <1>5, <1>7, OfACall, StepOfEngine DEF ReadInventory

LEMMA IngestTopologyKeeps ==
  ASSUME IInv, NEW t \in Task, IngestTopology(t),
         UNCHANGED <<sidecar, listened, baselineFile>>
  PROVE  Kept(t)
<1> DEFINE c == [task[t] EXCEPT !.phase = "policy"]
           found == [resource : Topology, source : {"heuristic"}]
           e == [Of(t) EXCEPT !.profiles = Of(t).profiles \cup found]
<1>1. task[t] \in CallRecord
  BY ACall DEF IngestTopology, At, Idle
<1>2. c \in CallRecord
  BY <1>1 DEF CallRecord, EnginePhase
<1>3. found \subseteq Observation
  BY EngineAssumption DEF Observation, Source
<1>4. /\ task' = [task EXCEPT ![t] = c]
      /\ engine' = [engine EXCEPT ![Home[t]] = e]
  BY DEF IngestTopology, Goto, Of
<1> HIDE DEF found
<1>5. e \in Engine /\ e.ready = Of(t).ready /\ e.coordinator = Of(t).coordinator
  BY <1>3, OfACall DEF Engine
<1>6. task'[t] = c
  BY <1>2, <1>4, TaskStep
<1>7. CallSound(t)'
  BY <1>1, <1>6 DEF CallSound, CallRecord, IInv, IngestTopology, At, Idle
<1>8. QED
  BY <1>2, <1>4, <1>5, <1>7, OfACall, StepOfEngine DEF IngestTopology

\* A call after init.
LEMMA AfterInitFits ==
  ASSUME NEW c \in CallRecord
  PROVE  /\ AfterInit(c) = Idle \/ AfterInit(c) \in CallRecord
         /\ AfterInit(c).phase \in {"idle", "baseline", "scan", "decide"}
         /\ AfterInit(c) # Idle => /\ AfterInit(c).kind = c.kind
                                   /\ AfterInit(c).ready = c.ready
         /\ AfterInit(c).phase = "decide" => AfterInit(c).coordinator = Complete
<1>1. Complete \in Coordinator
  BY DEF Complete, Coordinator
<1>2. CASE c.kind = "start"
  BY <1>2 DEF AfterInit, CallRecord, LifecyclePhase
<1>3. CASE c.kind = "scan"
  BY <1>3 DEF AfterInit, CallRecord, EnginePhase
<1>4. CASE c.kind \in {"resolve", "surface"}
  BY <1>1, <1>4 DEF AfterInit, CallRecord, EnginePhase
<1>5. CASE c.kind \notin {"start", "scan", "resolve", "surface"}
  BY <1>5 DEF AfterInit, Idle
<1>6. QED
  BY <1>2, <1>3, <1>4, <1>5

LEMMA LoadPolicyKeeps ==
  ASSUME IInv, NEW t \in Task, LoadPolicy(t),
         UNCHANGED <<sidecar, listened, baselineFile>>
  PROVE  Kept(t)
<1> DEFINE c == AfterInit(task[t])
           e == [Of(t) EXCEPT !.policy = TRUE, !.ready = TRUE,
                              !.coordinator = Complete]
<1>1. task[t] \in CallRecord
  BY ACall DEF LoadPolicy, At, Idle
<1>2. task' = [task EXCEPT ![t] = c] /\ engine' = [engine EXCEPT ![Home[t]] = e]
  BY DEF LoadPolicy, Of
<1>3. e \in Engine /\ e.ready /\ e.coordinator = Complete
  BY OfACall DEF Engine
<1> HIDE DEF e
<1>4. engine'[Home[t]].ready
  BY <1>2, <1>3, HomeIsAProcess DEF IInv, TypeOK
<1>5. task'[t] = c
  BY <1>1, <1>2, AfterInitFits, TaskStep
<1>6. CallSound(t)'
  BY <1>1, <1>4, <1>5, AfterInitFits DEF CallSound, IInv, LoadPolicy, At, Idle
<1>7. QED
  BY <1>1, <1>2, <1>3, <1>6, AfterInitFits, StepOfEngine DEF LoadPolicy

\* A call that ends, for good or with an error.
LEMMA EndOfCall ==
  ASSUME IInv, NEW t \in Task,
         task' = [task EXCEPT ![t] = Idle],
         UNCHANGED <<engine, sidecar>>,
         listened' \in [Task -> MaybeServer],
         \A u \in Task \ {t} : listened'[u] = listened[u],
         inventoryFile' \in Content(Observation),
         baselineFile' \in Content(Resource),
         failures' \in 0 .. MaxFailures
  PROVE  Kept(t)
<1>1. task'[t] = Idle
  BY TaskStep
<1>2. CallSound(t)'
  BY <1>1 DEF CallSound, Idle
<1>3. QED
  BY <1>2, QuietStep

LEMMA FailInitKeeps ==
  ASSUME IInv, NEW t \in Task, FailInit(t) \/ FailPersist(t),
         UNCHANGED <<sidecar, listened, baselineFile>>
  PROVE  Kept(t)
<1>1. failures' \in 0 .. MaxFailures
  BY FailsKeeps DEF FailInit, FailPersist
<1>2. QED
  BY <1>1, EndOfCall DEF FailInit, FailPersist, IInv, TypeOK

LEMMA DecideKeeps ==
  ASSUME IInv, NEW t \in Task, Decide(t),
         UNCHANGED <<sidecar, listened, baselineFile>>
  PROVE  Kept(t)
  BY EndOfCall DEF Decide, IInv, TypeOK

LEMMA ScanKeeps ==
  ASSUME IInv, NEW t \in Task, NEW found \in SUBSET Resource, Scan(t, found),
         UNCHANGED <<sidecar, listened, baselineFile>>
  PROVE  Kept(t)
<1> DEFINE findings == [resource : found, source : {"surface-scan"}]
           c == [task[t] EXCEPT !.phase = "initialize", !.observed = findings]
<1>1. task[t] \in CallRecord
  BY ACall DEF Scan, At, Idle
<1>2. CASE task' = [task EXCEPT ![t] = Idle]
  BY <1>2, EndOfCall DEF Scan, IInv, TypeOK
<1>3. CASE task' = [task EXCEPT ![t] = c]
  <2>1. findings \in SUBSET Observation
    BY DEF Observation, Source
  <2> HIDE DEF findings
  <2>2. c \in CallRecord
    BY <1>1, <2>1 DEF CallRecord, EnginePhase
  <2>3. task'[t] = c
    BY <1>3, <2>2, TaskStep
  <2>4. CallSound(t)'
    BY <1>1, <2>3 DEF CallSound, CallRecord, IInv, Scan, At, Idle
  <2>5. QED
    BY <1>3, <2>2, <2>4, QuietStep DEF Scan, IInv, TypeOK
<1>4. QED
  BY <1>2, <1>3 DEF Scan

LEMMA UpsertKeeps ==
  ASSUME IInv, NEW t \in Task, Upsert(t),
         UNCHANGED <<sidecar, listened, baselineFile>>
  PROVE  Kept(t)
<1> DEFINE next == CASE task[t].kind = "scan"  -> [task[t] EXCEPT !.phase = "persist"]
                     [] task[t].kind = "event" -> [task[t] EXCEPT !.phase = "learn"]
                     [] OTHER                  -> Idle
           e == [Of(t) EXCEPT !.profiles = Of(t).profiles \cup task[t].observed]
<1>1. task[t] \in CallRecord
  BY ACall DEF Upsert, At, Idle
<1>2. /\ next = Idle \/ next \in CallRecord
      /\ next.phase \in {"idle", "persist", "learn"}
      /\ next # Idle => next.kind = task[t].kind /\ next.ready = task[t].ready
  <2>1. CASE task[t].kind = "scan"
    BY <1>1, <2>1 DEF CallRecord, EnginePhase
  <2>2. CASE task[t].kind = "event"
    BY <1>1, <2>2 DEF CallRecord, LifecyclePhase
  <2>3. CASE task[t].kind \notin {"scan", "event"}
    BY <2>3 DEF Idle
  <2>4. QED
    BY <2>1, <2>2, <2>3
<1>3. task[t].observed \subseteq Observation
  BY <1>1 DEF CallRecord
<1>4. e \in Engine /\ e.ready = Of(t).ready /\ e.coordinator = Of(t).coordinator
  BY <1>3, OfACall DEF Engine
<1>5. /\ task' = [task EXCEPT ![t] = next]
      /\ engine' = [engine EXCEPT ![Home[t]] = e]
  BY DEF Upsert, Of
<1> HIDE DEF next, e
<1>6. task'[t] = next
  BY <1>2, <1>5, TaskStep
<1>7. CallSound(t)'
  BY <1>1, <1>2, <1>6 DEF CallSound, IInv, Upsert, At, Idle
<1>8. QED
  BY <1>2, <1>4, <1>5, <1>7, OfACall, StepOfEngine DEF Upsert

LEMMA PersistInventoryKeeps ==
  ASSUME IInv, NEW t \in Task, PersistInventory(t),
         UNCHANGED <<sidecar, listened, baselineFile>>
  PROVE  Kept(t)
<1> DEFINE c == [task[t] EXCEPT !.phase = "open", !.saved = Of(t).profiles]
<1>1. task[t] \in CallRecord
  BY ACall DEF PersistInventory, At, Idle
<1>2. Of(t).profiles \subseteq Observation
  BY OfACall DEF Engine
<1>3. /\ c \in CallRecord /\ c.phase = "open" /\ c.saved = Of(t).profiles
      /\ c.kind = task[t].kind /\ c.ready = task[t].ready
  BY <1>1, <1>2 DEF CallRecord, EnginePhase
<1>4. task' = [task EXCEPT ![t] = c]
  BY DEF PersistInventory
<1> HIDE DEF c
<1>5. task'[t] = c
  BY <1>3, <1>4, TaskStep
<1>6. CallSound(t)'
  BY <1>1, <1>2, <1>3, <1>5 DEF CallSound, IInv, PersistInventory, At, Idle
<1>7. QED
  BY <1>3, <1>4, <1>6, QuietStep DEF PersistInventory, IInv, TypeOK

LEMMA OpenInventoryKeeps ==
  ASSUME IInv, NEW t \in Task, OpenInventory(t),
         UNCHANGED <<sidecar, listened, baselineFile>>
  PROVE  Kept(t)
<1> DEFINE c == [task[t] EXCEPT !.phase = "write"]
<1>1. task[t] \in CallRecord
  BY ACall DEF OpenInventory, At, Idle
<1>2. c \in CallRecord
  BY <1>1 DEF CallRecord, EnginePhase
<1>3. task' = [task EXCEPT ![t] = c]
  BY DEF OpenInventory, Goto
<1>4. task'[t] = c
  BY <1>2, <1>3, TaskStep
<1>5. CallSound(t)'
  BY <1>1, <1>4 DEF CallSound, CallRecord, IInv, OpenInventory, At, Idle
<1>6. inventoryFile' \in Content(Observation)
  BY ContentFits DEF OpenInventory, IInv, TypeOK
<1>7. QED
  BY <1>2, <1>3, <1>5, <1>6, QuietStep DEF OpenInventory, IInv, TypeOK

LEMMA WriteInventoryKeeps ==
  ASSUME IInv, NEW t \in Task, WriteInventory(t),
         UNCHANGED <<sidecar, listened, baselineFile>>
  PROVE  Kept(t)
<1> DEFINE c == AfterPersist(task[t])
<1>1. task[t] \in CallRecord
  BY ACall DEF WriteInventory, At, Idle
<1>2. /\ c = Idle \/ c \in CallRecord
      /\ c.phase \in {"idle", "baseline-persist"}
      /\ c # Idle => c.kind = task[t].kind /\ c.ready = task[t].ready
  <2>1. CASE task[t].kind \in {"stop", "interrupt"}
    BY <1>1, <2>1 DEF AfterPersist, CallRecord, LifecyclePhase
  <2>2. CASE task[t].kind \notin {"stop", "interrupt"}
    BY <2>2 DEF AfterPersist, Idle
  <2>3. QED
    BY <2>1, <2>2
<1>3. task' = [task EXCEPT ![t] = c]
  BY DEF WriteInventory
<1> HIDE DEF c
<1>4. task'[t] = c
  BY <1>2, <1>3, TaskStep
<1>5. CallSound(t)'
  BY <1>1, <1>2, <1>4 DEF CallSound, IInv, WriteInventory, At, Idle
<1>6. inventoryFile' \in Content(Observation)
  <2>1. task[t].saved \subseteq Observation
    BY DEF IInv, CallSound, WriteInventory, At
  <2>2. QED
    BY <2>1, ContentFits DEF WriteInventory, IInv, TypeOK
<1>7. QED
  BY <1>2, <1>3, <1>5, <1>6, QuietStep DEF WriteInventory, IInv, TypeOK

\* All calls on the engine.
LEMMA EngineCallKeeps ==
  ASSUME IInv, NEW t \in Task, EngineCall(t)
  PROVE  Kept(t)
<1>1. UNCHANGED <<sidecar, listened, baselineFile>>
  BY DEF EngineCall
<1>2. ASSUME EngineStep(t) PROVE Kept(t)
  BY <1>1, <1>2, LoadConfigKeeps, InitializeInventoryKeeps, ReadInventoryKeeps,
     IngestTopologyKeeps, LoadPolicyKeeps, FailInitKeeps, DecideKeeps, ScanKeeps,
     UpsertKeeps, PersistInventoryKeeps, OpenInventoryKeeps, WriteInventoryKeeps
  DEF EngineStep
<1>3. ASSUME NEW kind \in workload.does[t],
             \/ kind = "init" /\ BeginInit(t)
             \/ kind = "resolve" /\ BeginResolve(t, kind)
             \/ /\ kind = "observe"
                /\ \E resource \in Resource : BeginObserve(t, kind, resource)
             \/ kind = "scan" /\ BeginScan(t)
             \/ kind \in {"surface", "event"} /\ BeginHandler(t, kind)
      PROVE  Kept(t)
  <2>1. CASE kind = "init" /\ BeginInit(t)
    BY <1>1, <2>1, BeginInitKeeps
  <2>2. CASE kind = "resolve" /\ BeginResolve(t, kind)
    BY <1>1, <2>2, BeginResolveKeeps
  <2>3. CASE /\ kind = "observe"
             /\ \E resource \in Resource : BeginObserve(t, kind, resource)
    BY <1>1, <2>3, BeginObserveKeeps
  <2>4. CASE kind = "scan" /\ BeginScan(t)
    BY <1>1, <2>4, BeginScanKeeps
  <2>5. CASE kind \in {"surface", "event"} /\ BeginHandler(t, kind)
    BY <1>1, <2>5, BeginHandlerKeeps
  <2>6. QED
    BY <1>3, <2>1, <2>2, <2>3, <2>4, <2>5
<1>4. QED
  BY <1>1, <1>2, <1>3, FailInitKeeps DEF EngineCall
-----------------------------------------------------------------------------
\* Calls on the sidecar.
LEMMA BeginStartKeeps ==
  ASSUME IInv, NEW t \in Task, BeginStart(t)
  PROVE  Kept(t)
<1> DEFINE c == Call("start", "config", Of(t).ready)
<1>1. c \in CallRecord
  BY NewCall, OfACall DEF Kind, EnginePhase
<1>2. task' = [task EXCEPT ![t] = c]
  BY DEF BeginStart
<1>3. task'[t] = c
  BY <1>1, <1>2, TaskStep
<1>4. CallSound(t)'
  BY <1>3 DEF CallSound, Call, Idle
<1>5. QED
  BY <1>1, <1>2, <1>4, QuietStep DEF BeginStart, unchangedFiles, IInv, TypeOK

\* A server is created for a start that has initialised the engine.
LEMMA CreateServerKeeps ==
  ASSUME IInv, NEW t \in Task, NEW patterns \in SUBSET Resource,
         task[t].phase \in {"baseline", "baseline-reading"},
         CreateServer(t, patterns),
         UNCHANGED <<engine, failures, inventoryFile, baselineFile>>
  PROVE  Kept(t)
<1>1. PICK new \in Unused(Home[t]) :
        /\ sidecar' = [sidecar EXCEPT ![Home[t]].server = new,
                                      ![Home[t]].patterns = patterns]
        /\ listened' = [listened EXCEPT ![t] = new]
  BY DEF CreateServer
<1> DEFINE c == [task[t] EXCEPT !.phase = "listen"]
           s == [Its(t) EXCEPT !.server = new, !.patterns = patterns]
<1>2. new \in MaybeServer
  BY DEF Unused, MaybeServer
<1>3. task[t] \in CallRecord
  BY ACall DEF Idle
<1>4. c \in CallRecord
  BY <1>3 DEF CallRecord, LifecyclePhase
<1>5. s \in Sidecar /\ s.listening = Its(t).listening
  BY <1>2, OfACall DEF Sidecar
<1>6. /\ task' = [task EXCEPT ![t] = c]
      /\ sidecar' = [sidecar EXCEPT ![Home[t]] = s]
  BY <1>1 DEF CreateServer, Goto, Its
<1>7. task'[t] = c
  BY <1>4, <1>6, TaskStep
<1>8. /\ listened' \in [Task -> MaybeServer] /\ listened'[t] = new
      /\ \A u \in Task \ {t} : listened'[u] = listened[u]
      /\ baselineFile' \in Content(Resource)
  BY <1>1, <1>2 DEF IInv, TypeOK
<1>9. CallSound(t)'
  BY <1>3, <1>7, <1>8 DEF CallSound, CallRecord, IInv, Idle, Unused
<1>10. QED
  BY <1>4, <1>5, <1>6, <1>8, <1>9, StepOfSidecar

LEMMA InitializeBaselineKeeps ==
  ASSUME IInv, NEW t \in Task, InitializeBaseline(t)
  PROVE  Kept(t)
<1> DEFINE c == [task[t] EXCEPT !.phase = "baseline-reading"]
<1>1. task[t] \in CallRecord
  BY ACall DEF InitializeBaseline, At, Idle
<1>2. CASE baselineFile = Absent
  <2>1. Its(t).patterns \in SUBSET Resource
    BY OfACall DEF Sidecar
  <2>2. QED
    BY <1>2, <2>1, CreateServerKeeps DEF InitializeBaseline, At, unchangedFiles
<1>3. CASE baselineFile # Absent
  <2>1. c \in CallRecord
    BY <1>1 DEF CallRecord, LifecyclePhase
  <2>2. task' = [task EXCEPT ![t] = c]
    BY <1>3 DEF InitializeBaseline, Goto
  <2>3. task'[t] = c
    BY <2>1, <2>2, TaskStep
  <2>4. CallSound(t)'
    BY <1>1, <1>3, <2>3
    DEF CallSound, CallRecord, IInv, InitializeBaseline, At, Idle
  <2>5. QED
    BY <1>3, <2>1, <2>2, <2>4, QuietStep
    DEF InitializeBaseline, unchangedFiles, IInv, TypeOK
<1>4. QED
  BY <1>2, <1>3

LEMMA ReadBaselineKeeps ==
  ASSUME IInv, NEW t \in Task, ReadBaseline(t)
  PROVE  Kept(t)
<1>1. baselineFile.elements \in SUBSET Resource
  BY ContentFits DEF IInv, TypeOK
<1>2. QED
  BY <1>1, CreateServerKeeps DEF ReadBaseline, At, unchangedFiles

LEMMA ListeningKeeps ==
  ASSUME IInv, NEW t \in Task, Listening(t)
  PROVE  Kept(t)
<1> DEFINE now == Its(t).listening \cup {listened[t]}
           address == IF Its(t).server \in now
                      THEN Its(t).server ELSE Its(t).address
           s == [Its(t) EXCEPT !.listening = now, !.address = address]
<1>1. Of(t).ready
  BY DEF IInv, CallSound, Listening, At, Of
<1>2. task' = [task EXCEPT ![t] = Idle]
  BY DEF Listening, Returns
<1>3. s \in Sidecar
  <2>1. listened[t] \in Server
    BY DEF IInv, CallSound, Listening, At
  <2>2. now \in SUBSET Server /\ address \in MaybeServer
    BY <2>1, OfACall DEF Sidecar
  <2> HIDE DEF now, address
  <2>3. QED
    BY <2>2, OfACall DEF Sidecar
<1>4. sidecar' = [sidecar EXCEPT ![Home[t]] = s]
  BY DEF Listening, Its
<1> HIDE DEF s
<1>5. task'[t] = Idle
  BY <1>2, TaskStep
<1>6. CallSound(t)'
  BY <1>5 DEF CallSound, Idle
<1>7. /\ listened' \in [Task -> MaybeServer]
      /\ \A u \in Task \ {t} : listened'[u] = listened[u]
      /\ baselineFile' \in Content(Resource)
  BY DEF IInv, TypeOK, Listening, Returns, MaybeServer, unchangedFiles
<1>8. QED
  BY <1>1, <1>2, <1>3, <1>4, <1>6, <1>7, StepOfSidecar
  DEF Listening, unchangedFiles

\* A call that returns or throws.
LEMMA ReturnKeeps ==
  ASSUME IInv, NEW t \in Task, Returns(t), UNCHANGED <<engine, sidecar>>,
         unchangedFiles, failures' \in 0 .. MaxFailures
  PROVE  Kept(t)
<1>1. /\ listened' \in [Task -> MaybeServer]
      /\ \A u \in Task \ {t} : listened'[u] = listened[u]
  BY DEF IInv, TypeOK, Returns, MaybeServer
<1>2. QED
  BY <1>1, EndOfCall DEF Returns, unchangedFiles, IInv, TypeOK

LEMMA ListenFailsKeeps ==
  ASSUME IInv, NEW t \in Task, ListenFails(t)
  PROVE  Kept(t)
  BY ReturnKeeps DEF ListenFails, IInv, TypeOK

LEMMA BeginStopKeeps ==
  ASSUME IInv, NEW t \in Task, NEW kind \in {"stop", "interrupt"},
         BeginStop(t, kind)
  PROVE  Kept(t)
<1> DEFINE server == Its(t).server
           phase == IF server \in Its(t).listening THEN "closing" ELSE "refused"
           c == Call(kind, phase, Of(t).ready)
           closed == [Its(t) EXCEPT !.listening = Its(t).listening \ {server},
                                    !.closing = Its(t).closing \cup {server}]
<1>1. c \in CallRecord
  BY NewCall, OfACall DEF Kind, LifecyclePhase
<1>2. task' = [task EXCEPT ![t] = c]
  BY DEF BeginStop
<1>3. task'[t] = c
  BY <1>1, <1>2, TaskStep
<1>4. CallSound(t)'
  BY <1>3 DEF CallSound, Call, Idle
<1>5. server \in Server
  BY OfACall DEF BeginStop, Sidecar, MaybeServer
<1>6. /\ listened' \in [Task -> MaybeServer]
      /\ \A u \in Task \ {t} : listened'[u] = listened[u]
      /\ baselineFile' \in Content(Resource)
  BY <1>5 DEF BeginStop, IInv, TypeOK, MaybeServer, unchangedFiles
<1> HIDE DEF c
<1>7. CASE server \in Its(t).listening
  <2>1. closed \in Sidecar /\ closed.listening \subseteq Its(t).listening
    BY <1>5, OfACall DEF Sidecar
  <2>2. sidecar' = [sidecar EXCEPT ![Home[t]] = closed]
    BY <1>7 DEF BeginStop, Its
  <2> HIDE DEF closed
  <2>3. QED
    BY <1>1, <1>2, <1>4, <1>6, <2>1, <2>2, StepOfSidecar
    DEF BeginStop, unchangedFiles
<1>8. CASE server \notin Its(t).listening
  <2>1. sidecar' = sidecar
    BY <1>8 DEF BeginStop
  <2>2. QED
    BY <1>1, <1>2, <1>4, <1>6, <2>1, QuietStep
    DEF BeginStop, unchangedFiles, IInv, TypeOK
<1>9. QED
  BY <1>7, <1>8

LEMMA ClosedKeeps ==
  ASSUME IInv, NEW t \in Task, Closed(t)
  PROVE  Kept(t)
<1> DEFINE c == [task[t] EXCEPT !.phase = "persist"]
           s == [Its(t) EXCEPT !.closing = Its(t).closing \ {listened[t]}]
<1>1. task[t] \in CallRecord
  BY ACall DEF Closed, At, Idle
<1>2. c \in CallRecord
  BY <1>1 DEF CallRecord, EnginePhase
<1>3. s \in Sidecar /\ s.listening = Its(t).listening
  BY OfACall DEF Sidecar
<1>4. /\ task' = [task EXCEPT ![t] = c]
      /\ sidecar' = [sidecar EXCEPT ![Home[t]] = s]
  BY DEF Closed, Goto, Its
<1>5. task'[t] = c
  BY <1>2, <1>4, TaskStep
<1>6. CallSound(t)'
  BY <1>1, <1>5 DEF CallSound, CallRecord, IInv, Closed, At, Idle
<1>7. QED
  BY <1>2, <1>3, <1>4, <1>6, StepOfSidecar
  DEF Closed, unchangedFiles, IInv, TypeOK

\* A call that is about to write.
LEMMA SavingCall ==
  ASSUME NEW c \in CallRecord, NEW phase \in LifecyclePhase,
         NEW saved \in SUBSET Resource
  PROVE  [c EXCEPT !.phase = phase, !.saved = saved] \in CallRecord
<1>1. saved \in (SUBSET Observation) \cup (SUBSET Resource)
  OBVIOUS
<1>2. phase \in EnginePhase \cup LifecyclePhase
  OBVIOUS
<1>3. QED
  BY <1>1, <1>2 DEF CallRecord

LEMMA PersistBaselineKeeps ==
  ASSUME IInv, NEW t \in Task, PersistBaseline(t)
  PROVE  Kept(t)
<1> DEFINE patterns == Its(t).patterns
           c == [task[t] EXCEPT !.phase = "baseline-open", !.saved = patterns]
<1>1. task[t] \in CallRecord
  BY ACall DEF PersistBaseline, At, Idle
<1>2. patterns \in SUBSET Resource
  BY OfACall DEF Sidecar
<1>3. task' = [task EXCEPT ![t] = c]
  BY DEF PersistBaseline
<1> HIDE DEF patterns
<1>4. c \in CallRecord
  BY <1>1, <1>2, SavingCall DEF LifecyclePhase
<1>5. /\ c.phase = "baseline-open" /\ c.saved = patterns
      /\ c.kind = task[t].kind /\ c.ready = task[t].ready
  BY <1>1 DEF CallRecord
<1> HIDE DEF c
<1>6. task'[t] = c
  BY <1>3, <1>4, TaskStep
<1>7. CallSound(t)'
  <2>1. task'[t].phase = "baseline-open" /\ task'[t].saved \subseteq Resource
    BY <1>2, <1>5, <1>6
  <2>2. task[t].kind = "surface" => task[t].ready
    BY DEF CallSound, IInv, PersistBaseline, At, Idle
  <2>3. task'[t].kind = "surface" => task'[t].ready
    BY <1>5, <1>6, <2>2
  <2>4. QED
    BY <2>1, <2>3 DEF CallSound
<1>8. QED
  BY <1>3, <1>4, <1>7, QuietStep DEF PersistBaseline, unchangedFiles, IInv, TypeOK

LEMMA OpenBaselineKeeps ==
  ASSUME IInv, NEW t \in Task, OpenBaseline(t)
  PROVE  Kept(t)
<1> DEFINE c == [task[t] EXCEPT !.phase = "baseline-write"]
<1>1. task[t] \in CallRecord
  BY ACall DEF OpenBaseline, At, Idle
<1>2. c \in CallRecord
  BY <1>1 DEF CallRecord, LifecyclePhase
<1>3. task' = [task EXCEPT ![t] = c]
  BY DEF OpenBaseline, Goto
<1>4. task'[t] = c
  BY <1>2, <1>3, TaskStep
<1>5. CallSound(t)'
  BY <1>1, <1>4 DEF CallSound, CallRecord, IInv, OpenBaseline, At, Idle
<1>6. baselineFile' \in Content(Resource)
  BY ContentFits DEF OpenBaseline, IInv, TypeOK
<1>7. QED
  BY <1>2, <1>3, <1>5, <1>6, QuietStep DEF OpenBaseline, IInv, TypeOK

LEMMA WriteBaselineKeeps ==
  ASSUME IInv, NEW t \in Task, WriteBaseline(t)
  PROVE  Kept(t)
<1> DEFINE c == IF task[t].kind = "interrupt"
                THEN [task[t] EXCEPT !.phase = "flush"] ELSE Idle
           s == [Its(t) EXCEPT !.server = NoServer, !.address = NoServer]
<1>1. task[t] \in CallRecord
  BY ACall DEF WriteBaseline, At, Idle
<1>2. /\ c = Idle \/ c \in CallRecord
      /\ c.phase \in {"idle", "flush"}
      /\ c # Idle => c.kind = task[t].kind /\ c.ready = task[t].ready
  <2>1. CASE task[t].kind = "interrupt"
    BY <1>1, <2>1 DEF CallRecord, LifecyclePhase
  <2>2. CASE task[t].kind # "interrupt"
    BY <2>2 DEF Idle
  <2>3. QED
    BY <2>1, <2>2
<1>3. s \in Sidecar /\ s.listening = Its(t).listening
  BY OfACall DEF Sidecar, MaybeServer
<1>4. sidecar' = [sidecar EXCEPT ![Home[t]] = s]
  BY DEF WriteBaseline, Its
<1>5. task' = [task EXCEPT ![t] = c]
  BY DEF WriteBaseline, Goto, Returns
<1> HIDE DEF c, s
<1>6. task'[t] = c
  BY <1>2, <1>5, TaskStep
<1>7. CallSound(t)'
  BY <1>1, <1>2, <1>6 DEF CallSound, IInv, WriteBaseline, At, Idle
<1>8. baselineFile' \in Content(Resource)
  <2>1. task[t].saved \subseteq Resource
    BY DEF IInv, CallSound, WriteBaseline, At
  <2>2. QED
    BY <2>1, ContentFits DEF WriteBaseline, IInv, TypeOK
<1>9. /\ listened' \in [Task -> MaybeServer]
      /\ \A u \in Task \ {t} : listened'[u] = listened[u]
  BY DEF WriteBaseline, Returns, IInv, TypeOK, MaybeServer
<1>10. QED
  BY <1>2, <1>3, <1>4, <1>5, <1>7, <1>8, <1>9, StepOfSidecar DEF WriteBaseline

LEMMA LearnKeeps ==
  ASSUME IInv, NEW t \in Task, Learn(t)
  PROVE  Kept(t)
<1> DEFINE learned == {o.resource : o \in task[t].observed}
           s == [Its(t) EXCEPT !.patterns = Its(t).patterns \cup learned]
<1>1. task[t] \in CallRecord
  BY ACall DEF Learn, At, Idle
<1>2. learned \subseteq Resource
  BY <1>1 DEF CallRecord, Observation
<1>3. sidecar' = [sidecar EXCEPT ![Home[t]] = s]
  BY DEF Learn, Its
<1> HIDE DEF learned
<1>4. s \in Sidecar /\ s.listening = Its(t).listening
  BY <1>2, OfACall DEF Sidecar
<1>5. task' = [task EXCEPT ![t] = Idle]
  BY DEF Learn
<1> HIDE DEF s
<1>6. task'[t] = Idle
  BY <1>5, TaskStep
<1>7. CallSound(t)'
  BY <1>6 DEF CallSound, Idle
<1>8. QED
  BY <1>3, <1>4, <1>5, <1>7, StepOfSidecar DEF Learn, unchangedFiles, IInv, TypeOK

\* All calls on the sidecar either keep or end their process.
LEMMA SidecarCallKeeps ==
  ASSUME IInv, NEW t \in Task, SidecarCall(t) \/ SidecarStep(t)
  PROVE  Kept(t) \/ (Ends(Home[t]) /\ failures' \in 0 .. MaxFailures)
<1>1. CASE SidecarCall(t)
  <2>1. \A kind \in workload.does[t] \cap {"stop", "interrupt"} :
          BeginStop(t, kind) => Kept(t)
    BY BeginStopKeeps
  <2>2. QED
    BY <1>1, <2>1, BeginStartKeeps DEF SidecarCall
<1>2. ASSUME Refused(t)
      PROVE  Kept(t) \/ (Ends(Home[t]) /\ failures' \in 0 .. MaxFailures)
  BY <1>2, ReturnKeeps DEF Refused, IInv, TypeOK
<1>3. ASSUME FailStop(t)
      PROVE  Kept(t) \/ (Ends(Home[t]) /\ failures' \in 0 .. MaxFailures)
  BY <1>3, ReturnKeeps, FailsKeeps DEF FailStop
<1>4. ASSUME ListeningWithoutServer(t) \/ Flush(t)
      PROVE  Ends(Home[t]) /\ failures' \in 0 .. MaxFailures
  BY <1>4 DEF ListeningWithoutServer, Flush, IInv, TypeOK
<1>5. CASE SidecarStep(t)
  BY <1>2, <1>3, <1>4, <1>5, InitializeBaselineKeeps, ReadBaselineKeeps,
     ListeningKeeps, ListenFailsKeeps, ClosedKeeps, PersistBaselineKeeps,
     OpenBaselineKeeps, WriteBaselineKeeps, LearnKeeps
  DEF SidecarStep
<1>6. QED
  BY <1>1, <1>5
-----------------------------------------------------------------------------

\* The end of a process.
LEMMA EndKeeps ==
  ASSUME IInv, NEW p \in Process, Ends(p), failures' \in 0 .. MaxFailures
  PROVE  /\ StateOK'
         /\ \A t \in Task : CallSound(t)'
         /\ \A q \in Process : EngineSound(q)' /\ ListensWhenReady(q)'
<1>1. NewEngine \in Engine /\ ~ NewEngine.ready
  BY DEF NewEngine, Engine
<1>2. NewSidecar \in Sidecar /\ NewSidecar.listening = {}
  BY DEF NewSidecar, Sidecar, MaybeServer
<1>3. /\ engine' \in [Process -> Engine]
      /\ engine'[p] = NewEngine
      /\ \A q \in Process \ {p} : engine'[q] = engine[q]
  BY <1>1 DEF Ends, IInv, TypeOK
<1>4. /\ sidecar' \in [Process -> Sidecar]
      /\ sidecar'[p] = NewSidecar
      /\ \A q \in Process \ {p} : sidecar'[q] = sidecar[q]
  BY <1>2 DEF Ends, IInv, TypeOK
<1>5. /\ DOMAIN task' = Task
      /\ \A t \in Task : /\ Home[t] = p => task'[t] = Idle
                         /\ Home[t] # p => task'[t] = task[t]
  BY DEF Ends
<1>6. /\ listened' \in [Task -> MaybeServer]
      /\ \A t \in Task : Home[t] # p => listened'[t] = listened[t]
  BY DEF Ends, IInv, TypeOK, MaybeServer
<1>7. StateOK'
  BY <1>3, <1>4, <1>5, <1>6 DEF StateOK, Ends, unchangedFiles, IInv, TypeOK
<1>8. ASSUME NEW t \in Task PROVE CallSound(t)'
  <2>1. CASE Home[t] = p
    BY <1>5, <2>1 DEF CallSound, Idle
  <2>2. CASE Home[t] # p
    BY <1>3, <1>5, <1>6, <2>2, HomeIsAProcess DEF CallSound, IInv
  <2>3. QED
    BY <2>1, <2>2
<1>9. ASSUME NEW q \in Process PROVE EngineSound(q)' /\ ListensWhenReady(q)'
  BY <1>1, <1>2, <1>3, <1>4 DEF EngineSound, ListensWhenReady, IInv
<1>10. QED
  BY <1>7, <1>8, <1>9

\* The step of a call that keeps its process.
LEMMA KeptSuffices ==
  ASSUME IInv, NEW t \in Task, Kept(t)
  PROVE  /\ StateOK'
         /\ \A u \in Task : CallSound(u)'
         /\ \A p \in Process : EngineSound(p)' /\ ListensWhenReady(p)'
<1>1. Home[t] \in Process
  BY HomeIsAProcess
<1>2. ASSUME NEW u \in Task PROVE CallSound(u)'
  <2>1. CASE u = t
    BY <2>1 DEF Kept
  <2>2. CASE u # t
    <3>1. Home[u] \in Process
      BY HomeIsAProcess
    <3>2. engine[Home[u]].ready => engine'[Home[u]].ready
      BY <3>1 DEF Kept, Confined
    <3>3. QED
      BY <2>2, <3>2 DEF CallSound, IInv, Kept, Confined
  <2>3. QED
    BY <2>1, <2>2
<1>3. ASSUME NEW p \in Process PROVE EngineSound(p)' /\ ListensWhenReady(p)'
  <2>1. CASE p = Home[t]
    BY <2>1 DEF Kept
  <2>2. CASE p # Home[t]
    BY <2>2 DEF Kept, Confined, EngineSound, ListensWhenReady, IInv
  <2>3. QED
    BY <2>1, <2>2
<1>4. QED
  BY <1>2, <1>3 DEF Kept

\* The history keeps its types.
LEMMA HistoryFits ==
  ASSUME IInv, NEW t \in Task, StateOK',
         ForgetAll(Home[t]) \/ History(t, Home[t])
  PROVE  /\ disturbed' \in [Process -> BOOLEAN]
         /\ seen' \in [Process -> [File -> SUBSET (Observation \cup Resource)]]
         /\ owed' \in [Process -> [File -> SUBSET (Observation \cup Resource)]]
<1>1. Home[t] \in Process
  BY HomeIsAProcess
<1>2. CASE ForgetAll(Home[t])
  BY <1>1, <1>2 DEF ForgetAll, Nothing, IInv, TypeOK
<1>3. CASE History(t, Home[t])
  <2>1. disturbed' \in [Process -> BOOLEAN]
    BY <1>1, <1>3 DEF History, IInv, TypeOK
  <2>2. seen' \in [Process -> [File -> SUBSET (Observation \cup Resource)]]
    <3> DEFINE now == [f \in File |-> SeenAfter(t, Home[t], f)]
    <3>1. ASSUME NEW f \in File
          PROVE  SeenAfter(t, Home[t], f) \in SUBSET (Observation \cup Resource)
      <4>1. seen[Home[t]][f] \subseteq Observation \cup Resource
        BY <1>1 DEF IInv, TypeOK
      <4>2. file(f).elements \subseteq Observation \cup Resource
        BY ContentFits DEF File, file, IInv, TypeOK
      <4>3. Known(Home[t])[f] \subseteq Observation \cup Resource
        BY OfACall DEF File, Known, Of, Its, Engine, Sidecar
      <4>4. QED
        BY <4>1, <4>2, <4>3 DEF SeenAfter, SeenWith
    <3>2. now \in [File -> SUBSET (Observation \cup Resource)]
      BY <3>1
    <3>3. seen' = [seen EXCEPT ![Home[t]] = now]
      BY <1>3 DEF History
    <3> HIDE DEF now
    <3>4. QED
      BY <1>1, <3>2, <3>3 DEF IInv, TypeOK
  <2>3. owed' \in [Process -> [File -> SUBSET (Observation \cup Resource)]]
    <3>1. /\ engine[Home[t]].profiles \subseteq Observation
          /\ sidecar[Home[t]].patterns \subseteq Resource
      BY OfACall DEF Of, Its, Engine, Sidecar
    <3> DEFINE now(o) ==
                 IF o = Home[t] /\ Stopped(Home[t]) THEN Nothing
                 ELSE IF o = Home[t] /\ At(t, "closing") /\ ~ At(t, "closing")'
                 THEN Known(Home[t])
                 ELSE [f \in File |-> IF Overtakes(t, f, o) THEN {} ELSE owed[o][f]]
    <3>2. Known(Home[t]) \in [File -> SUBSET (Observation \cup Resource)]
      BY <3>1 DEF File, Known
    <3>3. Nothing \in [File -> SUBSET (Observation \cup Resource)]
      BY DEF Nothing
    <3>4. owed' = [o \in Process |-> now(o)]
      BY <1>3 DEF History
    <3>5. ASSUME NEW o \in Process
          PROVE  now(o) \in [File -> SUBSET (Observation \cup Resource)]
      BY <3>2, <3>3 DEF IInv, TypeOK
    <3> HIDE DEF now
    <3>6. QED
      BY <3>4, <3>5
  <2>4. QED
    BY <2>1, <2>2, <2>3
<1>4. QED
  BY <1>2, <1>3
-----------------------------------------------------------------------------
LEMMA InitSound == Init => IInv
<1> SUFFICES ASSUME Init PROVE IInv
  OBVIOUS
<1>1. NewEngine \in Engine /\ ~ NewEngine.ready
  BY DEF NewEngine, Engine
<1>2. NewSidecar \in Sidecar /\ NewSidecar.listening = {}
  BY DEF NewSidecar, Sidecar, MaybeServer
<1>3. Absent \in Content(Observation) /\ Absent \in Content(Resource)
  BY DEF Content
<1>4. TypeOK
  BY <1>1, <1>2, <1>3, EngineAssumption DEF Init, TypeOK, MaybeServer
<1>5. ASSUME NEW t \in Task PROVE CallSound(t)
  BY DEF Init, CallSound, Idle
<1>6. ASSUME NEW p \in Process PROVE EngineSound(p) /\ ListensWhenReady(p)
  BY <1>1, <1>2 DEF Init, EngineSound, ListensWhenReady
<1>7. QED
  BY <1>4, <1>5, <1>6 DEF IInv

LEMMA StepSound == IInv /\ [Next]_vars => IInv'
<1> SUFFICES ASSUME IInv, [Next]_vars PROVE IInv'
  OBVIOUS
<1>1. CASE UNCHANGED vars
  BY <1>1 DEF IInv, TypeOK, CallSound, EngineSound, ListensWhenReady, vars,
              engineVars
<1>2. ASSUME NEW t \in Task, CallStep(t), UNCHANGED workload,
             ForgetAll(Home[t]) \/ History(t, Home[t])
      PROVE  IInv'
  <2>1. Kept(t) \/ (Ends(Home[t]) /\ failures' \in 0 .. MaxFailures)
    BY <1>2, EngineCallKeeps, SidecarCallKeeps DEF CallStep
  <2>2. /\ StateOK'
        /\ \A u \in Task : CallSound(u)'
        /\ \A p \in Process : EngineSound(p)' /\ ListensWhenReady(p)'
    BY <2>1, KeptSuffices, EndKeeps, HomeIsAProcess
  <2>3. TypeOK'
    BY <1>2, <2>2, HistoryFits DEF StateOK, TypeOK, IInv
  <2>4. QED
    BY <2>2, <2>3 DEF IInv
<1>3. ASSUME NEW p \in Process, Dies(p), ForgetAll(p), UNCHANGED workload
      PROVE  IInv'
  <2>1. /\ StateOK'
        /\ \A u \in Task : CallSound(u)'
        /\ \A q \in Process : EngineSound(q)' /\ ListensWhenReady(q)'
    BY <1>3, EndKeeps DEF Dies, IInv, TypeOK
  <2>2. /\ disturbed' \in [Process -> BOOLEAN]
        /\ seen' \in [Process -> [File -> SUBSET (Observation \cup Resource)]]
        /\ owed' \in [Process -> [File -> SUBSET (Observation \cup Resource)]]
    BY <1>3 DEF ForgetAll, Nothing, IInv, TypeOK
  <2>3. TypeOK'
    BY <1>3, <2>1, <2>2 DEF StateOK, TypeOK, IInv
  <2>4. QED
    BY <2>1, <2>3 DEF IInv
<1>4. QED
  BY <1>1, <1>2, <1>3 DEF Next

\* The inductive invariant: types, what calls have to write, that a server
\* listens for a ready engine only, and that a ready engine has a coordinator
\* that was given its policy and its inventory.
THEOREM LifecycleInvariance == Spec => []IInv
  BY InitSound, StepSound, PTL DEF Spec

\* Type correctness, for any number of processes, calls and servers.
THEOREM LifecycleTypeCorrect == Spec => []TypeOK
<1>1. IInv => TypeOK
  BY DEF IInv
<1>2. QED
  BY <1>1, LifecycleInvariance, PTL

\* Whatever calls run, overlap, fail or die, in however many processes: what
\* comes in after an init has completed, and all that comes in through the
\* sidecar, is decided with the project's policy and the inventory.
THEOREM GovernedAlways == Spec => []GovernedOnceReady
<1>1. IInv => GovernedOnceReady
  BY DEF IInv, CallSound, GovernedOnceReady, At, Idle
<1>2. QED
  BY <1>1, LifecycleInvariance, PTL
-----------------------------------------------------------------------------
(***************************************************************************)
(* Starts, stops and what is learned.                                       *)
(***************************************************************************)

\* the phases of a stop, those of a start after init, and those of calls that
\* go on with an inventory that has been loaded
StopPhase ==
  {"closing", "refused", "persist", "open", "write", "baseline-persist",
   "baseline-open", "baseline-write", "flush"}

StartPhase == {"baseline", "baseline-reading", "listen"}

LoadedPhase ==
  StopPhase \cup StartPhase \cup {"topology", "policy", "upsert", "learn"}

StopKind == {"stop", "interrupt"}

\* a call is where calls of its kind may be
PhaseFits(t) ==
  /\ task[t].phase \in LoadedPhase => engine[Home[t]].initialized
  /\ task[t].phase \in StartPhase => task[t].kind = "start"
  /\ task[t] # Idle /\ task[t].kind \in StopKind => task[t].phase \in StopPhase
  /\ task[t].phase \in StopPhase =>
       \/ task[t].kind \in StopKind
       \/ task[t].kind = "scan" /\ task[t].phase \in {"persist", "open", "write"}

\* nothing is known, and no server created, before the inventory is loaded
LoadedFirst(p) ==
  ~ engine[p].initialized => /\ engine[p].profiles = {}
                             /\ sidecar[p].server = NoServer

Lone(p) == \A t, u \in LifecycleCalls(p) : t = u

\* the server that listens is the one that the address leads to and that the
\* next stop will close; none listens while a start or a stop is under way
Answers(p) ==
  /\ LifecycleCalls(p) = {} =>
       /\ sidecar[p].listening = {sidecar[p].address} \ {NoServer}
       /\ sidecar[p].address # NoServer => sidecar[p].server = sidecar[p].address
  /\ \A t \in LifecycleCalls(p) :
       /\ sidecar[p].listening = {}
       /\ task[t].kind = "start" \/ task[t].phase = "refused" =>
            sidecar[p].address = NoServer
       /\ task[t].phase = "listen" => sidecar[p].server = listened[t]
       /\ task[t].kind \in StopKind /\ task[t].phase # "flush" =>
            sidecar[p].server # NoServer

\* what a stop owes the files is known, then saved, then written
Owes(p) ==
  /\ \/ owed[p] = Nothing
     \/ \E t \in LifecycleCalls(p) : /\ task[t].kind \in StopKind
                                     /\ task[t].phase \notin
                                          {"closing", "refused", "flush"}
  /\ \A f \in File :
       /\ owed[p][f] \subseteq Known(p)[f]
       /\ \A t \in LifecycleCalls(p) :
            /\ task[t].phase \in {OpenPhase[f], WritePhase[f]} =>
                 owed[p][f] \subseteq task[t].saved
            /\ task[t].phase = WritePhase[f] =>
                 owed[p][f] = {} \/ file(f) = Truncated
            /\ task[t].phase \in OpenedPhase[f] \ {WritePhase[f]} =>
                 owed[p][f] \subseteq file(f).elements

Orderly(p) == Lone(p) /\ Answers(p) /\ Owes(p)

JInv ==
  /\ IInv
  /\ \A t \in Task : PhaseFits(t)
  /\ \A p \in Process : LoadedFirst(p) /\ (~ disturbed[p] => Orderly(p))

\* what is to be shown of the process of a call, and of the others
OrderKept(p) ==
  /\ \A t \in TasksOf(p) : PhaseFits(t)'
  /\ LoadedFirst(p)'
  /\ ~ disturbed'[p] => Answers(p)' /\ Owes(p)'
-----------------------------------------------------------------------------
\* What a step of t notes of its own process, and of others.
LEMMA HistoryOf ==
  ASSUME IInv, NEW t \in Task, NEW p, p = Home[t], History(t, p)
  PROVE  /\ disturbed'[p] = (disturbed[p] \/ Disturbs(t, p))
         /\ owed'[p] =
              IF Stopped(p) THEN Nothing
              ELSE IF At(t, "closing") /\ ~ At(t, "closing")' THEN Known(p)
              ELSE [f \in File |-> IF Overtakes(t, f, p) THEN {} ELSE owed[p][f]]
         /\ \A q \in Process \ {p} :
              /\ disturbed'[q] = disturbed[q]
              /\ owed'[q] =
                   [f \in File |-> IF Overtakes(t, f, q) THEN {} ELSE owed[q][f]]
<1>1. p \in Process
  BY HomeIsAProcess
<1>2. /\ disturbed'[p] = (disturbed[p] \/ Disturbs(t, p))
      /\ \A q \in Process \ {p} : disturbed'[q] = disturbed[q]
  <2> DEFINE now == disturbed[p] \/ Disturbs(t, p)
  <2>1. disturbed' = [disturbed EXCEPT ![p] = now]
    BY DEF History
  <2> HIDE DEF now
  <2>2. disturbed'[p] = now /\ \A q \in Process \ {p} : disturbed'[q] = disturbed[q]
    BY <1>1, <2>1 DEF IInv, TypeOK
  <2>3. QED
    BY <2>2 DEF now
<1>3. owed'[p] =
        IF Stopped(p) THEN Nothing
        ELSE IF At(t, "closing") /\ ~ At(t, "closing")' THEN Known(p)
        ELSE [f \in File |-> IF Overtakes(t, f, p) THEN {} ELSE owed[p][f]]
  BY <1>1 DEF History
<1>4. ASSUME NEW q \in Process \ {p}
      PROVE  owed'[q] =
               [f \in File |-> IF Overtakes(t, f, q) THEN {} ELSE owed[q][f]]
  BY <1>4 DEF History
<1>5. QED
  BY <1>2, <1>3, <1>4

\* What a step leaves alone is in order.
LEMMA OthersKeep ==
  ASSUME JInv, NEW q \in Process,
         engine'[q] = engine[q], sidecar'[q] = sidecar[q],
         \A u \in TasksOf(q) : task'[u] = task[u] /\ listened'[u] = listened[u],
         disturbed'[q] = disturbed[q],
         \A f \in File : owed'[q][f] = owed[q][f] \/ owed'[q][f] = {},
         owed[q] = Nothing => owed'[q] = Nothing,
         \A f \in File :
           \/ file(f)' = file(f)
           \/ \A u \in LifecycleCalls(q) :
                task[u].phase \in OpenedPhase[f] => owed'[q][f] = {}
  PROVE  /\ \A u \in TasksOf(q) : PhaseFits(u)'
         /\ LoadedFirst(q)'
         /\ ~ disturbed'[q] => Orderly(q)'
<1>1. /\ engine'[q] = engine[q] /\ sidecar'[q] = sidecar[q]
      /\ Known(q)' = Known(q)
  BY DEF Known
<1>2. \A u \in TasksOf(q) : /\ task'[u] = task[u] /\ listened'[u] = listened[u]
                            /\ Home[u] = q /\ u \in Task
  BY DEF TasksOf
<1>3. LifecycleCalls(q)' = LifecycleCalls(q)
  BY <1>2 DEF LifecycleCalls, IsLifecycleCall, TasksOf
<1>4. \A u \in LifecycleCalls(q) : u \in TasksOf(q)
  BY DEF LifecycleCalls
<1>5. \A u \in TasksOf(q) : PhaseFits(u)'
  BY <1>1, <1>2 DEF PhaseFits, JInv
<1>6. LoadedFirst(q)'
  BY <1>1 DEF LoadedFirst, JInv
<1>7. ASSUME ~ disturbed'[q] PROVE Orderly(q)'
  <2>1. Lone(q) /\ Answers(q) /\ Owes(q)
    BY <1>7 DEF JInv, Orderly
  <2>2. Lone(q)'
    BY <1>3, <2>1 DEF Lone
  <2>3. Answers(q)'
    BY <1>1, <1>2, <1>3, <1>4, <2>1 DEF Answers
  <2>4. Owes(q)'
    <3>1. \/ owed'[q] = Nothing
          \/ \E u \in LifecycleCalls(q)' :
               /\ task'[u].kind \in StopKind
               /\ task'[u].phase \notin {"closing", "refused", "flush"}
      BY <1>2, <1>3, <1>4, <2>1 DEF Owes
    <3>2. ASSUME NEW f \in File PROVE owed'[q][f] \subseteq Known(q)[f]
      BY <2>1 DEF Owes
    <3>3. ASSUME NEW f \in File, NEW u \in LifecycleCalls(q)
          PROVE  /\ task[u].phase \in {OpenPhase[f], WritePhase[f]} =>
                      owed'[q][f] \subseteq task[u].saved
                 /\ task[u].phase = WritePhase[f] =>
                      owed'[q][f] = {} \/ file(f)' = Truncated
                 /\ task[u].phase \in OpenedPhase[f] \ {WritePhase[f]} =>
                      owed'[q][f] \subseteq file(f)'.elements
      <4>1. WritePhase[f] \in OpenedPhase[f]
        BY DEF File, WritePhase, OpenedPhase
      <4>2. QED
        BY <2>1, <4>1 DEF Owes
    <3>4. QED
      BY <1>1, <1>2, <1>3, <1>4, <3>1, <3>2, <3>3 DEF Owes
  <2>5. QED
    BY <2>2, <2>3, <2>4 DEF Orderly
<1>8. QED
  BY <1>5, <1>6, <1>7

\* A process that has ended is in order.
LEMMA EndedKeeps ==
  ASSUME NEW p \in Process, Ended(p),
         disturbed'[p] = FALSE, owed'[p] = Nothing
  PROVE  /\ \A u \in TasksOf(p) : PhaseFits(u)'
         /\ LoadedFirst(p)'
         /\ Orderly(p)'
<1>1. \A u \in TasksOf(p) : task'[u] = Idle /\ Home[u] = p
  BY DEF Ended, TasksOf
<1>2. engine'[p] = NewEngine /\ sidecar'[p] = NewSidecar
  BY DEF Ended
<1>3. LifecycleCalls(p)' = {}
  BY <1>1 DEF LifecycleCalls, IsLifecycleCall, TasksOf
<1>4. \A u \in TasksOf(p) : PhaseFits(u)'
  BY <1>1 DEF PhaseFits, Idle, LoadedPhase, StartPhase, StopPhase
<1>5. LoadedFirst(p)'
  BY <1>2 DEF LoadedFirst, NewEngine, NewSidecar
<1>6. Lone(p)' /\ Answers(p)'
  BY <1>2, <1>3 DEF Lone, Answers, NewSidecar
<1>7. Owes(p)'
  BY <1>3 DEF Owes, Nothing
<1>8. QED
  BY <1>4, <1>5, <1>6, <1>7 DEF Orderly

\* Of a step after which a process is undisturbed.
LEMMA Undisturbed ==
  ASSUME JInv, NEW t \in Task, NEW p, p = Home[t], History(t, p),
         ~ disturbed'[p]
  PROVE  /\ Orderly(p)
         /\ Lone(p)'
         /\ ~ (Reads(t, "inventory") /\ engine[p].initialized)
         /\ failures' # failures => ~ IsLifecycleCall(t)
<1>1. p \in Process /\ IInv
  BY HomeIsAProcess DEF JInv
<1>2. ~ disturbed[p] /\ ~ Disturbs(t, p)
  BY <1>1, HistoryOf
<1>3. QED
  BY <1>1, <1>2 DEF Disturbs, Lone, JInv

\* The calls of a process when one of them goes on.
LEMMA CallsOf ==
  ASSUME IInv, NEW t \in Task, NEW p, p = Home[t], NEW c,
         c = Idle \/ c \in CallRecord, task' = [task EXCEPT ![t] = c],
         Confined(t)
  PROVE  /\ p \in Process
         /\ t \in TasksOf(p) /\ task'[t] = c
         /\ \A u \in TasksOf(p) \ {t} :
              task'[u] = task[u] /\ listened'[u] = listened[u]
         /\ \A u \in LifecycleCalls(p) : u \in TasksOf(p) /\ IsLifecycleCall(u)
         /\ \A u \in LifecycleCalls(p)' \ {t} : u \in LifecycleCalls(p)
         /\ \A u \in LifecycleCalls(p) \ {t} : u \in LifecycleCalls(p)'
         /\ t \in LifecycleCalls(p)' <=>
              c # Idle /\ c.kind \in {"start"} \cup StopKind
         /\ t \in LifecycleCalls(p) <=> IsLifecycleCall(t)
<1>1. p \in Process /\ t \in TasksOf(p)
  BY HomeIsAProcess DEF TasksOf
<1>2. task'[t] = c
  BY TaskStep
<1>3. \A u \in TasksOf(p) \ {t} :
        task'[u] = task[u] /\ listened'[u] = listened[u] /\ u \in Task
  BY DEF TasksOf, Confined
<1>4. QED
  BY <1>1, <1>2, <1>3 DEF LifecycleCalls, IsLifecycleCall, TasksOf, StopKind

\* A step that touches neither a file nor a server, of a call that is no stop
\* on its way.
LEMMA CalmStep ==
  ASSUME JInv, NEW t \in Task, NEW p, p = Home[t], NEW c,
         c = Idle \/ c \in CallRecord, task' = [task EXCEPT ![t] = c],
         Confined(t), History(t, p),
         sidecar'[p].server = sidecar[p].server,
         sidecar'[p].address = sidecar[p].address,
         sidecar'[p].listening = sidecar[p].listening,
         sidecar[p].patterns \subseteq sidecar'[p].patterns,
         UNCHANGED <<inventoryFile, baselineFile>>,
         engine[p].profiles \subseteq engine'[p].profiles,
         engine[p].initialized => engine'[p].initialized,
         engine'[p].initialized \/ engine'[p].profiles = {},
         \A f \in File : ~ Writes(t, f),
         task[t] # Idle /\ task[t].kind \in StopKind =>
           task[t].phase = "refused" /\ c = Idle,
         c.phase \in LoadedPhase => engine'[p].initialized,
         c.phase \in StartPhase => c.kind = "start" /\ c.phase # "listen",
         c.phase \in StopPhase => c.phase = "persist" /\ c.kind = "scan",
         c # Idle => c.kind \notin StopKind,
         c # Idle /\ c.kind = "start" =>
           \/ task[t] # Idle /\ task[t].kind = "start"
           \/ task[t] = Idle /\ sidecar[p].address = NoServer
  PROVE  OrderKept(p)
<1> USE DEF JInv
<1>1. /\ p \in Process
      /\ t \in TasksOf(p) /\ task'[t] = c
      /\ \A u \in TasksOf(p) \ {t} :
           task'[u] = task[u] /\ listened'[u] = listened[u]
      /\ \A u \in LifecycleCalls(p) : u \in TasksOf(p) /\ IsLifecycleCall(u)
      /\ \A u \in LifecycleCalls(p)' \ {t} : u \in LifecycleCalls(p)
      /\ \A u \in LifecycleCalls(p) \ {t} : u \in LifecycleCalls(p)'
      /\ t \in LifecycleCalls(p)' <=>
           c # Idle /\ c.kind \in {"start"} \cup StopKind
      /\ t \in LifecycleCalls(p) <=> IsLifecycleCall(t)
  BY CallsOf
<1>2. \A f \in File : Known(p)[f] \subseteq Known(p)'[f] /\ file(f)' = file(f)
  BY DEF Known, File, file
<1>3. \A f \in File : c.phase \notin {OpenPhase[f], WritePhase[f]} \cup OpenedPhase[f]
  BY DEF File, OpenPhase, WritePhase, OpenedPhase, StopPhase, Idle
<1>4. \A f \in File : ~ Opens(t, f)
  BY <1>1, <1>3 DEF Opens, At
<1>5. ASSUME NEW u \in TasksOf(p) PROVE PhaseFits(u)'
  <2>1. u \in Task /\ Home[u] = p
    BY DEF TasksOf
  <2>2. CASE u = t
    BY <1>1, <2>1, <2>2 DEF PhaseFits, Idle, StopPhase, StartPhase, LoadedPhase
  <2>3. CASE u # t
    BY <1>1, <2>1, <2>3 DEF PhaseFits
  <2>4. QED
    BY <2>2, <2>3
<1>6. LoadedFirst(p)'
  BY <1>1 DEF LoadedFirst
<1>7. ASSUME ~ disturbed'[p] PROVE Answers(p)' /\ Owes(p)'
  <2>1. Lone(p) /\ Answers(p) /\ Owes(p) /\ Lone(p)'
    BY <1>7, Undisturbed DEF Orderly
  <2>2. Answers(p)'
    <3>1. CASE LifecycleCalls(p)' = {}
      <4>1. CASE t \in LifecycleCalls(p)
        <5>1. sidecar[p].listening = {} /\ sidecar[p].address = NoServer
          BY <1>1, <2>1, <4>1 DEF Answers, IsLifecycleCall, StopKind
        <5>2. QED
          BY <3>1, <5>1 DEF Answers
      <4>2. CASE t \notin LifecycleCalls(p)
        <5>1. LifecycleCalls(p) = {}
          BY <1>1, <3>1, <4>2
        <5>2. QED
          BY <2>1, <3>1, <5>1 DEF Answers
      <4>3. QED
        BY <4>1, <4>2
    <3>2. CASE t \in LifecycleCalls(p)'
      <4>1. /\ \A u \in LifecycleCalls(p)' : u = t
            /\ c.kind = "start" /\ c.phase # "listen" /\ c # Idle
        BY <1>1, <2>1, <3>2 DEF Lone, StartPhase, StopKind
      <4>2. sidecar[p].listening = {} /\ sidecar[p].address = NoServer
        <5>1. CASE task[t] # Idle /\ task[t].kind = "start"
          BY <1>1, <2>1, <5>1 DEF Answers, IsLifecycleCall
        <5>2. CASE task[t] = Idle /\ sidecar[p].address = NoServer
          <6>1. LifecycleCalls(p) = {}
            BY <1>1, <4>1, <5>2 DEF IsLifecycleCall
          <6>2. QED
            BY <2>1, <5>2, <6>1 DEF Answers
        <5>3. QED
          BY <4>1, <5>1, <5>2
      <4>3. QED
        BY <1>1, <3>2, <4>1, <4>2 DEF Answers, StopKind
    <3>3. CASE LifecycleCalls(p)' # {} /\ t \notin LifecycleCalls(p)'
      BY <1>1, <2>1, <3>3 DEF Answers
    <3>4. QED
      BY <3>1, <3>2, <3>3
  <2>3. Owes(p)'
    <3>1. owed'[p] = owed[p]
      <4>1. ~ Stopped(p) /\ ~ (At(t, "closing") /\ ~ At(t, "closing")')
        <5>1. task[t].phase = "closing" => task[t].kind \in StopKind /\ task[t] # Idle
          BY DEF PhaseFits, StopPhase, Idle
        <5>2. QED
          BY <5>1 DEF Stopped, At
      <4>2. owed'[p] = [f \in File |-> owed[p][f]]
        BY <1>4, <4>1, HistoryOf DEF Overtakes
      <4>3. owed[p] \in [File -> SUBSET (Observation \cup Resource)]
        BY <1>1 DEF IInv, TypeOK
      <4>4. QED
        BY <4>2, <4>3
    <3>2. ASSUME NEW u \in LifecycleCalls(p),
                 task[u].kind \in StopKind,
                 task[u].phase \notin {"closing", "refused", "flush"}
          PROVE  u # t
      BY <1>1, <3>2 DEF IsLifecycleCall
    <3>3. \/ owed'[p] = Nothing
          \/ \E u \in LifecycleCalls(p)' :
               /\ task'[u].kind \in StopKind
               /\ task'[u].phase \notin {"closing", "refused", "flush"}
      BY <1>1, <2>1, <3>1, <3>2 DEF Owes
    <3>4. ASSUME NEW f \in File PROVE owed'[p][f] \subseteq Known(p)'[f]
      BY <1>2, <2>1, <3>1 DEF Owes
    <3>5. ASSUME NEW f \in File, NEW u \in LifecycleCalls(p)'
          PROVE  /\ task'[u].phase \in {OpenPhase[f], WritePhase[f]} =>
                      owed'[p][f] \subseteq task'[u].saved
                 /\ task'[u].phase = WritePhase[f] =>
                      owed'[p][f] = {} \/ file(f)' = Truncated
                 /\ task'[u].phase \in OpenedPhase[f] \ {WritePhase[f]} =>
                      owed'[p][f] \subseteq file(f)'.elements
      <4>1. CASE u = t
        BY <1>1, <1>3, <4>1
      <4>2. CASE u # t
        BY <1>1, <1>2, <2>1, <3>1, <4>2 DEF Owes
      <4>3. QED
        BY <4>1, <4>2
    <3>6. QED
      BY <3>3, <3>4, <3>5 DEF Owes
  <2>4. QED
    BY <2>2, <2>3
<1>8. QED
  BY <1>5, <1>6, <1>7 DEF OrderKept

\* A call reads or writes a file in certain phases only.
LEMMA QuietPhases ==
  ASSUME NEW t \in Task, NEW f \in File
  PROVE  /\ task[t].phase \notin {"write", "baseline-write"} => ~ Writes(t, f)
         /\ task[t].phase \notin {"initialize", "reading", "baseline",
                                  "baseline-reading"} => ~ Reads(t, f)
  BY DEF Writes, Reads, At, WritePhase, File

\* A call on the engine that begins.
LEMMA BeginningStep ==
  ASSUME JInv, NEW t \in Task, NEW p, p = Home[t], Confined(t), History(t, p),
         UNCHANGED <<sidecar, inventoryFile, baselineFile>>,
         task[t] = Idle, NEW c \in CallRecord, task' = [task EXCEPT ![t] = c],
         c.phase \in {"config", "decide", "initialize", "scan"},
         c.kind \notin {"start"} \cup StopKind,
         engine'[p].profiles = engine[p].profiles,
         engine'[p].initialized = engine[p].initialized
  PROVE  OrderKept(p)
<1>1. p \in Process
  BY HomeIsAProcess
<1>2. engine'[p].initialized \/ engine'[p].profiles = {}
  BY <1>1 DEF JInv, LoadedFirst
<1>3. \A f \in File : ~ Writes(t, f)
  BY QuietPhases DEF Idle
<1>4. c.phase \notin LoadedPhase /\ c.phase \notin StartPhase
      /\ c.phase \notin StopPhase
  BY DEF LoadedPhase, StartPhase, StopPhase
<1>5. QED
  BY <1>2, <1>3, <1>4, CalmStep

LEMMA BeginInitOrder ==
  ASSUME JInv, NEW t \in Task, NEW p, p = Home[t], Confined(t), History(t, p),
         UNCHANGED <<sidecar, baselineFile>>, BeginInit(t) \/ BeginScan(t)
  PROVE  OrderKept(p)
<1>1. IInv
  BY DEF JInv
<1> DEFINE new == Call("scan", "scan", Of(t).ready)
           c == CASE BeginInit(t) -> Call("init", "config", Of(t).ready)
                  [] OTHER -> IF Of(t).config
                              THEN [new EXCEPT !.inited = TRUE]
                              ELSE Call("scan", "config", Of(t).ready)
<1>2. Of(t).ready \in BOOLEAN
  BY <1>1, OfACall
<1>3. /\ Call("init", "config", Of(t).ready) \in CallRecord
      /\ Call("scan", "config", Of(t).ready) \in CallRecord
      /\ new \in CallRecord
  BY <1>2, NewCall DEF Kind, EnginePhase
<1>4. [new EXCEPT !.inited = TRUE] \in CallRecord
  BY <1>3 DEF CallRecord
<1>5. c \in CallRecord
  BY <1>3, <1>4
<1>6. /\ c.phase \in {"config", "scan"} /\ c.kind \in {"init", "scan"}
  BY DEF Call
<1>7. /\ task' = [task EXCEPT ![t] = c]
      /\ task[t] = Idle /\ UNCHANGED <<engine, inventoryFile>>
  <2>1. CASE BeginInit(t)
    BY <2>1 DEF BeginInit
  <2>2. CASE ~ BeginInit(t)
    BY <2>2 DEF BeginScan
  <2>3. QED
    BY <2>1, <2>2
<1> HIDE DEF c
<1>8. QED
  BY <1>5, <1>6, <1>7, BeginningStep DEF StopKind

LEMMA BeginResolveOrder ==
  ASSUME JInv, NEW t \in Task, NEW p, p = Home[t], Confined(t), History(t, p),
         UNCHANGED <<sidecar, baselineFile>>,
         NEW kind \in {"resolve", "surface"}, BeginResolve(t, kind)
  PROVE  OrderKept(p)
<1>1. IInv /\ p \in Process
  BY HomeIsAProcess DEF JInv
<1> DEFINE bare == [policy |-> Of(t).policy, inventory |-> FALSE]
           next == Call(kind, "config", Of(t).ready)
           new == Call(kind, "decide", Of(t).ready)
           with(k) == [new EXCEPT !.coordinator = k]
<1>2. next \in CallRecord /\ new \in CallRecord
  BY <1>1, NewCall, OfACall DEF Kind, EnginePhase
<1>3. \A k \in Coordinator : with(k) \in CallRecord
  BY <1>2 DEF CallRecord
<1>4. bare \in Coordinator
  BY <1>1, OfACall DEF Engine, Coordinator
<1>5. /\ next.phase = "config" /\ next.kind = kind
      /\ \A k : with(k).phase = "decide" /\ with(k).kind = kind
  BY DEF Call
<1>6. \E c \in CallRecord :
        /\ task' = [task EXCEPT ![t] = c]
        /\ c.phase \in {"config", "decide"} /\ c.kind = kind
  <2>1. CASE /\ Of(t).coordinator # None
             /\ task' = [task EXCEPT ![t] = with(Of(t).coordinator)]
    <3>1. Of(t).coordinator \in Coordinator
      BY <1>1, <2>1, OfACall DEF Engine
    <3>2. QED
      BY <1>3, <1>5, <2>1, <3>1
  <2>2. CASE task' = [task EXCEPT ![t] = next]
    BY <1>2, <1>5, <2>2
  <2>3. CASE task' = [task EXCEPT ![t] = with(bare)]
    BY <1>3, <1>4, <1>5, <2>3
  <2>4. QED
    BY <2>1, <2>2, <2>3 DEF BeginResolve, Of
<1>7. /\ task[t] = Idle /\ UNCHANGED inventoryFile
      /\ engine'[p].profiles = engine[p].profiles
      /\ engine'[p].initialized = engine[p].initialized
  BY <1>1, SMTT(30) DEF BeginResolve, IInv, TypeOK, Engine
<1>8. QED
  BY <1>6, <1>7, BeginningStep DEF StopKind

LEMMA BeginObserveOrder ==
  ASSUME JInv, NEW t \in Task, NEW p, p = Home[t], Confined(t), History(t, p),
         UNCHANGED <<sidecar, baselineFile>>,
         NEW kind \in {"observe", "event"}, NEW resource \in Resource,
         BeginObserve(t, kind, resource)
  PROVE  OrderKept(p)
<1> DEFINE new == Call(kind, "initialize", Of(t).ready)
           observed == {[resource |-> resource, source |-> "runtime"]}
           c == [new EXCEPT !.observed = observed]
<1>1. new \in CallRecord /\ new.phase = "initialize" /\ new.kind = kind
  BY NewCall, OfACall DEF Kind, EnginePhase, JInv, Call
<1>2. observed \in SUBSET Observation
  BY DEF Observation, Source
<1> HIDE DEF new, observed
<1>3. c \in CallRecord /\ c.phase = "initialize" /\ c.kind = kind
  BY <1>1, <1>2 DEF CallRecord
<1>4. task' = [task EXCEPT ![t] = c]
  BY DEF BeginObserve, new, observed
<1> HIDE DEF c
<1>5. task[t] = Idle /\ UNCHANGED <<engine, inventoryFile>>
  BY DEF BeginObserve
<1>6. QED
  BY <1>3, <1>4, <1>5, BeginningStep DEF StopKind

\* A step of a call on the engine before it persists: it keeps its kind.
LEMMA EngineCalmStep ==
  ASSUME JInv, NEW t \in Task, NEW p, p = Home[t], Confined(t), History(t, p),
         UNCHANGED <<sidecar, inventoryFile, baselineFile>>,
         NEW c, c = Idle \/ c \in CallRecord, task' = [task EXCEPT ![t] = c],
         task[t] # Idle, task[t].phase \notin StopPhase,
         c # Idle => c.kind = task[t].kind,
         c.phase \notin StopPhase \/ (c.phase = "persist" /\ c.kind = "scan"),
         c.phase \in StartPhase => c.kind = "start" /\ c.phase # "listen",
         c.phase \in LoadedPhase => engine'[p].initialized,
         engine[p].profiles \subseteq engine'[p].profiles,
         engine[p].initialized => engine'[p].initialized,
         engine'[p].initialized \/ engine'[p].profiles = {}
  PROVE  OrderKept(p)
<1>1. task[t].kind \notin StopKind
  BY DEF JInv, PhaseFits
<1>2. \A f \in File : ~ Writes(t, f)
  BY QuietPhases DEF StopPhase
<1>3. sidecar'[p] = sidecar[p]
  OBVIOUS
<1>4. QED
  BY <1>1, <1>2, <1>3, CalmStep

LEMMA LoadConfigOrder ==
  ASSUME JInv, NEW t \in Task, NEW p, p = Home[t], Confined(t), History(t, p),
         UNCHANGED <<sidecar, baselineFile>>, LoadConfig(t)
  PROVE  OrderKept(p)
<1> DEFINE c == [task[t] EXCEPT !.phase = "initialize"]
<1>1. p \in Process /\ task[t] # Idle /\ task[t].phase = "config" /\ IInv
  BY HomeIsAProcess DEF LoadConfig, At, Idle, JInv
<1>2. task[t] \in CallRecord
  BY <1>1, ACall
<1>3. c \in CallRecord /\ c.phase = "initialize" /\ c.kind = task[t].kind
  BY <1>2 DEF CallRecord, EnginePhase
<1>4. task' = [task EXCEPT ![t] = c] /\ UNCHANGED inventoryFile
  BY DEF LoadConfig, Goto
<1>5. /\ engine'[p].profiles = engine[p].profiles
      /\ engine'[p].initialized = engine[p].initialized
  BY <1>1 DEF LoadConfig, IInv, TypeOK, Engine
<1> HIDE DEF c
<1>6. engine'[p].initialized \/ engine'[p].profiles = {}
  BY <1>1, <1>5 DEF JInv, LoadedFirst
<1>7. QED
  BY <1>1, <1>3, <1>4, <1>5, <1>6, EngineCalmStep
  DEF StopPhase, StartPhase, LoadedPhase

LEMMA InitializeInventoryOrder ==
  ASSUME JInv, NEW t \in Task, NEW p, p = Home[t], Confined(t), History(t, p),
         UNCHANGED <<sidecar, baselineFile>>, InitializeInventory(t)
  PROVE  OrderKept(p)
<1> DEFINE done == engine[p].initialized \/ inventoryFile = Absent
           c == IF done THEN AfterInitialize(task[t])
                ELSE [task[t] EXCEPT !.phase = "reading"]
<1>1. p \in Process /\ task[t] # Idle /\ task[t].phase = "initialize" /\ IInv
  BY HomeIsAProcess DEF InitializeInventory, At, Idle, JInv
<1>2. task[t] \in CallRecord
  BY <1>1, ACall
<1>3. /\ c \in CallRecord /\ c.kind = task[t].kind
      /\ done => c.phase \in {"upsert", "topology"}
      /\ ~ done => c.phase = "reading"
  BY <1>2, AfterInitializeFits DEF CallRecord, EnginePhase
<1>4. task' = [task EXCEPT ![t] = c] /\ UNCHANGED inventoryFile
  BY DEF InitializeInventory, Of
<1>5. /\ engine'[p].profiles = engine[p].profiles
      /\ engine'[p].initialized = done
  <2> HIDE DEF c, done
  <2>1. engine' = [engine EXCEPT ![p].initialized = done]
    BY DEF InitializeInventory, Of, done
  <2>2. QED
    BY <1>1, <2>1 DEF IInv, TypeOK, Engine
<1>6. engine[p].initialized => done
  OBVIOUS
<1>7. engine'[p].initialized \/ engine'[p].profiles = {}
  BY <1>1, <1>5, <1>6 DEF JInv, LoadedFirst
<1> HIDE DEF c, done
<1>8. QED
  BY <1>1, <1>3, <1>4, <1>5, <1>6, <1>7, EngineCalmStep
  DEF StopPhase, StartPhase, LoadedPhase

LEMMA ReadInventoryOrder ==
  ASSUME JInv, NEW t \in Task, NEW p, p = Home[t], Confined(t), History(t, p),
         UNCHANGED <<sidecar, baselineFile>>, ReadInventory(t)
  PROVE  OrderKept(p)
<1> DEFINE c == AfterInitialize(task[t])
           profiles == Loaded(engine[p].profiles, inventoryFile)
<1>1. p \in Process /\ task[t] # Idle /\ task[t].phase = "reading" /\ IInv
  BY HomeIsAProcess DEF ReadInventory, At, Idle, JInv
<1>2. task[t] \in CallRecord
  BY <1>1, ACall
<1>3. /\ c \in CallRecord /\ c.kind = task[t].kind
      /\ c.phase \in {"upsert", "topology"}
  BY <1>2, AfterInitializeFits
<1>4. task' = [task EXCEPT ![t] = c] /\ UNCHANGED inventoryFile
  BY DEF ReadInventory
<1> HIDE DEF c, profiles
<1>5. engine'[p].profiles = profiles /\ engine'[p].initialized
  BY <1>1 DEF ReadInventory, IInv, TypeOK, Engine, profiles
<1>6. CASE ~ engine[p].initialized
  <2>1. engine[p].profiles = {}
    BY <1>1, <1>6 DEF JInv, LoadedFirst
  <2>2. QED
    BY <1>1, <1>3, <1>4, <1>5, <2>1, EngineCalmStep
    DEF StopPhase, StartPhase, LoadedPhase
<1>7. CASE engine[p].initialized
  <2>1. task'[t] = c
    BY <1>1, <1>3, <1>4, TaskStep
  <2>2. Reads(t, "inventory")
    BY <1>1, <1>3, <2>1 DEF Reads, At
  <2>3. disturbed'[p]
    BY <1>7, <2>2, Undisturbed
  <2>4. ASSUME NEW u \in TasksOf(p) PROVE PhaseFits(u)'
    <3>1. u \in Task /\ Home[u] = p
      BY DEF TasksOf
    <3>2. CASE u = t
      BY <1>1, <1>3, <1>5, <2>1, <3>1, <3>2
      DEF PhaseFits, StopPhase, StartPhase, LoadedPhase, JInv
    <3>3. CASE u # t
      BY <1>5, <3>1, <3>3 DEF PhaseFits, Confined, JInv
    <3>4. QED
      BY <3>2, <3>3
  <2>5. QED
    BY <1>5, <2>3, <2>4 DEF OrderKept, LoadedFirst
<1>8. QED
  BY <1>6, <1>7

LEMMA IngestTopologyOrder ==
  ASSUME JInv, NEW t \in Task, NEW p, p = Home[t], Confined(t), History(t, p),
         UNCHANGED <<sidecar, baselineFile>>, IngestTopology(t)
  PROVE  OrderKept(p)
<1> DEFINE c == [task[t] EXCEPT !.phase = "policy"]
           found == [resource : Topology, source : {"heuristic"}]
<1>1. p \in Process /\ task[t] # Idle /\ task[t].phase = "topology" /\ IInv
  BY HomeIsAProcess DEF IngestTopology, At, Idle, JInv
<1>2. task[t] \in CallRecord
  BY <1>1, ACall
<1>3. c \in CallRecord /\ c.kind = task[t].kind /\ c.phase = "policy"
  BY <1>2 DEF CallRecord, EnginePhase
<1>4. task' = [task EXCEPT ![t] = c] /\ UNCHANGED inventoryFile
  BY DEF IngestTopology, Goto
<1> HIDE DEF c
<1>5. engine[p].initialized
  BY <1>1 DEF JInv, PhaseFits, LoadedPhase
<1>6. /\ engine'[p].profiles = engine[p].profiles \cup found
      /\ engine'[p].initialized
  <2> HIDE DEF found
  <2>1. engine' = [engine EXCEPT ![p].profiles = @ \cup found]
    BY DEF IngestTopology, found
  <2>2. QED
    BY <1>1, <1>5, <2>1 DEF IInv, TypeOK, Engine
<1> HIDE DEF found
<1>7. QED
  BY <1>1, <1>3, <1>4, <1>6, EngineCalmStep
  DEF StopPhase, StartPhase, LoadedPhase

\* A call after init is a start that goes on, or neither start nor stop.
LEMMA AfterInitOrder ==
  ASSUME NEW call \in CallRecord
  PROVE  AfterInit(call).phase = "baseline" => AfterInit(call).kind = "start"
  BY DEF AfterInit, CallRecord, Idle

LEMMA LoadPolicyOrder ==
  ASSUME JInv, NEW t \in Task, NEW p, p = Home[t], Confined(t), History(t, p),
         UNCHANGED <<sidecar, baselineFile>>, LoadPolicy(t)
  PROVE  OrderKept(p)
<1> DEFINE c == AfterInit(task[t])
<1>1. p \in Process /\ task[t] # Idle /\ task[t].phase = "policy" /\ IInv
  BY HomeIsAProcess DEF LoadPolicy, At, Idle, JInv
<1>2. task[t] \in CallRecord
  BY <1>1, ACall
<1>3. /\ c = Idle \/ c \in CallRecord
      /\ c # Idle => c.kind = task[t].kind
      /\ c.phase \in {"idle", "baseline", "scan", "decide"}
      /\ c.phase = "baseline" => c.kind = "start"
  BY <1>2, AfterInitFits, AfterInitOrder
<1>4. task' = [task EXCEPT ![t] = c] /\ UNCHANGED inventoryFile
  BY DEF LoadPolicy
<1> HIDE DEF c
<1>5. engine[p].initialized
  BY <1>1 DEF JInv, PhaseFits, LoadedPhase
<1>6. engine'[p].profiles = engine[p].profiles /\ engine'[p].initialized
  BY <1>1, <1>5 DEF LoadPolicy, IInv, TypeOK, Engine
<1>7. QED
  BY <1>1, <1>3, <1>4, <1>6, EngineCalmStep
  DEF StopPhase, StartPhase, LoadedPhase

\* A call on the engine that ends, before it persists.
LEMMA EngineEndStep ==
  ASSUME JInv, NEW t \in Task, NEW p, p = Home[t], Confined(t), History(t, p),
         UNCHANGED <<engine, sidecar, inventoryFile, baselineFile>>,
         task' = [task EXCEPT ![t] = Idle],
         task[t].phase \in {"config", "topology", "decide", "scan"}
  PROVE  OrderKept(p)
<1>1. p \in Process /\ task[t] # Idle
  BY HomeIsAProcess DEF Idle
<1>2. engine'[p].initialized \/ engine'[p].profiles = {}
  BY <1>1 DEF JInv, LoadedFirst
<1>3. Idle.phase \notin StopPhase \cup StartPhase \cup LoadedPhase
  BY DEF Idle, StopPhase, StartPhase, LoadedPhase
<1>4. QED
  BY <1>1, <1>2, <1>3, EngineCalmStep DEF StopPhase

LEMMA ScanOrder ==
  ASSUME JInv, NEW t \in Task, NEW p, p = Home[t], Confined(t), History(t, p),
         UNCHANGED <<sidecar, baselineFile>>,
         NEW found \in SUBSET Resource, Scan(t, found)
  PROVE  OrderKept(p)
<1> DEFINE findings == [resource : found, source : {"surface-scan"}]
           c == [task[t] EXCEPT !.phase = "initialize", !.observed = findings]
<1>1. p \in Process /\ task[t] # Idle /\ task[t].phase = "scan" /\ IInv
  BY HomeIsAProcess DEF Scan, At, Idle, JInv
<1>2. UNCHANGED <<engine, inventoryFile>>
  BY DEF Scan
<1>3. CASE task' = [task EXCEPT ![t] = Idle]
  BY <1>1, <1>2, <1>3, EngineEndStep
<1>4. CASE task' = [task EXCEPT ![t] = c]
  <2>1. task[t] \in CallRecord
    BY <1>1, ACall
  <2>2. findings \in SUBSET Observation
    BY DEF Observation, Source
  <2> HIDE DEF findings
  <2>3. c \in CallRecord /\ c.kind = task[t].kind /\ c.phase = "initialize"
    BY <2>1, <2>2 DEF CallRecord, EnginePhase
  <2> HIDE DEF c
  <2>4. engine'[p].initialized \/ engine'[p].profiles = {}
    BY <1>1, <1>2 DEF JInv, LoadedFirst
  <2>5. QED
    BY <1>1, <1>2, <1>4, <2>3, <2>4, EngineCalmStep
    DEF StopPhase, StartPhase, LoadedPhase
<1>5. QED
  BY <1>3, <1>4 DEF Scan

LEMMA UpsertOrder ==
  ASSUME JInv, NEW t \in Task, NEW p, p = Home[t], Confined(t), History(t, p),
         UNCHANGED <<sidecar, baselineFile>>, Upsert(t)
  PROVE  OrderKept(p)
<1> DEFINE c == CASE task[t].kind = "scan"  -> [task[t] EXCEPT !.phase = "persist"]
                  [] task[t].kind = "event" -> [task[t] EXCEPT !.phase = "learn"]
                  [] OTHER                  -> Idle
<1>1. p \in Process /\ task[t] # Idle /\ task[t].phase = "upsert" /\ IInv
  BY HomeIsAProcess DEF Upsert, At, Idle, JInv
<1>2. task[t] \in CallRecord
  BY <1>1, ACall
<1>3. /\ c = Idle \/ c \in CallRecord
      /\ c.phase \in {"idle", "persist", "learn"}
      /\ c # Idle => c.kind = task[t].kind
      /\ c.phase = "persist" => c.kind = "scan"
  <2>1. CASE task[t].kind = "scan"
    BY <1>2, <2>1 DEF CallRecord, EnginePhase
  <2>2. CASE task[t].kind = "event"
    BY <1>2, <2>2 DEF CallRecord, LifecyclePhase
  <2>3. CASE task[t].kind \notin {"scan", "event"}
    BY <2>3 DEF Idle
  <2>4. QED
    BY <2>1, <2>2, <2>3
<1>4. task' = [task EXCEPT ![t] = c] /\ UNCHANGED inventoryFile
  BY DEF Upsert
<1> HIDE DEF c
<1>5. engine[p].initialized
  BY <1>1 DEF JInv, PhaseFits, LoadedPhase
<1>6. /\ engine'[p].profiles = engine[p].profiles \cup task[t].observed
      /\ engine'[p].initialized
  BY <1>1, <1>5 DEF Upsert, IInv, TypeOK, Engine
<1>7. QED
  BY <1>1, <1>3, <1>4, <1>6, EngineCalmStep
  DEF StopPhase, StartPhase, LoadedPhase
-----------------------------------------------------------------------------
\* Calls that persist: scans and stops.

PersistPhase == [inventory |-> "persist", baseline |-> "baseline-persist"]

\* What is known of them.
LEMMA PersistingCall ==
  ASSUME JInv, NEW t \in Task,
         task[t].phase \in {"persist", "open", "write", "baseline-persist",
                            "baseline-open", "baseline-write"}
  PROVE  /\ task[t] \in CallRecord /\ task[t] # Idle
         /\ task[t].kind \in StopKind \cup {"scan"}
         /\ task[t].kind = "scan" => task[t].phase \in {"persist", "open", "write"}
         /\ engine[Home[t]].initialized
         /\ IsLifecycleCall(t) <=> task[t].kind \in StopKind
         /\ IInv /\ Home[t] \in Process
<1>1. task[t] # Idle /\ IInv
  BY DEF Idle, JInv
<1>2. task[t] \in CallRecord
  BY <1>1, ACall
<1>a. task[t].phase \in StopPhase /\ task[t].phase \in LoadedPhase
  BY DEF LoadedPhase, StopPhase
<1>b. PhaseFits(t)
  BY DEF JInv
<1>c. StopKind = {"stop", "interrupt"}
  BY DEF StopKind
<1>3. /\ task[t].kind \in StopKind \cup {"scan"}
      /\ task[t].kind = "scan" => task[t].phase \in {"persist", "open", "write"}
      /\ engine[Home[t]].initialized
  BY <1>a, <1>b, <1>c DEF PhaseFits
<1>4. QED
  BY <1>1, <1>2, <1>3, HomeIsAProcess DEF IsLifecycleCall, StopKind

\* Phases of calls that go on, or end, without engine or sidecar.
LEMMA PhasesKeep ==
  ASSUME JInv, NEW t \in Task, NEW p, p = Home[t], NEW c,
         c = Idle \/ c \in CallRecord, task' = [task EXCEPT ![t] = c],
         Confined(t),
         engine'[p].initialized = engine[p].initialized,
         c.phase \in LoadedPhase => engine[p].initialized,
         c.phase \in StartPhase => c.kind = "start",
         c # Idle /\ c.kind \in StopKind => c.phase \in StopPhase,
         c.phase \in StopPhase =>
           \/ c.kind \in StopKind
           \/ c.kind = "scan" /\ c.phase \in {"persist", "open", "write"}
  PROVE  \A u \in TasksOf(p) : PhaseFits(u)'
<1>1. /\ task'[t] = c
      /\ \A u \in TasksOf(p) \ {t} : task'[u] = task[u]
  BY CallsOf DEF JInv
<1>2. TAKE u \in TasksOf(p)
<1>3. u \in Task /\ Home[u] = p
  BY DEF TasksOf
<1>4. CASE u = t
  BY <1>1, <1>3, <1>4 DEF PhaseFits
<1>5. CASE u # t
  BY <1>1, <1>3, <1>5 DEF PhaseFits, JInv
<1>6. QED
  BY <1>4, <1>5

\* A scan or a stop that goes on leaves the address as it is.
LEMMA AnswersKeep ==
  ASSUME JInv, NEW t \in Task, NEW p, p = Home[t], NEW c \in CallRecord,
         task' = [task EXCEPT ![t] = c], Confined(t),
         sidecar'[p] = sidecar[p], Answers(p),
         task[t] # Idle, c # Idle, c.kind = task[t].kind,
         c.kind \in StopKind \cup {"scan"},
         c.phase \notin {"refused", "listen", "flush"}, task[t].phase # "flush"
  PROVE  Answers(p)'
<1>1. /\ t \in TasksOf(p) /\ task'[t] = c
      /\ \A u \in TasksOf(p) \ {t} :
           task'[u] = task[u] /\ listened'[u] = listened[u]
      /\ \A u \in LifecycleCalls(p) : u \in TasksOf(p) /\ IsLifecycleCall(u)
      /\ \A u \in LifecycleCalls(p)' \ {t} : u \in LifecycleCalls(p)
      /\ \A u \in LifecycleCalls(p) \ {t} : u \in LifecycleCalls(p)'
      /\ t \in LifecycleCalls(p)' <=>
           c # Idle /\ c.kind \in {"start"} \cup StopKind
      /\ t \in LifecycleCalls(p) <=> IsLifecycleCall(t)
  BY CallsOf DEF JInv
<1>2. t \in LifecycleCalls(p)' <=> t \in LifecycleCalls(p)
  BY <1>1 DEF IsLifecycleCall, StopKind
<1>3. LifecycleCalls(p)' = LifecycleCalls(p)
  BY <1>1, <1>2
<1>4. ASSUME NEW u \in LifecycleCalls(p)
      PROVE  /\ sidecar[p].listening = {}
             /\ task'[u].kind = "start" \/ task'[u].phase = "refused" =>
                  sidecar[p].address = NoServer
             /\ task'[u].phase = "listen" => sidecar[p].server = listened'[u]
             /\ task'[u].kind \in StopKind /\ task'[u].phase # "flush" =>
                  sidecar[p].server # NoServer
  <2>1. CASE u = t
    BY <1>1, <2>1 DEF Answers, StopKind
  <2>2. CASE u # t
    BY <1>1, <2>2 DEF Answers
  <2>3. QED
    BY <2>1, <2>2
<1>5. QED
  BY <1>3, <1>4 DEF Answers

\* What is to be written is fixed: all that is known.
LEMMA SavingStep ==
  ASSUME JInv, NEW t \in Task, NEW p, p = Home[t], Confined(t), History(t, p),
         UNCHANGED <<engine, sidecar, inventoryFile, baselineFile>>,
         NEW f \in File, task[t].phase = PersistPhase[f],
         NEW c \in CallRecord, task' = [task EXCEPT ![t] = c],
         c.kind = task[t].kind, c.phase = OpenPhase[f], c.saved = Known(p)[f]
  PROVE  OrderKept(p)
<1>1. /\ task[t].phase \in {"persist", "baseline-persist"}
      /\ c.phase \in {"open", "baseline-open"} /\ c # Idle
      /\ \A g \in File : c.phase # WritePhase[g] /\ (c.phase = OpenPhase[g] => g = f)
      /\ \A g \in File :
           c.phase \in OpenedPhase[g] => task[t].phase \in OpenedPhase[g] \ {WritePhase[g]}
  BY DEF File, PersistPhase, OpenPhase, WritePhase, OpenedPhase, Idle
<1>2. /\ task[t] \in CallRecord /\ task[t] # Idle
      /\ task[t].kind \in StopKind \cup {"scan"}
      /\ task[t].kind = "scan" => task[t].phase \in {"persist", "open", "write"}
      /\ engine[p].initialized /\ IInv /\ p \in Process
  BY <1>1, PersistingCall
<1>3. /\ t \in TasksOf(p) /\ task'[t] = c
      /\ \A u \in TasksOf(p) \ {t} :
           task'[u] = task[u] /\ listened'[u] = listened[u]
      /\ \A u \in LifecycleCalls(p) : u \in TasksOf(p) /\ IsLifecycleCall(u)
      /\ \A u \in LifecycleCalls(p)' \ {t} : u \in LifecycleCalls(p)
      /\ \A u \in LifecycleCalls(p) \ {t} : u \in LifecycleCalls(p)'
      /\ t \in LifecycleCalls(p)' <=>
           c # Idle /\ c.kind \in {"start"} \cup StopKind
      /\ t \in LifecycleCalls(p) <=> IsLifecycleCall(t)
  BY <1>2, CallsOf
<1>4. Known(p)' = Known(p) /\ \A g \in File : file(g)' = file(g)
  BY DEF Known, file
<1>5. \A u \in TasksOf(p) : PhaseFits(u)'
  <2>1. c.phase \in StopPhase /\ c.phase \notin StartPhase
    BY <1>1 DEF StopPhase, StartPhase
  <2>2. c.kind = "scan" => c.phase = "open"
    BY <1>2 DEF File, PersistPhase, OpenPhase
  <2>3. QED
    BY <1>2, <2>1, <2>2, PhasesKeep
<1>6. LoadedFirst(p)'
  BY <1>2 DEF LoadedFirst
<1>7. ASSUME ~ disturbed'[p] PROVE Answers(p)' /\ Owes(p)'
  <2>1. Lone(p) /\ Answers(p) /\ Owes(p) /\ Lone(p)'
    BY <1>7, Undisturbed DEF Orderly
  <2>2. Answers(p)'
    BY <1>1, <1>2, <2>1, AnswersKeep
  <2>3. \A g \in File : ~ Writes(t, g) /\ ~ Opens(t, g)
    BY <1>1, <1>3, QuietPhases DEF Opens, At
  <2>4. Owes(p)'
    <3>1. owed'[p] = owed[p]
      <4>1. ~ Stopped(p) /\ ~ At(t, "closing")
        BY <1>1 DEF Stopped, At
      <4>2. owed'[p] = [g \in File |-> owed[p][g]]
        BY <1>2, <2>3, <4>1, HistoryOf DEF Overtakes
      <4>3. owed[p] \in [File -> SUBSET (Observation \cup Resource)]
        BY <1>2 DEF IInv, TypeOK
      <4>4. QED
        BY <4>2, <4>3
    <3>2. \/ owed'[p] = Nothing
          \/ \E u \in LifecycleCalls(p)' :
               /\ task'[u].kind \in StopKind
               /\ task'[u].phase \notin {"closing", "refused", "flush"}
      BY <1>1, <1>2, <1>3, <2>1, <3>1 DEF Owes, IsLifecycleCall
    <3>3. ASSUME NEW g \in File, NEW u \in LifecycleCalls(p)'
          PROVE  /\ task'[u].phase \in {OpenPhase[g], WritePhase[g]} =>
                      owed[p][g] \subseteq task'[u].saved
                 /\ task'[u].phase = WritePhase[g] =>
                      owed[p][g] = {} \/ file(g) = Truncated
                 /\ task'[u].phase \in OpenedPhase[g] \ {WritePhase[g]} =>
                      owed[p][g] \subseteq file(g).elements
      <4>1. CASE u = t
        <5>1. t \in LifecycleCalls(p)
          BY <1>2, <1>3, <3>3, <4>1 DEF IsLifecycleCall, StopKind
        <5>2. QED
          BY <1>1, <1>3, <2>1, <4>1, <5>1 DEF Owes
      <4>2. CASE u # t
        BY <1>3, <2>1, <4>2 DEF Owes
      <4>3. QED
        BY <4>1, <4>2
    <3>4. QED
      BY <1>4, <2>1, <3>1, <3>2, <3>3 DEF Owes
  <2>5. QED
    BY <2>2, <2>4
<1>8. QED
  BY <1>5, <1>6, <1>7 DEF OrderKept

\* A file is opened, or the inventory written; a scan ends with that.
LEMMA FileStep ==
  ASSUME JInv, NEW t \in Task, NEW p, p = Home[t], Confined(t), History(t, p),
         UNCHANGED <<engine, sidecar>>, NEW f \in File,
         task[t].phase \in {"open", "write", "baseline-open"},
         NEW c, c = Idle \/ c \in CallRecord, task' = [task EXCEPT ![t] = c],
         c # Idle => c.kind = task[t].kind,
         c = Idle => task[t].kind = "scan",
         c.phase \in {"idle", "write", "baseline-persist", "baseline-write"},
         c.phase = "write" \/ task[t].kind \in StopKind \/ c = Idle,
         \A g \in File \ {f} : file(g)' = file(g),
         \A g \in File \ {f} : ~ Opens(t, g) /\ ~ Writes(t, g),
         Opens(t, f) \/ Writes(t, f),
         c.phase = "write" => c.saved = task[t].saved /\ task[t].phase = "open",
         c.phase = "baseline-write" =>
           c.saved = task[t].saved /\ task[t].phase = "baseline-open",
         c # Idle /\ IsLifecycleCall(t) /\ ~ disturbed'[p] => \A g \in File :
           /\ c.phase = WritePhase[g] => owed[p][g] = {} \/ file(g)' = Truncated
           /\ c.phase \in OpenedPhase[g] \ {WritePhase[g]} =>
                owed[p][g] \subseteq file(g)'.elements
  PROVE  OrderKept(p)
<1>1. /\ task[t] \in CallRecord /\ task[t] # Idle
      /\ task[t].kind \in StopKind \cup {"scan"}
      /\ task[t].kind = "scan" => task[t].phase \in {"persist", "open", "write"}
      /\ engine[p].initialized /\ IInv /\ p \in Process
      /\ IsLifecycleCall(t) <=> task[t].kind \in StopKind
  BY PersistingCall
<1>2. /\ t \in TasksOf(p) /\ task'[t] = c
      /\ \A u \in TasksOf(p) \ {t} :
           task'[u] = task[u] /\ listened'[u] = listened[u]
      /\ \A u \in LifecycleCalls(p) : u \in TasksOf(p) /\ IsLifecycleCall(u)
      /\ \A u \in LifecycleCalls(p)' \ {t} : u \in LifecycleCalls(p)
      /\ \A u \in LifecycleCalls(p) \ {t} : u \in LifecycleCalls(p)'
      /\ t \in LifecycleCalls(p)' <=>
           c # Idle /\ c.kind \in {"start"} \cup StopKind
      /\ t \in LifecycleCalls(p) <=> IsLifecycleCall(t)
  BY <1>1, CallsOf
<1>3. Known(p)' = Known(p)
  BY DEF Known
<1>4. "start" \notin StopKind /\ "scan" \notin StopKind
  BY DEF StopKind
<1>5. c = Idle => ~ IsLifecycleCall(t)
  BY <1>1, <1>4
<1>6. /\ t \in LifecycleCalls(p)' <=> t \in LifecycleCalls(p)
      /\ LifecycleCalls(p)' = LifecycleCalls(p)
  <2>1. t \in LifecycleCalls(p)' <=> t \in LifecycleCalls(p)
    BY <1>1, <1>2, <1>4, <1>5
  <2>2. QED
    BY <1>2, <2>1
<1>7. \A g \in File : /\ c.phase # OpenPhase[g]
                      /\ c.phase = WritePhase[g] =>
                           /\ task[t].phase = OpenPhase[g]
                           /\ c.saved = task[t].saved
  BY DEF File, OpenPhase, WritePhase, Idle
<1>8. \A u \in TasksOf(p) : PhaseFits(u)'
  <2>1. c # Idle => c.phase \in StopPhase /\ c.phase \notin StartPhase
    BY DEF StopPhase, StartPhase, CallRecord, EnginePhase, LifecyclePhase
  <2>2. c = Idle => c.phase \notin StopPhase \cup StartPhase \cup LoadedPhase
    BY DEF StopPhase, StartPhase, LoadedPhase, Idle
  <2>3. QED
    BY <1>1, <1>4, <2>1, <2>2, PhasesKeep
<1>9. LoadedFirst(p)'
  BY <1>1 DEF LoadedFirst
<1>10. ASSUME ~ disturbed'[p] PROVE Answers(p)' /\ Owes(p)'
  <2>1. Lone(p) /\ Answers(p) /\ Owes(p) /\ Lone(p)'
    BY <1>10, Undisturbed DEF Orderly
  <2>2. Answers(p)'
    <3>1. CASE c = Idle
      <4>1. t \notin LifecycleCalls(p)
        BY <1>2, <1>5, <3>1
      <4>2. QED
        BY <1>2, <1>6, <2>1, <4>1 DEF Answers
    <3>2. CASE c # Idle
      BY <1>1, <2>1, <3>2, AnswersKeep
    <3>3. QED
      BY <3>1, <3>2
  <2>3. Owes(p)'
    <3>1. owed'[p] = [g \in File |-> IF Overtakes(t, g, p) THEN {} ELSE owed[p][g]]
      <4>1. ~ Stopped(p) /\ ~ At(t, "closing")
        BY DEF Stopped, At
      <4>2. QED
        BY <1>1, <4>1, HistoryOf
    <3>2. \A g \in File :
            /\ owed'[p][g] = owed[p][g] \/ owed'[p][g] = {}
            /\ Overtakes(t, g, p) => owed'[p][g] = {}
      BY <3>1
    <3>3. owed[p] = Nothing => owed'[p] = Nothing
      <4>1. \A g \in File : Nothing[g] = {}
        BY DEF Nothing
      <4>2. owed[p] = Nothing => owed'[p] = [g \in File |-> {}]
        BY <3>1, <4>1
      <4>3. QED
        BY <4>2 DEF Nothing
    <3>4. \/ owed'[p] = Nothing
          \/ \E u \in LifecycleCalls(p)' :
               /\ task'[u].kind \in StopKind
               /\ task'[u].phase \notin {"closing", "refused", "flush"}
      <4>1. ASSUME NEW u \in LifecycleCalls(p), task[u].kind \in StopKind,
                   task[u].phase \notin {"closing", "refused", "flush"}
            PROVE  /\ u \in LifecycleCalls(p)' /\ task'[u].kind \in StopKind
                   /\ task'[u].phase \notin {"closing", "refused", "flush"}
        <5>1. CASE u = t
          BY <1>2, <1>5, <1>6, <4>1, <5>1
        <5>2. CASE u # t
          BY <1>2, <1>6, <4>1, <5>2
        <5>3. QED
          BY <5>1, <5>2
      <4>2. QED
        BY <2>1, <3>3, <4>1 DEF Owes
    <3>5. ASSUME NEW g \in File, NEW u \in LifecycleCalls(p)
          PROVE  /\ task'[u].phase \in {OpenPhase[g], WritePhase[g]} =>
                      owed'[p][g] \subseteq task'[u].saved
                 /\ task'[u].phase = WritePhase[g] =>
                      owed'[p][g] = {} \/ file(g)' = Truncated
                 /\ task'[u].phase \in OpenedPhase[g] \ {WritePhase[g]} =>
                      owed'[p][g] \subseteq file(g)'.elements
      <4>1. CASE u = t
        <5>1. c # Idle /\ IsLifecycleCall(t)
          BY <1>2, <1>5, <4>1
        <5>2. c.phase = WritePhase[g] => owed[p][g] \subseteq task[t].saved
          BY <1>7, <2>1, <4>1 DEF Owes
        <5>3. QED
          BY <1>2, <1>7, <1>10, <3>2, <4>1, <5>1, <5>2
      <4>2. CASE u # t /\ g # f
        BY <1>2, <2>1, <3>2, <4>2 DEF Owes
      <4>3. CASE u # t /\ g = f
        <5>1. task[u].phase \in OpenedPhase[f] => owed'[p][f] = {}
          BY <3>2, <4>3 DEF Overtakes
        <5>2. WritePhase[f] \in OpenedPhase[f]
          BY DEF File, WritePhase, OpenedPhase
        <5>3. QED
          BY <1>2, <2>1, <3>2, <4>3, <5>1, <5>2 DEF Owes
      <4>4. QED
        BY <4>1, <4>2, <4>3
    <3>6. \A g \in File : owed'[p][g] \subseteq Known(p)[g]
      BY <2>1, <3>2 DEF Owes
    <3>7. QED
      BY <1>3, <1>6, <3>4, <3>5, <3>6 DEF Owes
  <2>4. QED
    BY <2>2, <2>3
<1>11. QED
  BY <1>8, <1>9, <1>10 DEF OrderKept

LEMMA PersistOrder ==
  ASSUME JInv, NEW t \in Task, NEW p, p = Home[t], Confined(t), History(t, p),
         \/ PersistInventory(t) /\ UNCHANGED <<sidecar, baselineFile>>
         \/ PersistBaseline(t)
  PROVE  OrderKept(p)
<1>1. task[t].phase \in {"persist", "baseline-persist"}
  BY DEF PersistInventory, PersistBaseline, At
<1>2. /\ task[t] \in CallRecord /\ IInv
      /\ engine[p].profiles \subseteq Observation
      /\ sidecar[p].patterns \subseteq Resource
  BY <1>1, PersistingCall, OfACall DEF Of, Its, Engine, Sidecar
<1>3. CASE PersistInventory(t) /\ UNCHANGED <<sidecar, baselineFile>>
  <2> DEFINE saved == engine[p].profiles
             c == [task[t] EXCEPT !.phase = "open", !.saved = saved]
  <2>1. /\ c \in CallRecord /\ c.phase = "open" /\ c.saved = saved
        /\ c.kind = task[t].kind
    BY <1>2 DEF CallRecord, EnginePhase
  <2>2. task' = [task EXCEPT ![t] = c]
    BY <1>3 DEF PersistInventory, Of
  <2>3. /\ "inventory" \in File /\ PersistPhase["inventory"] = "persist"
        /\ OpenPhase["inventory"] = "open" /\ Known(p)["inventory"] = saved
    BY DEF File, PersistPhase, OpenPhase, Known
  <2> HIDE DEF c, saved
  <2>4. /\ UNCHANGED <<engine, sidecar, inventoryFile, baselineFile>>
        /\ task[t].phase = PersistPhase["inventory"]
        /\ c.phase = OpenPhase["inventory"] /\ c.saved = Known(p)["inventory"]
    BY <1>3, <2>1, <2>3 DEF PersistInventory, At
  <2>5. QED
    BY <2>1, <2>2, <2>3, <2>4, SavingStep
<1>4. CASE PersistBaseline(t)
  <2> DEFINE saved == sidecar[p].patterns
             c == [task[t] EXCEPT !.phase = "baseline-open", !.saved = saved]
  <2>1. task' = [task EXCEPT ![t] = c]
    BY <1>4 DEF PersistBaseline, Its
  <2>2. /\ "baseline" \in File /\ PersistPhase["baseline"] = "baseline-persist"
        /\ OpenPhase["baseline"] = "baseline-open" /\ Known(p)["baseline"] = saved
    BY DEF File, PersistPhase, OpenPhase, Known
  <2>3. saved \in SUBSET Resource
    BY <1>2
  <2> HIDE DEF saved
  <2>4. c \in CallRecord
    BY <1>2, <2>3, SavingCall DEF LifecyclePhase
  <2>5. c.phase = "baseline-open" /\ c.saved = saved /\ c.kind = task[t].kind
    BY <1>2 DEF CallRecord
  <2> HIDE DEF c
  <2>6. /\ UNCHANGED <<engine, sidecar, inventoryFile, baselineFile>>
        /\ task[t].phase = PersistPhase["baseline"]
        /\ c.phase = OpenPhase["baseline"] /\ c.saved = Known(p)["baseline"]
    BY <1>4, <2>2, <2>5 DEF PersistBaseline, At, unchangedFiles
  <2>7. QED
    BY <2>1, <2>2, <2>4, <2>5, <2>6, SavingStep
<1>5. QED
  BY <1>3, <1>4

LEMMA OpenOrder ==
  ASSUME JInv, NEW t \in Task, NEW p, p = Home[t], Confined(t), History(t, p),
         \/ OpenInventory(t) /\ UNCHANGED <<sidecar, baselineFile>>
         \/ OpenBaseline(t)
  PROVE  OrderKept(p)
<1>1. task[t].phase \in {"open", "baseline-open"} /\ UNCHANGED <<engine, sidecar>>
  BY DEF OpenInventory, OpenBaseline, At
<1>2. /\ task[t] \in CallRecord /\ task[t] # Idle /\ IInv
      /\ task[t].kind \in StopKind \cup {"scan"}
      /\ task[t].kind = "scan" => task[t].phase \in {"persist", "open", "write"}
  BY <1>1, PersistingCall
<1>3. Truncated.elements = {}
  BY DEF Truncated
<1>4. CASE OpenInventory(t) /\ UNCHANGED <<sidecar, baselineFile>>
  <2> DEFINE c == [task[t] EXCEPT !.phase = "write"]
  <2>1. /\ c \in CallRecord /\ c.phase = "write" /\ c # Idle
        /\ c.kind = task[t].kind /\ c.saved = task[t].saved
    BY <1>2 DEF CallRecord, EnginePhase, Idle
  <2>2. task' = [task EXCEPT ![t] = c]
    BY <1>4 DEF OpenInventory, Goto
  <2> HIDE DEF c
  <2>3. task'[t] = c
    BY <1>2, <2>1, <2>2, TaskStep
  <2>4. /\ "inventory" \in File /\ File \ {"inventory"} = {"baseline"}
        /\ file("inventory")' = Truncated /\ file("baseline")' = file("baseline")
    BY <1>4 DEF File, file, OpenInventory
  <2>5. /\ Opens(t, "inventory")
        /\ ~ Opens(t, "baseline") /\ ~ Writes(t, "baseline")
    BY <1>4, <2>1, <2>3
    DEF Opens, Writes, At, OpenPhase, WritePhase, OpenInventory
  <2>6. \A g \in File : /\ c.phase = WritePhase[g] => g = "inventory"
                        /\ c.phase \notin OpenedPhase[g] \ {WritePhase[g]}
    BY <2>1 DEF File, WritePhase, OpenedPhase
  <2>7. task[t].phase = "open"
    BY <1>4 DEF OpenInventory, At
  <2>8. /\ \A g \in File \ {"inventory"} : file(g)' = file(g)
        /\ \A g \in File \ {"inventory"} : ~ Opens(t, g) /\ ~ Writes(t, g)
    BY <2>4, <2>5
  <2>9. \A g \in File :
           /\ c.phase = WritePhase[g] => owed[p][g] = {} \/ file(g)' = Truncated
           /\ c.phase \in OpenedPhase[g] \ {WritePhase[g]} =>
                owed[p][g] \subseteq file(g)'.elements
    BY <2>4, <2>6
  <2>10. QED
    BY <1>1, <1>2, <2>1, <2>2, <2>4, <2>5, <2>7, <2>8, <2>9, FileStep, ZenonT(40)
<1>5. CASE OpenBaseline(t)
  <2> DEFINE c == [task[t] EXCEPT !.phase = "baseline-write"]
  <2>1. /\ c \in CallRecord /\ c.phase = "baseline-write" /\ c # Idle
        /\ c.kind = task[t].kind /\ c.saved = task[t].saved
    BY <1>2 DEF CallRecord, LifecyclePhase, Idle
  <2>2. task' = [task EXCEPT ![t] = c]
    BY <1>5 DEF OpenBaseline, Goto
  <2> HIDE DEF c
  <2>3. task'[t] = c
    BY <1>2, <2>1, <2>2, TaskStep
  <2>4. /\ "baseline" \in File /\ File \ {"baseline"} = {"inventory"}
        /\ file("baseline")' = Truncated /\ file("inventory")' = file("inventory")
    BY <1>5 DEF File, file, OpenBaseline
  <2>5. /\ Opens(t, "baseline")
        /\ ~ Opens(t, "inventory") /\ ~ Writes(t, "inventory")
    BY <1>5, <2>1, <2>3
    DEF Opens, Writes, At, OpenPhase, WritePhase, OpenBaseline
  <2>6. task[t].phase = "baseline-open"
    BY <1>5 DEF OpenBaseline, At
  <2>7. task[t].kind \in StopKind
    BY <1>2, <2>6
  <2>8. c # Idle /\ IsLifecycleCall(t) /\ ~ disturbed'[p] => \A g \in File :
          /\ c.phase = WritePhase[g] => owed[p][g] = {} \/ file(g)' = Truncated
          /\ c.phase \in OpenedPhase[g] \ {WritePhase[g]} =>
               owed[p][g] \subseteq file(g)'.elements
    <3>1. SUFFICES ASSUME IsLifecycleCall(t), ~ disturbed'[p], NEW g \in File
                   PROVE  /\ c.phase = WritePhase[g] =>
                               owed[p][g] = {} \/ file(g)' = Truncated
                          /\ c.phase \in OpenedPhase[g] \ {WritePhase[g]} =>
                               owed[p][g] \subseteq file(g)'.elements
      OBVIOUS
    <3>2. Owes(p) /\ t \in LifecycleCalls(p)
      BY <3>1, Undisturbed DEF Orderly, LifecycleCalls, TasksOf
    <3>3. CASE g = "baseline"
      BY <2>1, <2>4, <3>3 DEF WritePhase, OpenedPhase
    <3>4. CASE g = "inventory"
      <4>1. task[t].phase \in OpenedPhase[g] \ {WritePhase[g]}
        BY <2>6, <3>4 DEF OpenedPhase, WritePhase
      <4>2. owed[p][g] \subseteq file(g)'.elements
        BY <2>4, <3>2, <3>4, <4>1 DEF Owes
      <4>3. QED
        BY <2>1, <3>4, <4>2 DEF WritePhase
    <3>5. QED
      BY <3>3, <3>4 DEF File
  <2>9. /\ \A g \in File \ {"baseline"} : file(g)' = file(g)
        /\ \A g \in File \ {"baseline"} : ~ Opens(t, g) /\ ~ Writes(t, g)
    BY <2>4, <2>5
  <2>10. /\ task[t].phase \in {"open", "write", "baseline-open"}
         /\ c.phase \in {"idle", "write", "baseline-persist", "baseline-write"}
         /\ c.phase = "write" => c.saved = task[t].saved /\ task[t].phase = "open"
         /\ c.phase = "baseline-write" =>
              c.saved = task[t].saved /\ task[t].phase = "baseline-open"
    BY <2>1, <2>6
  <2>11. QED
    BY <1>1, <2>1, <2>2, <2>4, <2>5, <2>7, <2>8, <2>9, <2>10, FileStep
<1>6. QED
  BY <1>4, <1>5

\* What is written to a file that was opened for it alone.
LEMMA WrittenHas ==
  ASSUME NEW content, NEW elements, NEW written \in Written(content, elements),
         content = Truncated
  PROVE  written.elements = elements
  BY DEF Written, Whole

LEMMA WriteInventoryOrder ==
  ASSUME JInv, NEW t \in Task, NEW p, p = Home[t], Confined(t), History(t, p),
         UNCHANGED <<sidecar, baselineFile>>, WriteInventory(t)
  PROVE  OrderKept(p)
<1> DEFINE c == AfterPersist(task[t])
           saved == task[t].saved
<1>1. task[t].phase = "write" /\ UNCHANGED <<engine, sidecar, failures>>
  BY DEF WriteInventory, At
<1>2. /\ task[t] \in CallRecord /\ task[t] # Idle /\ IInv
      /\ task[t].kind \in StopKind \cup {"scan"}
      /\ IsLifecycleCall(t) <=> task[t].kind \in StopKind
  BY <1>1, PersistingCall
<1>3. /\ task[t].kind = "scan" => c = Idle /\ c.phase = "idle"
      /\ task[t].kind \in StopKind =>
           /\ c \in CallRecord /\ c # Idle
           /\ c.kind = task[t].kind /\ c.phase = "baseline-persist"
  BY <1>2 DEF AfterPersist, StopKind, CallRecord, LifecyclePhase, Idle
<1>4. task' = [task EXCEPT ![t] = c]
  BY DEF WriteInventory
<1> HIDE DEF c
<1>5. /\ task'[t] = c
      /\ c = Idle \/ c \in CallRecord
      /\ c.phase \in {"idle", "baseline-persist"}
  BY <1>2, <1>3, <1>4, TaskStep
<1>6. /\ "inventory" \in File /\ File \ {"inventory"} = {"baseline"}
      /\ file("baseline")' = file("baseline")
      /\ file("inventory") = inventoryFile /\ file("inventory")' = inventoryFile'
  BY DEF File, file
<1>7. inventoryFile' \in Written(inventoryFile, saved)
  BY DEF WriteInventory
<1>8. /\ Writes(t, "inventory")
      /\ ~ Opens(t, "baseline") /\ ~ Writes(t, "baseline")
  BY <1>1, <1>5, <1>6, <1>7 DEF Opens, Writes, At, OpenPhase, WritePhase
<1> HIDE DEF saved
<1>9. ASSUME c # Idle, IsLifecycleCall(t), ~ disturbed'[p], NEW g \in File
       PROVE  /\ c.phase = WritePhase[g] => owed[p][g] = {} \/ file(g)' = Truncated
              /\ c.phase \in OpenedPhase[g] \ {WritePhase[g]} =>
                   owed[p][g] \subseteq file(g)'.elements
  <2>1. c.phase = "baseline-persist"
    BY <1>3, <1>2, <1>9
  <2>2. CASE g = "baseline"
    BY <2>1, <2>2 DEF WritePhase, OpenedPhase
  <2>3. CASE g = "inventory"
    <3>1. Owes(p) /\ t \in LifecycleCalls(p)
      BY <1>9, Undisturbed DEF Orderly, LifecycleCalls, TasksOf
    <3>2. /\ owed[p][g] \subseteq saved
          /\ owed[p][g] = {} \/ file(g) = Truncated
      <4>1. task[t].phase = WritePhase[g]
        BY <1>1, <2>3 DEF WritePhase
      <4>2. QED
        BY <3>1, <4>1 DEF Owes, saved
    <3>3. CASE file(g) = Truncated
      BY <1>6, <1>7, <2>1, <2>3, <3>2, <3>3, WrittenHas DEF WritePhase
    <3>4. CASE owed[p][g] = {}
      BY <2>1, <2>3, <3>4 DEF WritePhase
    <3>5. QED
      BY <3>2, <3>3, <3>4
  <2>4. QED
    BY <2>2, <2>3 DEF File
<1>10. /\ \A g \in File \ {"inventory"} : file(g)' = file(g)
       /\ \A g \in File \ {"inventory"} : ~ Opens(t, g) /\ ~ Writes(t, g)
  BY <1>6, <1>8
<1>11. c # Idle /\ IsLifecycleCall(t) /\ ~ disturbed'[p] => \A g \in File :
         /\ c.phase = WritePhase[g] => owed[p][g] = {} \/ file(g)' = Truncated
         /\ c.phase \in OpenedPhase[g] \ {WritePhase[g]} =>
              owed[p][g] \subseteq file(g)'.elements
  BY <1>9
<1>12. /\ c # Idle => c.kind = task[t].kind
       /\ c = Idle => task[t].kind = "scan"
       /\ task[t].kind \in StopKind \/ c = Idle
  BY <1>2, <1>3
<1>13. QED
  BY <1>1, <1>4, <1>5, <1>6, <1>8, <1>10, <1>11, <1>12, FileStep

\* A scan that cannot write, and a call whose step fails otherwise.
LEMMA FailPersistOrder ==
  ASSUME JInv, NEW t \in Task, NEW p, p = Home[t], Confined(t), History(t, p),
         UNCHANGED <<sidecar, baselineFile>>, ~ IsLifecycleCall(t),
         FailPersist(t)
  PROVE  OrderKept(p)
<1>1. /\ task[t].phase \in {"open", "write"} /\ Fails
      /\ UNCHANGED <<engine, sidecar, inventoryFile, baselineFile>>
      /\ task' = [task EXCEPT ![t] = Idle]
  BY DEF FailPersist
<1>2. /\ p \in Process /\ task[t] # Idle /\ task[t].kind \notin StopKind
      /\ engine[p].initialized /\ IInv
  BY <1>1, PersistingCall
<1>3. \A f \in File : ~ Writes(t, f)
  <2>1. failures' # failures
    BY <1>1, <1>2, EngineAssumption DEF Fails, IInv, TypeOK
  <2>2. QED
    BY <1>1, <2>1, QuietPhases DEF Writes
<1>4. Idle.phase \notin StopPhase \cup StartPhase \cup LoadedPhase
  BY DEF Idle, StopPhase, StartPhase, LoadedPhase
<1>5. QED
  BY <1>1, <1>2, <1>3, <1>4, CalmStep

\* All calls on the engine.
LEMMA EngineCallOrder ==
  ASSUME JInv, NEW t \in Task, NEW p, p = Home[t], Confined(t), History(t, p),
         EngineCall(t)
  PROVE  OrderKept(p)
<1>1. UNCHANGED <<sidecar, listened, baselineFile>>
  BY DEF EngineCall
<1>2. CASE EngineStep(t)
  <2>1. CASE FailInit(t) \/ Decide(t)
    <3>1. /\ UNCHANGED <<engine, sidecar, inventoryFile, baselineFile>>
          /\ task' = [task EXCEPT ![t] = Idle]
          /\ task[t].phase \in {"config", "topology", "decide", "scan"}
      BY <1>1, <2>1 DEF FailInit, Decide, At
    <3>2. QED
      BY <3>1, EngineEndStep
  <2>2. CASE OpenInventory(t) \/ PersistInventory(t) \/ WriteInventory(t)
    BY <1>1, <2>2, OpenOrder, PersistOrder, WriteInventoryOrder
  <2>3. CASE LoadConfig(t) \/ InitializeInventory(t) \/ ReadInventory(t)
    BY <1>1, <2>3, LoadConfigOrder, InitializeInventoryOrder, ReadInventoryOrder
  <2>4. CASE IngestTopology(t) \/ LoadPolicy(t) \/ Upsert(t)
    BY <1>1, <2>4, IngestTopologyOrder, LoadPolicyOrder, UpsertOrder
  <2>5. CASE \E found \in SUBSET Resource : Scan(t, found)
    BY <1>1, <2>5, ScanOrder
  <2>6. QED
    BY <1>2, <2>1, <2>2, <2>3, <2>4, <2>5 DEF EngineStep
<1>3. CASE ~ IsLifecycleCall(t) /\ FailPersist(t)
  BY <1>1, <1>3, FailPersistOrder
<1>4. CASE BeginInit(t) \/ BeginScan(t)
  BY <1>1, <1>4, BeginInitOrder
<1>5. CASE BeginResolve(t, "resolve") \/ BeginResolve(t, "surface")
  BY <1>1, <1>5, BeginResolveOrder
<1>6. CASE \E resource \in Resource :
             BeginObserve(t, "observe", resource) \/ BeginObserve(t, "event", resource)
  BY <1>1, <1>6, BeginObserveOrder
<1>7. QED
  BY <1>2, <1>3, <1>4, <1>5, <1>6 DEF EngineCall, BeginHandler
-----------------------------------------------------------------------------
\* Calls on the sidecar that leave the files and the servers alone.
LEMMA BeginStartOrder ==
  ASSUME JInv, NEW t \in Task, NEW p, p = Home[t], Confined(t), History(t, p),
         BeginStart(t)
  PROVE  OrderKept(p)
<1> DEFINE c == Call("start", "config", Of(t).ready)
<1>1. p \in Process /\ IInv
  BY HomeIsAProcess DEF JInv
<1>2. c \in CallRecord /\ c.phase = "config" /\ c.kind = "start"
  BY <1>1, NewCall, OfACall DEF Kind, EnginePhase, Call
<1>3. /\ task' = [task EXCEPT ![t] = c] /\ task[t] = Idle
      /\ sidecar[p].address = NoServer
      /\ UNCHANGED <<engine, sidecar, inventoryFile, baselineFile>>
  BY DEF BeginStart, unchangedFiles, Its
<1> HIDE DEF c
<1>4. engine'[p].initialized \/ engine'[p].profiles = {}
  BY <1>1, <1>3 DEF JInv, LoadedFirst
<1>5. \A f \in File : ~ Writes(t, f)
  BY <1>3, QuietPhases DEF Idle
<1>6. /\ c.phase \notin LoadedPhase /\ c.phase \notin StartPhase
      /\ c.phase \notin StopPhase /\ c.kind \notin StopKind
  BY <1>2 DEF LoadedPhase, StartPhase, StopPhase, StopKind
<1>7. QED
  BY <1>2, <1>3, <1>4, <1>5, <1>6, CalmStep

\* A start whose port is taken, and a stop whose server was closed already.
LEMMA ReturnOrder ==
  ASSUME JInv, NEW t \in Task, NEW p, p = Home[t], Confined(t), History(t, p),
         Returns(t), UNCHANGED <<engine, sidecar>>, unchangedFiles,
         task[t].phase \in {"listen", "refused"}
  PROVE  OrderKept(p)
<1>1. /\ p \in Process /\ IInv /\ task[t] # Idle
      /\ task' = [task EXCEPT ![t] = Idle]
      /\ UNCHANGED <<engine, sidecar, inventoryFile, baselineFile>>
  BY HomeIsAProcess DEF JInv, Idle, Returns, unchangedFiles
<1>2. task[t].kind \in StopKind => task[t].phase = "refused"
  BY <1>1 DEF JInv, PhaseFits, StopPhase
<1>3. engine'[p].initialized \/ engine'[p].profiles = {}
  BY <1>1 DEF JInv, LoadedFirst
<1>4. \A f \in File : ~ Writes(t, f)
  BY QuietPhases
<1>5. Idle.phase \notin StopPhase \cup StartPhase \cup LoadedPhase
  BY DEF Idle, StopPhase, StartPhase, LoadedPhase
<1>6. QED
  BY <1>1, <1>2, <1>3, <1>4, <1>5, CalmStep

\* A start that has a baseline to read.
LEMMA BaselineWaits ==
  ASSUME JInv, NEW t \in Task, NEW p, p = Home[t], Confined(t), History(t, p),
         InitializeBaseline(t), baselineFile # Absent
  PROVE  OrderKept(p)
<1> DEFINE c == [task[t] EXCEPT !.phase = "baseline-reading"]
<1>1. p \in Process /\ IInv /\ task[t] # Idle /\ task[t].phase = "baseline"
  BY HomeIsAProcess DEF JInv, Idle, InitializeBaseline, At
<1>2. task[t] \in CallRecord /\ task[t].kind = "start" /\ engine[p].initialized
  <2>1. task[t] \in CallRecord
    BY <1>1, ACall
  <2>2. PhaseFits(t) /\ task[t].phase \in StartPhase /\ task[t].phase \in LoadedPhase
    BY <1>1 DEF JInv, StartPhase, LoadedPhase
  <2>3. QED
    BY <2>1, <2>2 DEF PhaseFits
<1>3. c \in CallRecord /\ c.phase = "baseline-reading" /\ c.kind = "start"
  BY <1>2 DEF CallRecord, LifecyclePhase
<1>4. /\ task' = [task EXCEPT ![t] = c]
      /\ UNCHANGED <<engine, sidecar, inventoryFile, baselineFile>>
  BY DEF InitializeBaseline, Goto, unchangedFiles
<1> HIDE DEF c
<1>5. \A f \in File : ~ Writes(t, f)
  BY <1>1, QuietPhases
<1>6. /\ c.phase \in StartPhase /\ c.phase \in LoadedPhase
      /\ c.phase \notin StopPhase /\ c.kind \notin StopKind
  BY <1>3 DEF StartPhase, LoadedPhase, StopPhase, StopKind
<1>7. task[t].kind \notin StopKind
  BY <1>2 DEF StopKind
<1>8. QED
  BY <1>1, <1>2, <1>3, <1>4, <1>5, <1>6, <1>7, CalmStep

LEMMA LearnOrder ==
  ASSUME JInv, NEW t \in Task, NEW p, p = Home[t], Confined(t), History(t, p),
         Learn(t)
  PROVE  OrderKept(p)
<1> DEFINE learned == {o.resource : o \in task[t].observed}
<1>1. p \in Process /\ IInv /\ task[t] # Idle /\ task[t].phase = "learn"
  BY HomeIsAProcess DEF JInv, Idle, Learn, At
<1>2. task[t].kind \notin StopKind /\ engine[p].initialized
  BY <1>1 DEF JInv, PhaseFits, StopPhase, LoadedPhase
<1>3. /\ task' = [task EXCEPT ![t] = Idle]
      /\ UNCHANGED <<engine, inventoryFile, baselineFile>>
  BY DEF Learn, unchangedFiles
<1>4. sidecar' = [sidecar EXCEPT ![p].patterns = @ \cup learned]
  BY DEF Learn
<1> HIDE DEF learned
<1>5. /\ sidecar'[p].server = sidecar[p].server
      /\ sidecar'[p].address = sidecar[p].address
      /\ sidecar'[p].listening = sidecar[p].listening
      /\ sidecar[p].patterns \subseteq sidecar'[p].patterns
  <2>1. sidecar[p] \in Sidecar /\ p \in DOMAIN sidecar
    BY <1>1 DEF IInv, TypeOK
  <2>2. QED
    BY <1>4, <2>1 DEF Sidecar
<1>6. \A f \in File : ~ Writes(t, f)
  BY <1>1, QuietPhases
<1>7. Idle.phase \notin StopPhase \cup StartPhase \cup LoadedPhase
  BY DEF Idle, StopPhase, StartPhase, LoadedPhase
<1>8. QED
  BY <1>1, <1>2, <1>3, <1>5, <1>6, <1>7, CalmStep
-----------------------------------------------------------------------------
\* Steps that create, open or close a server.

\* While no stop has anything to save nothing is owed.
LEMMA NothingOwed ==
  ASSUME NEW p, owed'[p] = Nothing
  PROVE  Owes(p)'
  BY DEF Owes, Nothing

\* A start or stop that goes on is the only one, and nobody else of the process
\* has the baseline open.
LEMMA TheOnlyCall ==
  ASSUME JInv, NEW t \in Task, NEW p, p = Home[t], Orderly(p),
         IsLifecycleCall(t)
  PROVE  /\ LifecycleCalls(p) = {t}
         /\ \A u \in TasksOf(p) \ {t} :
              task[u].phase \notin {"baseline-open", "baseline-write"}
         /\ task[t].kind \in {"start"} \cup StopKind
         /\ task[t].kind = "start" => owed[p] = Nothing
<1>1. LifecycleCalls(p) = {t}
  BY DEF Orderly, Lone, LifecycleCalls, TasksOf
<1>2. ASSUME NEW u \in TasksOf(p) \ {t},
             task[u].phase \in {"baseline-open", "baseline-write"}
      PROVE  FALSE
  <2>1. u \in Task /\ IsLifecycleCall(u)
    <3>1. u \in Task
      BY DEF TasksOf
    <3>2. IsLifecycleCall(u) <=> task[u].kind \in StopKind
      BY <1>2, <3>1, PersistingCall
    <3>3. task[u].kind \in StopKind
      BY <1>2, <3>1, PersistingCall
    <3>4. QED
      BY <3>1, <3>2, <3>3
  <2>2. u \in LifecycleCalls(p)
    BY <1>2, <2>1 DEF LifecycleCalls
  <2>3. QED
    BY <1>1, <1>2, <2>2
<1>3. task[t].kind \in {"start"} \cup StopKind
  BY DEF IsLifecycleCall, StopKind
<1>4. task[t].kind = "start" => owed[p] = Nothing
  BY <1>1 DEF Orderly, Owes, StopKind
<1>5. QED
  BY <1>1, <1>2, <1>3, <1>4

\* What is known of a start that goes on.
LEMMA StartingCall ==
  ASSUME JInv, NEW t \in Task, task[t].phase \in StartPhase
  PROVE  /\ task[t] \in CallRecord /\ task[t] # Idle
         /\ task[t].kind = "start" /\ IsLifecycleCall(t)
         /\ engine[Home[t]].initialized
         /\ IInv /\ Home[t] \in Process
<1>1. task[t] # Idle /\ IInv
  BY DEF Idle, JInv, StartPhase
<1>2. task[t] \in CallRecord
  BY <1>1, ACall
<1>3. PhaseFits(t) /\ task[t].phase \in LoadedPhase
  BY DEF JInv, LoadedPhase
<1>4. QED
  BY <1>1, <1>2, <1>3, HomeIsAProcess DEF PhaseFits, IsLifecycleCall

\* The server that is created is the one that the start waits for.
LEMMA CreateServerOrder ==
  ASSUME JInv, NEW t \in Task, NEW p, p = Home[t], Confined(t), History(t, p),
         task[t].phase \in {"baseline", "baseline-reading"},
         NEW patterns \in SUBSET Resource, CreateServer(t, patterns),
         UNCHANGED engine, unchangedFiles
  PROVE  OrderKept(p)
<1> DEFINE c == [task[t] EXCEPT !.phase = "listen"]
<1>1. /\ task[t] \in CallRecord /\ task[t] # Idle
      /\ task[t].kind = "start" /\ IsLifecycleCall(t)
      /\ engine[p].initialized /\ IInv /\ p \in Process
  BY StartingCall DEF StartPhase
<1>2. c \in CallRecord /\ c # Idle /\ c.phase = "listen" /\ c.kind = "start"
  BY <1>1 DEF CallRecord, LifecyclePhase, Idle
<1>3. task' = [task EXCEPT ![t] = c]
  BY DEF CreateServer, Goto
<1> HIDE DEF c
<1>4. PICK new \in Server :
        /\ sidecar' = [sidecar EXCEPT ![p].server = new,
                                      ![p].patterns = patterns]
        /\ listened' = [listened EXCEPT ![t] = new]
  BY DEF CreateServer, Unused
<1>5. /\ sidecar'[p].server = new /\ new # NoServer /\ listened'[t] = new
      /\ sidecar'[p].patterns = patterns
      /\ sidecar'[p].address = sidecar[p].address
      /\ sidecar'[p].listening = sidecar[p].listening
  <2>1. sidecar[p] \in Sidecar /\ p \in DOMAIN sidecar /\ t \in DOMAIN listened
    BY <1>1 DEF IInv, TypeOK
  <2>2. new # NoServer
    BY DEF Server, NoServer
  <2>3. QED
    BY <1>4, <2>1, <2>2 DEF Sidecar
<1>6. /\ task'[t] = c
      /\ t \in TasksOf(p)
      /\ \A u \in LifecycleCalls(p)' \ {t} : u \in LifecycleCalls(p)
  <2>1. /\ p \in Process
        /\ t \in TasksOf(p) /\ task'[t] = c
        /\ \A u \in TasksOf(p) \ {t} :
             task'[u] = task[u] /\ listened'[u] = listened[u]
        /\ \A u \in LifecycleCalls(p) : u \in TasksOf(p) /\ IsLifecycleCall(u)
        /\ \A u \in LifecycleCalls(p)' \ {t} : u \in LifecycleCalls(p)
        /\ \A u \in LifecycleCalls(p) \ {t} : u \in LifecycleCalls(p)'
        /\ t \in LifecycleCalls(p)' <=>
             c # Idle /\ c.kind \in {"start"} \cup StopKind
        /\ t \in LifecycleCalls(p) <=> IsLifecycleCall(t)
    BY <1>1, <1>2, <1>3, CallsOf
  <2>2. QED
    BY <2>1
<1>7. \A u \in TasksOf(p) : PhaseFits(u)'
  <2>1. c.phase \in StartPhase /\ c.phase \notin StopPhase /\ c.kind \notin StopKind
    BY <1>2 DEF StartPhase, StopPhase, StopKind
  <2>2. engine'[p].initialized = engine[p].initialized
    OBVIOUS
  <2>3. QED
    BY <1>1, <1>2, <1>3, <2>1, <2>2, PhasesKeep
<1>8. LoadedFirst(p)'
  BY <1>1 DEF LoadedFirst
<1>9. ASSUME ~ disturbed'[p] PROVE Answers(p)' /\ Owes(p)'
  <2>1. Orderly(p) /\ Answers(p)
    BY <1>9, Undisturbed DEF Orderly
  <2>2. /\ LifecycleCalls(p) = {t}
        /\ \A u \in TasksOf(p) \ {t} :
             task[u].phase \notin {"baseline-open", "baseline-write"}
        /\ owed[p] = Nothing
    BY <1>1, <2>1, TheOnlyCall
  <2>3. Answers(p)'
    <3>1. sidecar[p].listening = {} /\ sidecar[p].address = NoServer
      BY <1>1, <2>1, <2>2 DEF Answers
    <3>2. \A u \in LifecycleCalls(p)' : u = t
      BY <1>6, <2>2
    <3>3. QED
      BY <1>2, <1>5, <1>6, <3>1, <3>2 DEF Answers
  <2>4. Owes(p)'
    <3>1. ~ Stopped(p) /\ ~ At(t, "closing")
      BY <1>5 DEF Stopped, At
    <3>2. owed'[p] = [f \in File |-> IF Overtakes(t, f, p) THEN {} ELSE owed[p][f]]
      BY <1>1, <3>1, HistoryOf
    <3>3. owed'[p] = Nothing
      BY <2>2, <3>2 DEF Nothing
    <3>4. QED
      BY <3>3, NothingOwed
  <2>5. QED
    BY <2>3, <2>4
<1>10. QED
  BY <1>7, <1>8, <1>9 DEF OrderKept

LEMMA BaselineOrder ==
  ASSUME JInv, NEW t \in Task, NEW p, p = Home[t], Confined(t), History(t, p),
         InitializeBaseline(t) \/ ReadBaseline(t)
  PROVE  OrderKept(p)
<1>1. /\ IInv /\ p \in Process /\ UNCHANGED engine /\ unchangedFiles
      /\ sidecar[p].patterns \in SUBSET Resource
      /\ baselineFile.elements \in SUBSET Resource
  BY HomeIsAProcess, OfACall, ContentFits
  DEF JInv, InitializeBaseline, ReadBaseline, Its, Sidecar, IInv, TypeOK
<1>2. CASE InitializeBaseline(t) /\ baselineFile # Absent
  BY <1>2, BaselineWaits
<1>3. CASE InitializeBaseline(t) /\ baselineFile = Absent
  <2>1. /\ task[t].phase \in {"baseline", "baseline-reading"}
        /\ CreateServer(t, sidecar[p].patterns)
    BY <1>3 DEF InitializeBaseline, At, Its
  <2>2. QED
    BY <1>1, <2>1, CreateServerOrder
<1>4. CASE ReadBaseline(t)
  <2>1. /\ task[t].phase \in {"baseline", "baseline-reading"}
        /\ CreateServer(t, baselineFile.elements)
    BY <1>4 DEF ReadBaseline, At
  <2>2. QED
    BY <1>1, <2>1, CreateServerOrder
<1>5. QED
  BY <1>2, <1>3, <1>4

\* The server that listens is the one the start goes on with.
LEMMA ListeningOrder ==
  ASSUME JInv, NEW t \in Task, NEW p, p = Home[t], Confined(t), History(t, p),
         Listening(t)
  PROVE  OrderKept(p)
<1> DEFINE server == sidecar[p].server
           now == sidecar[p].listening \cup {listened[t]}
           address == IF server \in now THEN server ELSE sidecar[p].address
<1>1. /\ task[t] \in CallRecord /\ task[t] # Idle
      /\ task[t].kind = "start" /\ IsLifecycleCall(t)
      /\ engine[p].initialized /\ IInv /\ p \in Process
  BY StartingCall DEF StartPhase, Listening, At
<1>2. /\ task' = [task EXCEPT ![t] = Idle] /\ UNCHANGED engine /\ unchangedFiles
      /\ task[t].phase = "listen" /\ server # NoServer
  BY DEF Listening, Returns, At, Its
<1>3. sidecar' = [sidecar EXCEPT ![p].listening = now, ![p].address = address]
  BY DEF Listening, Its
<1> HIDE DEF now, address
<1>4. /\ sidecar'[p].server = server /\ sidecar'[p].patterns = sidecar[p].patterns
      /\ sidecar'[p].listening = now /\ sidecar'[p].address = address
  <2>1. sidecar[p] \in Sidecar /\ p \in DOMAIN sidecar
    BY <1>1 DEF IInv, TypeOK
  <2>2. QED
    BY <1>3, <2>1 DEF Sidecar
<1>5. /\ task'[t] = Idle
      /\ \A u \in TasksOf(p) \ {t} : task'[u] = task[u]
  BY <1>1, <1>2, TaskStep DEF TasksOf
<1>6. \A u \in TasksOf(p) : PhaseFits(u)'
  <2>1. Idle.phase \notin StopPhase \cup StartPhase \cup LoadedPhase
    BY DEF Idle, StopPhase, StartPhase, LoadedPhase
  <2>2. engine'[p].initialized = engine[p].initialized
    BY <1>2
  <2>3. QED
    BY <1>2, <2>1, <2>2, PhasesKeep
<1>7. LoadedFirst(p)'
  BY <1>1, <1>2 DEF LoadedFirst
<1>8. ASSUME ~ disturbed'[p] PROVE Answers(p)' /\ Owes(p)'
  <2>1. Orderly(p) /\ Answers(p)
    BY <1>8, Undisturbed DEF Orderly
  <2>2. LifecycleCalls(p) = {t} /\ owed[p] = Nothing
    BY <1>1, <2>1, TheOnlyCall
  <2>3. Answers(p)'
    <3>1. sidecar[p].listening = {} /\ server = listened[t]
      BY <1>2, <2>1, <2>2 DEF Answers
    <3>2. LifecycleCalls(p)' = {}
      BY <1>5, <2>2 DEF LifecycleCalls, IsLifecycleCall, TasksOf
    <3>3. now = {server} /\ address = server
      BY <3>1 DEF now, address
    <3>4. QED
      BY <1>2, <1>4, <3>2, <3>3 DEF Answers
  <2>4. Owes(p)'
    <3>1. ~ Stopped(p) /\ ~ At(t, "closing")
      BY <1>2, <1>4 DEF Stopped, At
    <3>2. owed'[p] = [f \in File |-> IF Overtakes(t, f, p) THEN {} ELSE owed[p][f]]
      BY <1>1, <3>1, HistoryOf
    <3>3. owed'[p] = Nothing
      BY <2>2, <3>2 DEF Nothing
    <3>4. QED
      BY <3>3, NothingOwed
  <2>5. QED
    BY <2>3, <2>4
<1>9. QED
  BY <1>6, <1>7, <1>8 DEF OrderKept

\* A stop closes the server that listens, or finds none that does.
LEMMA BeginStopOrder ==
  ASSUME JInv, NEW t \in Task, NEW p, p = Home[t], Confined(t), History(t, p),
         NEW kind \in {"stop", "interrupt"}, BeginStop(t, kind)
  PROVE  OrderKept(p)
<1> DEFINE server == sidecar[p].server
           phase == IF server \in sidecar[p].listening THEN "closing" ELSE "refused"
           c == Call(kind, phase, Of(t).ready)
<1>1. /\ IInv /\ p \in Process /\ task[t] = Idle /\ server # NoServer
      /\ UNCHANGED engine /\ unchangedFiles
      /\ task' = [task EXCEPT ![t] = c]
  BY HomeIsAProcess DEF JInv, BeginStop, Its
<1>2. /\ c \in CallRecord /\ c # Idle /\ c.kind \in StopKind /\ c.kind # "start"
      /\ c.phase = phase
  BY <1>1, NewCall, OfACall DEF Kind, LifecyclePhase, Call, StopKind, Idle
<1> HIDE DEF c
<1>3. engine[p].initialized
  BY <1>1 DEF JInv, LoadedFirst
<1>4. /\ sidecar'[p].server = server /\ sidecar'[p].patterns = sidecar[p].patterns
      /\ sidecar'[p].address = sidecar[p].address
      /\ sidecar'[p].listening = sidecar[p].listening \ {server}
  <2>1. sidecar[p] \in Sidecar /\ p \in DOMAIN sidecar
    BY <1>1 DEF IInv, TypeOK
  <2>2. QED
    BY <2>1 DEF BeginStop, Its, Sidecar
<1>5. /\ task'[t] = c
      /\ \A u \in TasksOf(p) \ {t} : task'[u] = task[u]
  BY <1>1, <1>2, TaskStep DEF TasksOf
<1>6. t \in LifecycleCalls(p)' /\ t \notin LifecycleCalls(p)
  BY <1>1, <1>2, <1>5 DEF LifecycleCalls, TasksOf, IsLifecycleCall, StopKind
<1>7. \A u \in TasksOf(p) : PhaseFits(u)'
  <2>1. c.phase \in StopPhase /\ c.phase \notin StartPhase
    BY <1>2 DEF StopPhase, StartPhase
  <2>2. engine'[p].initialized = engine[p].initialized
    BY <1>1
  <2>3. QED
    BY <1>1, <1>2, <1>3, <2>1, <2>2, PhasesKeep
<1>8. LoadedFirst(p)'
  BY <1>1, <1>3 DEF LoadedFirst
<1>9. ASSUME ~ disturbed'[p] PROVE Answers(p)' /\ Owes(p)'
  <2>1. Answers(p) /\ Owes(p) /\ Lone(p)'
    BY <1>9, Undisturbed DEF Orderly
  <2>2. LifecycleCalls(p) = {} /\ \A u \in LifecycleCalls(p)' : u = t
    <3>1. \A u \in LifecycleCalls(p)' : u = t
      BY <1>6, <2>1 DEF Lone
    <3>2. \A u \in LifecycleCalls(p) : u \in LifecycleCalls(p)'
      BY <1>5, <1>6 DEF LifecycleCalls, TasksOf, IsLifecycleCall
    <3>3. QED
      BY <1>6, <3>1, <3>2
  <2>3. Answers(p)'
    <3>1. /\ sidecar[p].listening = {sidecar[p].address} \ {NoServer}
          /\ sidecar[p].address # NoServer => server = sidecar[p].address
      BY <2>1, <2>2 DEF Answers
    <3>2. sidecar'[p].listening = {}
      BY <1>4, <3>1
    <3>3. c.phase = "refused" => sidecar'[p].address = NoServer
      BY <1>2, <1>4, <3>1
    <3>4. c.phase # "listen"
      BY <1>2
    <3>5. QED
      BY <1>1, <1>2, <1>4, <1>5, <1>6, <2>2, <3>2, <3>3, <3>4 DEF Answers
  <2>4. Owes(p)'
    <3>1. ~ Stopped(p) /\ ~ At(t, "closing")
      BY <1>1, <1>4 DEF Stopped, At, Idle
    <3>2. owed'[p] = [f \in File |-> IF Overtakes(t, f, p) THEN {} ELSE owed[p][f]]
      BY <1>1, <3>1, HistoryOf
    <3>3. owed'[p] = Nothing
      BY <2>1, <2>2, <3>2 DEF Nothing, Owes
    <3>4. QED
      BY <3>3, NothingOwed
  <2>5. QED
    BY <2>3, <2>4
<1>10. QED
  BY <1>7, <1>8, <1>9 DEF OrderKept

\* A stop, as far as it has come.
LEMMA StoppingCall ==
  ASSUME JInv, NEW t \in Task,
         task[t].phase \in {"closing", "baseline-write"}
  PROVE  /\ task[t] \in CallRecord /\ task[t] # Idle
         /\ task[t].kind \in StopKind /\ IsLifecycleCall(t)
         /\ engine[Home[t]].initialized
         /\ IInv /\ Home[t] \in Process
<1>1. task[t] # Idle /\ IInv
  BY DEF Idle, JInv
<1>2. task[t] \in CallRecord
  BY <1>1, ACall
<1>3. /\ PhaseFits(t) /\ task[t].phase \in LoadedPhase
      /\ task[t].phase \in StopPhase
  BY DEF JInv, LoadedPhase, StopPhase
<1>4. task[t].kind \in StopKind /\ engine[Home[t]].initialized
  BY <1>3 DEF PhaseFits
<1>5. QED
  BY <1>1, <1>2, <1>4, HomeIsAProcess DEF IsLifecycleCall, StopKind

\* When the last connection has ended all that is known is owed to the files.
LEMMA ClosedOrder ==
  ASSUME JInv, NEW t \in Task, NEW p, p = Home[t], Confined(t), History(t, p),
         Closed(t)
  PROVE  OrderKept(p)
<1> DEFINE c == [task[t] EXCEPT !.phase = "persist"]
<1>1. /\ task[t] \in CallRecord /\ task[t] # Idle /\ task[t].phase = "closing"
      /\ task[t].kind \in StopKind /\ IsLifecycleCall(t)
      /\ engine[p].initialized /\ IInv /\ p \in Process
  BY StoppingCall DEF Closed, At
<1>2. /\ c \in CallRecord /\ c # Idle /\ c.phase = "persist"
      /\ c.kind \in StopKind /\ c.kind # "start"
  BY <1>1 DEF CallRecord, EnginePhase, Idle, StopKind
<1>3. task' = [task EXCEPT ![t] = c] /\ UNCHANGED engine /\ unchangedFiles
  BY DEF Closed, Goto
<1> HIDE DEF c
<1>4. /\ sidecar'[p].server = sidecar[p].server
      /\ sidecar'[p].patterns = sidecar[p].patterns
      /\ sidecar'[p].address = sidecar[p].address
      /\ sidecar'[p].listening = sidecar[p].listening
  <2>1. sidecar[p] \in Sidecar /\ p \in DOMAIN sidecar
    BY <1>1 DEF IInv, TypeOK
  <2>2. QED
    BY <2>1 DEF Closed, Sidecar
<1>5. /\ task'[t] = c
      /\ \A u \in TasksOf(p) \ {t} : task'[u] = task[u]
  BY <1>2, <1>3, <1>1, TaskStep DEF TasksOf
<1>6. t \in LifecycleCalls(p)'
  BY <1>2, <1>5 DEF LifecycleCalls, TasksOf, IsLifecycleCall, StopKind
<1>7. \A u \in TasksOf(p) : PhaseFits(u)'
  <2>1. c.phase \in StopPhase /\ c.phase \notin StartPhase
    BY <1>2 DEF StopPhase, StartPhase
  <2>2. engine'[p].initialized = engine[p].initialized
    BY <1>3
  <2>3. QED
    BY <1>1, <1>2, <1>3, <2>1, <2>2, PhasesKeep
<1>8. LoadedFirst(p)'
  BY <1>1, <1>3 DEF LoadedFirst
<1>9. ASSUME ~ disturbed'[p] PROVE Answers(p)' /\ Owes(p)'
  <2>1. Orderly(p) /\ Answers(p) /\ Lone(p)'
    BY <1>9, Undisturbed DEF Orderly
  <2>2. LifecycleCalls(p) = {t} /\ LifecycleCalls(p)' = {t}
    BY <1>1, <1>6, <2>1, TheOnlyCall DEF Lone
  <2>3. Answers(p)'
    <3>1. sidecar[p].listening = {} /\ sidecar[p].server # NoServer
      BY <1>1, <2>1, <2>2 DEF Answers
    <3>2. c.phase # "listen" /\ c.phase # "refused"
      BY <1>2
    <3>3. QED
      BY <1>2, <1>4, <1>5, <2>2, <3>1, <3>2 DEF Answers
  <2>4. Known(p)' = Known(p) /\ \A f \in File : file(f)' = file(f)
    BY <1>3, <1>4 DEF Known, file, unchangedFiles
  <2>5. \A f \in File : c.phase \notin {OpenPhase[f], WritePhase[f]} \cup OpenedPhase[f]
    BY <1>2 DEF File, OpenPhase, WritePhase, OpenedPhase
  <2>6. Owes(p)'
    <3>1. ~ Stopped(p) /\ At(t, "closing") /\ ~ At(t, "closing")'
      BY <1>1, <1>2, <1>4, <1>5 DEF Stopped, At
    <3>2. owed'[p] = Known(p)
      BY <1>1, <3>1, HistoryOf
    <3>3. QED
      BY <1>2, <1>5, <2>2, <2>4, <2>5, <3>2 DEF Owes
  <2>7. QED
    BY <2>3, <2>6
<1>10. QED
  BY <1>7, <1>8, <1>9 DEF OrderKept

\* A stop that cannot write disturbs its process.
LEMMA FailStopOrder ==
  ASSUME JInv, NEW t \in Task, NEW p, p = Home[t], Confined(t), History(t, p),
         FailStop(t), Returns(t), UNCHANGED <<engine, sidecar>>
  PROVE  OrderKept(p)
<1>1. /\ p \in Process /\ IInv /\ IsLifecycleCall(t) /\ Fails
      /\ task' = [task EXCEPT ![t] = Idle]
  BY HomeIsAProcess DEF JInv, FailStop, Returns
<1>2. failures' # failures
  BY <1>1, EngineAssumption DEF Fails, IInv, TypeOK
<1>3. disturbed'[p]
  BY <1>1, <1>2, Undisturbed
<1>4. \A u \in TasksOf(p) : PhaseFits(u)'
  <2>1. Idle.phase \notin StopPhase \cup StartPhase \cup LoadedPhase
    BY DEF Idle, StopPhase, StartPhase, LoadedPhase
  <2>2. engine'[p].initialized = engine[p].initialized
    OBVIOUS
  <2>3. QED
    BY <1>1, <2>1, <2>2, PhasesKeep
<1>5. LoadedFirst(p)'
  BY <1>1 DEF LoadedFirst, JInv
<1>6. QED
  BY <1>3, <1>4, <1>5 DEF OrderKept

\* A stop is complete.
LEMMA WriteBaselineOrder ==
  ASSUME JInv, NEW t \in Task, NEW p, p = Home[t], Confined(t), History(t, p),
         WriteBaseline(t), ~ Ended(p)
  PROVE  OrderKept(p)
<1> DEFINE c == IF task[t].kind = "interrupt"
                THEN [task[t] EXCEPT !.phase = "flush"] ELSE Idle
           saved == task[t].saved
<1>1. /\ task[t] \in CallRecord /\ task[t] # Idle
      /\ task[t].phase = "baseline-write"
      /\ task[t].kind \in StopKind /\ IsLifecycleCall(t)
      /\ engine[p].initialized /\ IInv /\ p \in Process
  BY StoppingCall DEF WriteBaseline, At
<1>2. /\ c = Idle \/ c \in CallRecord
      /\ c.phase \in {"idle", "flush"}
      /\ c # Idle => c.kind = "interrupt" /\ c.phase = "flush"
  <2>1. CASE task[t].kind = "interrupt"
    BY <1>1, <2>1 DEF CallRecord, LifecyclePhase
  <2>2. CASE task[t].kind # "interrupt"
    BY <2>2 DEF Idle
  <2>3. QED
    BY <2>1, <2>2
<1>3. /\ task' = [task EXCEPT ![t] = c]
      /\ UNCHANGED <<engine, failures, inventoryFile>>
      /\ baselineFile' \in Written(baselineFile, saved)
  BY DEF WriteBaseline, Goto, Returns
<1> HIDE DEF c, saved
<1>4. /\ sidecar'[p].server = NoServer /\ sidecar'[p].address = NoServer
      /\ sidecar'[p].patterns = sidecar[p].patterns
      /\ sidecar'[p].listening = sidecar[p].listening
  <2>1. sidecar[p] \in Sidecar /\ p \in DOMAIN sidecar
    BY <1>1 DEF IInv, TypeOK
  <2>2. QED
    BY <2>1 DEF WriteBaseline, Sidecar
<1>5. /\ task'[t] = c
      /\ \A u \in TasksOf(p) \ {t} : task'[u] = task[u] /\ u \in Task
  BY <1>1, <1>2, <1>3, TaskStep DEF TasksOf
<1>6. \A u \in TasksOf(p) : PhaseFits(u)'
  <2>1. c = Idle => c.phase \notin StopPhase \cup StartPhase \cup LoadedPhase
    BY DEF Idle, StopPhase, StartPhase, LoadedPhase
  <2>2. c # Idle => c.phase \in StopPhase /\ c.phase \notin StartPhase
                    /\ c.kind \in StopKind
    BY <1>2 DEF StopPhase, StartPhase, StopKind
  <2>3. engine'[p].initialized = engine[p].initialized
    BY <1>3
  <2>4. QED
    BY <1>1, <1>2, <1>3, <2>1, <2>2, <2>3, PhasesKeep
<1>7. LoadedFirst(p)'
  BY <1>1, <1>3 DEF LoadedFirst
<1>8. ASSUME ~ disturbed'[p] PROVE Answers(p)' /\ Owes(p)'
  <2>1. Orderly(p) /\ Answers(p)
    BY <1>8, Undisturbed DEF Orderly, TasksOf
  <2>2. LifecycleCalls(p) = {t}
    BY <1>1, <2>1, TheOnlyCall
  <2>3. sidecar[p].listening = {} /\ sidecar[p].server # NoServer
    BY <1>1, <2>1, <2>2 DEF Answers
  <2>4. Answers(p)'
    <3>1. \A u \in LifecycleCalls(p)' : u = t /\ c # Idle
      BY <1>5, <2>2 DEF LifecycleCalls, TasksOf, IsLifecycleCall
    <3>2. QED
      BY <1>2, <1>4, <1>5, <2>3, <3>1 DEF Answers
  <2>5. Owes(p)'
    <3>1. Stopped(p)
      BY <1>4, <2>3 DEF Stopped
    <3>2. owed'[p] = Nothing
      BY <1>1, <3>1, HistoryOf
    <3>3. QED
      BY <3>2, NothingOwed
  <2>6. QED
    BY <2>4, <2>5
<1>9. QED
  BY <1>6, <1>7, <1>8 DEF OrderKept

\* All calls on the sidecar, unless their process ends with it.
LEMMA SidecarCallOrder ==
  ASSUME JInv, NEW t \in Task, NEW p, p = Home[t], Confined(t), History(t, p),
         SidecarCall(t) \/ SidecarStep(t), ~ Ends(p), ~ Ended(p)
  PROVE  OrderKept(p)
<1>1. CASE SidecarCall(t)
  BY <1>1, BeginStartOrder, BeginStopOrder DEF SidecarCall
<1>2. CASE InitializeBaseline(t) \/ ReadBaseline(t) \/ Listening(t)
  BY <1>2, BaselineOrder, ListeningOrder
<1>3. CASE ListenFails(t) \/ Refused(t)
  <2>1. /\ Returns(t) /\ UNCHANGED <<engine, sidecar>> /\ unchangedFiles
        /\ task[t].phase \in {"listen", "refused"}
    BY <1>3 DEF ListenFails, Refused, At
  <2>2. QED
    BY <2>1, ReturnOrder
<1>4. CASE Closed(t) \/ Learn(t)
  BY <1>4, ClosedOrder, LearnOrder
<1>5. CASE PersistBaseline(t) \/ OpenBaseline(t) \/ WriteBaseline(t)
  BY <1>5, PersistOrder, OpenOrder, WriteBaselineOrder
<1>6. CASE FailStop(t)
  <2>1. Returns(t) /\ UNCHANGED <<engine, sidecar>>
    BY <1>6 DEF FailStop
  <2>2. QED
    BY <1>6, <2>1, FailStopOrder
<1>7. CASE ListeningWithoutServer(t) \/ Flush(t)
  BY <1>7 DEF ListeningWithoutServer, Flush
<1>8. CASE SidecarStep(t)
  BY <1>2, <1>3, <1>4, <1>5, <1>6, <1>7, <1>8 DEF SidecarStep
<1>9. QED
  BY <1>1, <1>8
-----------------------------------------------------------------------------
\* Steps, and the files they change.

\* Who changes a file opens or writes it, and goes on with its process.
LEMMA FileChanges ==
  ASSUME JInv, NEW t \in Task, CallStep(t), NEW f \in File, file(f)' # file(f)
  PROVE  (Opens(t, f) \/ Writes(t, f)) /\ engine'[Home[t]].initialized
<1>1. \/ inventoryFile' # inventoryFile /\ f = "inventory"
      \/ baselineFile' # baselineFile /\ f = "baseline"
  BY DEF File, file
<1>2. \/ f = "inventory" /\ (OpenInventory(t) \/ WriteInventory(t))
      \/ f = "baseline" /\ (OpenBaseline(t) \/ WriteBaseline(t))
  <2>1. CASE EngineCall(t)
    <3>1. inventoryFile' # inventoryFile /\ f = "inventory"
      BY <1>1, <2>1 DEF EngineCall
    <3>2. CASE EngineStep(t)
      BY <3>1, <3>2 DEF EngineStep, LoadConfig, InitializeInventory, ReadInventory,
         IngestTopology, LoadPolicy, FailInit, Decide, Scan, Upsert, PersistInventory
    <3>3. QED
      BY <2>1, <3>1, <3>2 DEF EngineCall, BeginInit, BeginResolve, BeginObserve,
         BeginScan, BeginHandler, FailPersist
  <2>2. CASE SidecarCall(t)
    BY <1>1, <2>2 DEF SidecarCall, BeginStart, BeginStop, unchangedFiles
  <2>3. CASE SidecarStep(t)
    BY <1>1, <2>3 DEF SidecarStep, InitializeBaseline, ReadBaseline, Listening,
       ListeningWithoutServer, ListenFails, Closed, Refused, PersistBaseline,
       OpenBaseline, WriteBaseline, Flush, FailStop, Learn, Ends, unchangedFiles
  <2>4. QED
    BY <2>1, <2>2, <2>3 DEF CallStep
<1>3. /\ task[t].phase \in {"persist", "open", "write", "baseline-persist",
                            "baseline-open", "baseline-write"}
      /\ UNCHANGED engine
  BY <1>2 DEF OpenInventory, WriteInventory, OpenBaseline, WriteBaseline, At
<1>4. /\ task[t] \in CallRecord /\ engine[Home[t]].initialized
      /\ t \in DOMAIN task
  <2>1. IInv /\ task[t] \in CallRecord /\ engine[Home[t]].initialized
    BY <1>3, PersistingCall
  <2>2. QED
    BY <2>1 DEF IInv, TypeOK
<1>5. CASE f = "inventory" /\ OpenInventory(t)
  BY <1>4, <1>5
  DEF Opens, At, OpenPhase, WritePhase, OpenInventory, Goto, CallRecord
<1>6. CASE f = "baseline" /\ OpenBaseline(t)
  BY <1>4, <1>6
  DEF Opens, At, OpenPhase, WritePhase, OpenBaseline, Goto, CallRecord
<1>7. CASE f = "inventory" /\ WriteInventory(t)
  <2>1. task'[t] = AfterPersist(task[t])
    BY <1>4, <1>7 DEF WriteInventory
  <2>2. AfterPersist(task[t]).phase # "write"
    BY <1>4 DEF AfterPersist, CallRecord, Idle
  <2>3. QED
    BY <1>4, <1>7, <2>1, <2>2 DEF Writes, At, WritePhase, WriteInventory, file
<1>8. CASE f = "baseline" /\ WriteBaseline(t)
  <2>1. task'[t].phase \in {"flush", "idle"}
    BY <1>4, <1>8 DEF WriteBaseline, Goto, Returns, CallRecord, Idle
  <2>2. QED
    BY <1>4, <1>8, <2>1 DEF Writes, At, WritePhase, WriteBaseline, file
<1>9. QED
  BY <1>2, <1>3, <1>4, <1>5, <1>6, <1>7, <1>8

\* A process is in order.
InOrder(p) ==
  /\ \A u \in TasksOf(p) : PhaseFits(u)
  /\ LoadedFirst(p)
  /\ ~ disturbed[p] => Orderly(p)

\* The end of a process, and the others.
LEMMA EndsAlone ==
  ASSUME IInv, NEW p \in Process, Ends(p)
  PROVE  /\ Ended(p) /\ unchangedFiles
         /\ \A q \in Process \ {p} :
              /\ engine'[q] = engine[q] /\ sidecar'[q] = sidecar[q]
              /\ \A u \in TasksOf(q) : task'[u] = task[u] /\ listened'[u] = listened[u]
<1>1. /\ engine'[p] = NewEngine /\ sidecar'[p] = NewSidecar
      /\ \A q \in Process \ {p} : engine'[q] = engine[q] /\ sidecar'[q] = sidecar[q]
  BY DEF Ends, IInv, TypeOK
<1>2. QED
  BY <1>1 DEF Ends, Ended, TasksOf

\* After ForgetAll.
LEMMA Forgotten ==
  ASSUME IInv, NEW p \in Process, ForgetAll(p)
  PROVE  /\ disturbed'[p] = FALSE /\ seen'[p] = Nothing /\ owed'[p] = Nothing
         /\ \A q \in Process \ {p} :
              /\ disturbed'[q] = disturbed[q] /\ seen'[q] = seen[q]
              /\ owed'[q] = owed[q]
  BY DEF ForgetAll, IInv, TypeOK

\* A process ends: all are in order.
LEMMA EndingStep ==
  ASSUME JInv, NEW p \in Process, Ended(p), ForgetAll(p), unchangedFiles,
         \A q \in Process \ {p} :
           /\ engine'[q] = engine[q] /\ sidecar'[q] = sidecar[q]
           /\ \A u \in TasksOf(q) : task'[u] = task[u] /\ listened'[u] = listened[u]
  PROVE  \A q \in Process : InOrder(q)'
<1>1. IInv
  BY DEF JInv
<1>2. InOrder(p)'
  BY <1>1, Forgotten, EndedKeeps DEF InOrder, TasksOf
<1>3. ASSUME NEW q \in Process \ {p} PROVE InOrder(q)'
  <2>1. /\ disturbed'[q] = disturbed[q]
        /\ \A f \in File : owed'[q][f] = owed[q][f] \/ owed'[q][f] = {}
        /\ owed[q] = Nothing => owed'[q] = Nothing
    BY <1>1, Forgotten
  <2>2. /\ engine'[q] = engine[q] /\ sidecar'[q] = sidecar[q]
        /\ \A u \in TasksOf(q) : task'[u] = task[u] /\ listened'[u] = listened[u]
    OBVIOUS
  <2>3. \A f \in File :
          \/ file(f)' = file(f)
          \/ \A u \in LifecycleCalls(q) :
               task[u].phase \in OpenedPhase[f] => owed'[q][f] = {}
    BY DEF unchangedFiles, file
  <2>4. /\ \A u \in TasksOf(q) : PhaseFits(u)'
        /\ LoadedFirst(q)'
        /\ ~ disturbed'[q] => Orderly(q)'
    BY <2>1, <2>2, <2>3, OthersKeep
  <2>5. QED
    BY <2>4 DEF InOrder, TasksOf
<1>4. QED
  BY <1>2, <1>3

\* A call goes on: all are in order.
LEMMA GoingOnStep ==
  ASSUME JInv, NEW t \in Task, NEW p, p = Home[t], CallStep(t), Confined(t),
         ~ Ends(p), ~ Ended(p), History(t, p)
  PROVE  \A q \in Process : InOrder(q)'
<1>1. IInv /\ p \in Process
  BY HomeIsAProcess DEF JInv
<1>2. InOrder(p)'
  <2>1. OrderKept(p)
    BY EngineCallOrder, SidecarCallOrder DEF CallStep
  <2>2. ~ disturbed'[p] => Lone(p)'
    BY Undisturbed
  <2>3. QED
    BY <2>1, <2>2 DEF InOrder, OrderKept, Orderly, TasksOf
<1>3. ASSUME NEW q \in Process \ {p} PROVE InOrder(q)'
  <2>1. /\ disturbed'[q] = disturbed[q]
        /\ owed'[q] =
             [f \in File |-> IF Overtakes(t, f, q) THEN {} ELSE owed[q][f]]
    <3>1. \A r \in Process \ {p} :
            /\ disturbed'[r] = disturbed[r]
            /\ owed'[r] =
                 [f \in File |-> IF Overtakes(t, f, r) THEN {} ELSE owed[r][f]]
      BY <1>1, HistoryOf
    <3>2. QED
      BY <1>3, <3>1
  <2>2. /\ \A f \in File : owed'[q][f] = owed[q][f] \/ owed'[q][f] = {}
        /\ owed[q] = Nothing => owed'[q] = Nothing
    BY <2>1 DEF Nothing
  <2>3. /\ engine'[q] = engine[q] /\ sidecar'[q] = sidecar[q]
        /\ \A u \in TasksOf(q) : task'[u] = task[u] /\ listened'[u] = listened[u]
    BY <1>3 DEF Confined, TasksOf
  <2>4. ASSUME NEW f \in File, file(f)' # file(f)
        PROVE  \A u \in LifecycleCalls(q) :
                 task[u].phase \in OpenedPhase[f] => owed'[q][f] = {}
    <3>1. Opens(t, f) \/ Writes(t, f)
      BY <2>4, FileChanges
    <3>2. \A u \in LifecycleCalls(q) : u # t
      BY <1>3 DEF LifecycleCalls, TasksOf
    <3>3. QED
      BY <2>1, <3>1, <3>2 DEF Overtakes
  <2>5. \A f \in File :
          \/ file(f)' = file(f)
          \/ \A u \in LifecycleCalls(q) :
               task[u].phase \in OpenedPhase[f] => owed'[q][f] = {}
    BY <2>4
  <2>6. QED
    BY <2>1, <2>2, <2>3, <2>5, OthersKeep DEF InOrder, TasksOf
<1>4. QED
  BY <1>2, <1>3

LEMMA OrderInit == Init => JInv
<1> SUFFICES ASSUME Init PROVE JInv
  OBVIOUS
<1>1. IInv
  BY InitSound
<1>2. \A t \in Task : PhaseFits(t)
  BY DEF Init, PhaseFits, Idle, LoadedPhase, StartPhase, StopPhase
<1>3. ASSUME NEW p \in Process PROVE LoadedFirst(p) /\ Orderly(p)
  <2>1. LifecycleCalls(p) = {}
    BY DEF Init, LifecycleCalls, IsLifecycleCall, TasksOf
  <2>2. LoadedFirst(p) /\ Lone(p) /\ Answers(p)
    BY <2>1 DEF Init, LoadedFirst, Lone, Answers, NewEngine, NewSidecar
  <2>3. Owes(p)
    BY <2>1 DEF Init, Owes, Nothing
  <2>4. QED
    BY <2>2, <2>3 DEF Orderly
<1>4. QED
  BY <1>1, <1>2, <1>3 DEF JInv

LEMMA OrderStep == JInv /\ [Next]_vars => JInv'
<1> SUFFICES ASSUME JInv, [Next]_vars PROVE JInv'
  OBVIOUS
<1>1. IInv /\ IInv'
  BY StepSound DEF JInv
<1>2. SUFFICES ASSUME ~ UNCHANGED vars PROVE \A p \in Process : InOrder(p)'
  <2>1. CASE UNCHANGED vars
    BY <1>1, <2>1
    DEF JInv, PhaseFits, LoadedFirst, Orderly, Lone, Answers, Owes,
        LifecycleCalls, IsLifecycleCall, TasksOf, Known, file, vars, engineVars
  <2>2. CASE \A p \in Process : InOrder(p)'
    <3>1. \A t \in Task : PhaseFits(t)'
      BY <2>2, HomeIsAProcess DEF InOrder, TasksOf
    <3>2. QED
      BY <1>1, <2>2, <3>1 DEF JInv, InOrder
  <2>3. QED
    BY <1>2, <2>1, <2>2
<1>3. ASSUME NEW t \in Task, CallStep(t), Ended(Home[t]), ForgetAll(Home[t])
      PROVE  \A p \in Process : InOrder(p)'
  <2>1. Home[t] \in Process
    BY HomeIsAProcess
  <2>2. CASE Ends(Home[t])
    BY <1>1, <1>3, <2>1, <2>2, EndsAlone, EndingStep
  <2>3. CASE ~ Ends(Home[t])
    <3>1. Confined(t)
      BY <1>1, <1>3, <2>3, EngineCallKeeps, SidecarCallKeeps DEF CallStep, Kept
    <3>2. unchangedFiles
      <4>1. ~ engine'[Home[t]].initialized
        BY <1>3 DEF Ended, NewEngine
      <4>2. \A f \in File : file(f)' = file(f)
        BY <1>3, <4>1, FileChanges
      <4>3. QED
        BY <4>2 DEF File, file, unchangedFiles
    <3>3. \A q \in Process \ {Home[t]} :
            /\ engine'[q] = engine[q] /\ sidecar'[q] = sidecar[q]
            /\ \A u \in TasksOf(q) :
                 task'[u] = task[u] /\ listened'[u] = listened[u]
      BY <3>1 DEF Confined, TasksOf
    <3>4. QED
      BY <1>3, <2>1, <3>2, <3>3, EndingStep
  <2>4. QED
    BY <2>2, <2>3
<1>4. ASSUME NEW t \in Task, CallStep(t), ~ Ended(Home[t]), History(t, Home[t])
      PROVE  \A p \in Process : InOrder(p)'
  <2>1. ~ Ends(Home[t])
    BY <1>1, <1>4, EndsAlone, HomeIsAProcess
  <2>2. Confined(t)
    BY <1>1, <1>4, <2>1, EngineCallKeeps, SidecarCallKeeps DEF CallStep, Kept
  <2>3. QED
    BY <1>4, <2>1, <2>2, GoingOnStep
<1>5. ASSUME NEW p \in Process, Dies(p), ForgetAll(p)
      PROVE  \A q \in Process : InOrder(q)'
  BY <1>1, <1>5, EndsAlone, EndingStep DEF Dies
<1>6. QED
  BY <1>2, <1>3, <1>4, <1>5 DEF Next

\* The inductive invariant of starts, stops and what is learned.
THEOREM LifecycleOrder == Spec => []JInv
  BY OrderInit, OrderStep, PTL DEF Spec

\* In however many processes: while no start or stop is under way, and none has
\* overlapped another or failed, the server that listens is the one that the
\* address leads to and that the next stop will close.
THEOREM AddressIsRight == Spec => []AddressAnswers
<1>1. JInv => AddressAnswers
  BY DEF JInv, Orderly, Answers, AddressAnswers
<1>2. QED
  BY <1>1, LifecycleOrder, PTL

\* Only a stop that is complete takes the server from a sidecar that goes on.
LEMMA ServerGoes ==
  ASSUME JInv, NEW t \in Task, CallStep(t), NEW p \in Process,
         sidecar[p].server # NoServer, sidecar'[p].server = NoServer, ~ Ended(p)
  PROVE  p = Home[t] /\ WriteBaseline(t)
<1>1. IInv /\ Home[t] \in Process
  BY HomeIsAProcess DEF JInv
<1>2. ~ Ends(Home[t])
  <2>1. CASE p = Home[t]
    BY <1>1, <2>1, EndsAlone
  <2>2. CASE p # Home[t]
    <3>1. Ends(Home[t]) => sidecar'[p] = sidecar[p]
      BY <1>1, <2>2, EndsAlone
    <3>2. QED
      BY <3>1
  <2>3. QED
    BY <2>1, <2>2
<1>3. Confined(t)
  BY <1>1, <1>2, EngineCallKeeps, SidecarCallKeeps DEF CallStep, Kept
<1>4. p = Home[t]
  BY <1>3 DEF Confined
<1>5. sidecar[p] \in Sidecar /\ p \in DOMAIN sidecar
  BY <1>1 DEF IInv, TypeOK
<1>6. CASE EngineCall(t)
  BY <1>6 DEF EngineCall
<1>7. CASE SidecarCall(t)
  <2>1. \A kind : BeginStop(t, kind) => sidecar'[p].server = sidecar[p].server
    BY <1>4, <1>5 DEF BeginStop, Sidecar
  <2>2. QED
    BY <1>7, <2>1 DEF SidecarCall, BeginStart
<1>8. CASE SidecarStep(t)
  <2>1. \A patterns : ~ CreateServer(t, patterns)
    BY <1>4, <1>5 DEF CreateServer, Sidecar, Unused, Server, NoServer
  <2>2. Listening(t) => sidecar'[p].server = sidecar[p].server
    BY <1>4, <1>5 DEF Listening, Sidecar
  <2>3. Closed(t) \/ Learn(t) => sidecar'[p].server = sidecar[p].server
    BY <1>4, <1>5 DEF Closed, Learn, Sidecar
  <2>4. CASE WriteBaseline(t)
    BY <1>4, <2>4
  <2>5. CASE ~ WriteBaseline(t)
    <3>1. UNCHANGED sidecar
      BY <1>2, <1>8, <2>1, <2>2, <2>3, <2>5
      DEF SidecarStep, InitializeBaseline, ReadBaseline, ListeningWithoutServer,
          ListenFails, Refused, PersistBaseline, OpenBaseline, Flush, FailStop
    <3>2. QED
      BY <3>1
  <2>6. QED
    BY <2>4, <2>5
<1>9. QED
  BY <1>6, <1>7, <1>8 DEF CallStep

\* What the complete stop owed is in its files.
LEMMA CompleteStop ==
  ASSUME JInv, NEW t \in Task, NEW p, p = Home[t], WriteBaseline(t),
         ~ disturbed[p], NEW f \in File
  PROVE  owed[p][f] \subseteq file(f)'.elements
<1>1. /\ task[t].kind \in StopKind /\ IsLifecycleCall(t)
      /\ task[t].phase = "baseline-write" /\ p \in Process
  BY StoppingCall DEF WriteBaseline, At
<1>2. Owes(p) /\ t \in LifecycleCalls(p)
  BY <1>1 DEF JInv, Orderly, LifecycleCalls, TasksOf
<1>3. CASE f = "inventory"
  <2>1. task[t].phase \in OpenedPhase[f] \ {WritePhase[f]}
    BY <1>1, <1>3 DEF OpenedPhase, WritePhase
  <2>2. owed[p][f] \subseteq file(f).elements
    BY <1>2, <2>1 DEF Owes
  <2>3. file(f)' = file(f)
    BY <1>3 DEF WriteBaseline, file
  <2>4. QED
    BY <2>2, <2>3
<1>4. CASE f = "baseline"
  <2>1. task[t].phase = WritePhase[f]
    BY <1>1, <1>4 DEF WritePhase
  <2>2. /\ owed[p][f] \subseteq task[t].saved
        /\ owed[p][f] = {} \/ file(f) = Truncated
    BY <1>2, <2>1 DEF Owes
  <2>3. /\ file(f) = baselineFile /\ file(f)' = baselineFile'
        /\ baselineFile' \in Written(baselineFile, task[t].saved)
    BY <1>4 DEF file, WriteBaseline
  <2>4. CASE file(f) = Truncated
    BY <2>2, <2>3, <2>4, WrittenHas
  <2>5. QED
    BY <2>2, <2>4
<1>5. QED
  BY <1>3, <1>4 DEF File

\* Once a stop is complete all that its process had learned when the last
\* connection ended is in its files, however many processes start, stop, write
\* and die meanwhile; unless somebody else has opened them since.
THEOREM StopsKeep == Spec => StopKeepsWhatWasLearned
<1>1. ASSUME JInv, [Next]_vars
      PROVE  [\A p \in Process :
                Stopped(p) /\ ~ disturbed[p] =>
                  \A f \in File : owed[p][f] \subseteq file(f)'.elements]_vars
  <2>1. SUFFICES ASSUME NEW p \in Process, Stopped(p), ~ disturbed[p], Next
                 PROVE  \A f \in File : owed[p][f] \subseteq file(f)'.elements
    BY <1>1
  <2>2. /\ sidecar[p].server # NoServer /\ sidecar'[p].server = NoServer
        /\ ~ Ended(p)
    BY <2>1 DEF Stopped
  <2>3. ASSUME NEW q \in Process, Dies(q) PROVE FALSE
    <3>1. Ends(q) /\ IInv
      BY <1>1, <2>3 DEF Dies, JInv
    <3>2. p # q => sidecar'[p] = sidecar[p]
      BY <3>1, EndsAlone
    <3>3. p = q => Ended(p)
      BY <3>1, EndsAlone
    <3>4. QED
      BY <2>2, <3>2, <3>3
  <2>4. PICK t \in Task : CallStep(t)
    BY <2>1, <2>3 DEF Next
  <2>5. p = Home[t] /\ WriteBaseline(t)
    BY <1>1, <2>2, <2>4, ServerGoes
  <2>6. QED
    BY <1>1, <2>1, <2>5, CompleteStop
<1>2. QED
  BY <1>1, LifecycleOrder, PTL DEF Spec, StopKeepsWhatWasLearned

-----------------------------------------------------------------------------
(***************************************************************************)
(* What a process has read or written.                                      *)
(***************************************************************************)

\* what it has seen of a file the process knows, and whoever is about to open
\* the file will write it again
Remembers(p) ==
  \A f \in File :
    /\ seen[p][f] \subseteq Known(p)[f]
    /\ \A u \in TasksOf(p) :
         task[u].phase = OpenPhase[f] => seen[p][f] \subseteq task[u].saved

KInv ==
  /\ IInv
  /\ \A p \in Process : Remembers(p)

\* What a step of t notes that its process has seen.
LEMMA SeenOf ==
  ASSUME IInv, NEW t \in Task, NEW p, p = Home[t], History(t, p)
  PROVE  /\ \A f \in File : seen'[p][f] = SeenAfter(t, p, f)
         /\ \A q \in Process \ {p} : seen'[q] = seen[q]
<1> DEFINE now == [f \in File |-> SeenAfter(t, p, f)]
<1>1. seen' = [seen EXCEPT ![p] = now]
  BY DEF History
<1>2. \A f \in File : now[f] = SeenAfter(t, p, f)
  OBVIOUS
<1> HIDE DEF now
<1>3. seen'[p] = now /\ \A q \in Process \ {p} : seen'[q] = seen[q]
  BY <1>1, HomeIsAProcess DEF IInv, TypeOK
<1>4. QED
  BY <1>2, <1>3

\* What is read from a file is known.
LEMMA LoadedHas ==
  ASSUME NEW profiles, NEW Element, NEW content \in Content(Element)
  PROVE  content.elements \subseteq Loaded(profiles, content)
  BY DEF Content, Absent, Truncated, Garbled, Whole, Loaded, Parses

\* what is to be shown of a step of t and a file: what is read is known from
\* then on, nothing else makes anything forgotten, and what is fixed for
\* writing is all that is known
Learns(t, f) ==
  /\ Reads(t, f) => file(f).elements \subseteq Known(Home[t])'[f]
  /\ ~ Reads(t, f) => Known(Home[t])[f] \subseteq Known(Home[t])'[f]
  /\ task'[t].phase = OpenPhase[f] => task'[t].saved = Known(Home[t])[f]

\* It is shown of the inventory
InventoryLearns(t) ==
  LET profiles == engine[Home[t]].profiles IN
  /\ \/ profiles \subseteq profiles' /\ ~ At(t, "reading")
     \/ At(t, "reading") /\ ~ At(t, "reading")' /\ profiles' = Loaded(profiles, inventoryFile)
  /\ task'[t].phase = "open" => task'[t].saved = profiles

\* and of the baseline.
BaselineLearns(t) ==
  LET patterns == sidecar[Home[t]].patterns IN
  /\ \/ patterns \subseteq patterns' /\ ~ At(t, "baseline-reading")
     \/ /\ At(t, "baseline-reading") /\ ~ At(t, "baseline-reading")'
        /\ patterns' = baselineFile.elements
  /\ task'[t].phase = "baseline-open" => task'[t].saved = patterns

LEMMA BothLearn ==
  ASSUME IInv, NEW t \in Task, InventoryLearns(t), BaselineLearns(t),
         NEW f \in File
  PROVE  Learns(t, f)
<1>1. CASE f = "inventory"
  <2>1. inventoryFile.elements \subseteq Loaded(engine[Home[t]].profiles, inventoryFile)
    BY LoadedHas DEF IInv, TypeOK
  <2>2. QED
    BY <1>1, <2>1
    DEF InventoryLearns, Learns, Reads, At, file, Known, OpenPhase, Absent
<1>2. CASE f = "baseline"
  BY <1>2 DEF BaselineLearns, Learns, Reads, At, file, Known, OpenPhase, Absent
<1>3. QED
  BY <1>1, <1>2 DEF File

\* A call that begins reads nothing and saves nothing.
LEMMA BeginningLearns ==
  ASSUME IInv, NEW t \in Task, task[t] = Idle, UNCHANGED sidecar,
         engine'[Home[t]].profiles = engine[Home[t]].profiles,
         task'[t].phase \notin {"open", "baseline-open"}
  PROVE  InventoryLearns(t) /\ BaselineLearns(t)
  BY DEF InventoryLearns, BaselineLearns, At, Idle

LEMMA BeginLearns ==
  ASSUME IInv, NEW t \in Task, UNCHANGED sidecar,
         \/ BeginInit(t) \/ BeginScan(t)
         \/ \E kind \in Kind : BeginResolve(t, kind)
         \/ \E kind \in Kind, resource \in Resource : BeginObserve(t, kind, resource)
  PROVE  InventoryLearns(t) /\ BaselineLearns(t)
<1>1. t \in DOMAIN task /\ Home[t] \in DOMAIN engine /\ engine[Home[t]] \in Engine
  BY HomeIsAProcess DEF IInv, TypeOK
<1>2. task[t] = Idle
  BY DEF BeginInit, BeginScan, BeginResolve, BeginObserve
<1>3. CASE BeginInit(t)
  BY <1>1, <1>2, <1>3, BeginningLearns DEF BeginInit, Call
<1>4. CASE BeginScan(t)
  BY <1>1, <1>2, <1>4, BeginningLearns DEF BeginScan, Call
<1>5. ASSUME NEW kind \in Kind, BeginResolve(t, kind)
      PROVE  InventoryLearns(t) /\ BaselineLearns(t)
  <2>1. task'[t].phase \in {"decide", "config"}
    BY <1>1, <1>5 DEF BeginResolve, Call
  <2>2. engine'[Home[t]].profiles = engine[Home[t]].profiles
    BY <1>1, <1>5 DEF BeginResolve, Engine
  <2>3. QED
    BY <1>2, <2>1, <2>2, BeginningLearns
<1>6. ASSUME NEW kind \in Kind, NEW resource \in Resource,
             BeginObserve(t, kind, resource)
      PROVE  InventoryLearns(t) /\ BaselineLearns(t)
  BY <1>1, <1>2, <1>6, BeginningLearns DEF BeginObserve, Call
<1>7. QED
  BY <1>3, <1>4, <1>5, <1>6

\* The steps of calls on the engine: one reads, one fixes what it will write.
LEMMA EngineStepLearns ==
  ASSUME IInv, NEW t \in Task, UNCHANGED sidecar, EngineStep(t) \/ FailPersist(t)
  PROVE  InventoryLearns(t) /\ BaselineLearns(t)
<1>1. t \in DOMAIN task /\ Home[t] \in DOMAIN engine /\ engine[Home[t]] \in Engine
  BY HomeIsAProcess DEF IInv, TypeOK
<1>2. task[t].phase \in EnginePhase /\ task[t] \in CallRecord
  <2>1. task[t].phase \in EnginePhase
    BY DEF EngineStep, EnginePhase, At, LoadConfig, InitializeInventory,
       ReadInventory, IngestTopology, LoadPolicy, FailInit, Decide, Scan, Upsert,
       PersistInventory, OpenInventory, WriteInventory, FailPersist
  <2>2. QED
    BY <2>1, ACall DEF EnginePhase, Idle
<1>3. task[t].phase # "baseline-reading"
  BY <1>2 DEF EnginePhase
<1>4. ASSUME task'[t].phase \notin {"open", "baseline-open"},
             task[t].phase # "reading",
             engine[Home[t]].profiles \subseteq engine'[Home[t]].profiles
      PROVE  InventoryLearns(t) /\ BaselineLearns(t)
  BY <1>3, <1>4 DEF InventoryLearns, BaselineLearns, At
<1>5. CASE LoadConfig(t) \/ IngestTopology(t)
  BY <1>1, <1>2, <1>4, <1>5
  DEF LoadConfig, IngestTopology, Goto, At, Engine, CallRecord
<1>6. CASE InitializeInventory(t) \/ ReadInventory(t)
  <2>1. /\ AfterInitialize(task[t]).phase \in {"upsert", "topology"}
    BY <1>2, AfterInitializeFits
  <2>2. CASE InitializeInventory(t)
    <3>1. task'[t].phase \in {"upsert", "topology", "reading"}
      BY <1>1, <1>2, <2>1, <2>2 DEF InitializeInventory, CallRecord
    <3>2. engine'[Home[t]].profiles = engine[Home[t]].profiles
      BY <1>1, <2>2 DEF InitializeInventory, Engine
    <3>3. QED
      BY <1>4, <2>2, <3>1, <3>2 DEF InitializeInventory, At
  <2>3. CASE ReadInventory(t)
    <3>1. task'[t].phase \in {"upsert", "topology"}
      BY <1>1, <2>1, <2>3 DEF ReadInventory
    <3>2. engine'[Home[t]].profiles =
            Loaded(engine[Home[t]].profiles, inventoryFile)
      BY <1>1, <2>3 DEF ReadInventory, Engine
    <3>3. QED
      BY <1>3, <2>3, <3>1, <3>2
      DEF ReadInventory, InventoryLearns, BaselineLearns, At
  <2>4. QED
    BY <1>6, <2>2, <2>3
<1>7. CASE LoadPolicy(t)
  <2>1. task'[t].phase \in {"idle", "baseline", "scan", "decide"}
    BY <1>1, <1>2, <1>7, AfterInitFits DEF LoadPolicy
  <2>2. engine'[Home[t]].profiles = engine[Home[t]].profiles
    BY <1>1, <1>7 DEF LoadPolicy, Engine
  <2>3. QED
    BY <1>4, <1>7, <2>1, <2>2 DEF LoadPolicy, At
<1>8. CASE FailInit(t) \/ Decide(t) \/ FailPersist(t)
  BY <1>1, <1>4, <1>8 DEF FailInit, Decide, FailPersist, At, Idle
<1>9. ASSUME NEW found \in SUBSET Resource, Scan(t, found)
      PROVE  InventoryLearns(t) /\ BaselineLearns(t)
  <2>1. task'[t].phase \in {"idle", "initialize"}
    BY <1>1, <1>2, <1>9 DEF Scan, Idle, CallRecord
  <2>2. QED
    BY <1>4, <1>9, <2>1 DEF Scan, At
<1>10. CASE Upsert(t)
  <2>1. task'[t].phase \in {"idle", "persist", "learn"}
    BY <1>1, <1>2, <1>10 DEF Upsert, Idle, CallRecord
  <2>2. engine[Home[t]].profiles \subseteq engine'[Home[t]].profiles
    BY <1>1, <1>10 DEF Upsert, Engine
  <2>3. QED
    BY <1>4, <1>10, <2>1, <2>2 DEF Upsert, At
<1>11. CASE PersistInventory(t)
  BY <1>1, <1>2, <1>11
  DEF PersistInventory, InventoryLearns, BaselineLearns, At, Of, CallRecord
<1>12. CASE OpenInventory(t)
  BY <1>1, <1>2, <1>4, <1>12 DEF OpenInventory, Goto, At, CallRecord
<1>13. CASE WriteInventory(t)
  <2>1. AfterPersist(task[t]).phase \in {"idle", "baseline-persist"}
    BY <1>2 DEF AfterPersist, Idle, CallRecord
  <2>2. QED
    BY <1>1, <1>4, <1>13, <2>1 DEF WriteInventory, At
<1>14. QED
  BY <1>5, <1>6, <1>7, <1>8, <1>9, <1>10, <1>11, <1>12, <1>13 DEF EngineStep

LEMMA EngineCallLearns ==
  ASSUME IInv, NEW t \in Task, EngineCall(t)
  PROVE  InventoryLearns(t) /\ BaselineLearns(t)
<1>1. UNCHANGED sidecar
  BY DEF EngineCall
<1>2. CASE EngineStep(t) \/ FailPersist(t)
  BY <1>1, <1>2, EngineStepLearns
<1>3. \/ EngineStep(t) \/ FailPersist(t)
      \/ BeginInit(t) \/ BeginScan(t)
      \/ \E kind \in Kind : BeginResolve(t, kind)
      \/ \E kind \in Kind, resource \in Resource : BeginObserve(t, kind, resource)
  BY DEF EngineCall, BeginHandler, Kind
<1>4. QED
  BY <1>1, <1>2, <1>3, BeginLearns

\* The sidecar's own steps: they leave the engine alone.
LEMMA SidecarCallLearns ==
  ASSUME IInv, NEW t \in Task, SidecarCall(t) \/ SidecarStep(t), ~ Ends(Home[t])
  PROVE  InventoryLearns(t) /\ BaselineLearns(t)
<1>1. /\ t \in DOMAIN task /\ Home[t] \in DOMAIN sidecar
      /\ sidecar[Home[t]] \in Sidecar
  BY HomeIsAProcess DEF IInv, TypeOK
<1>2. ASSUME task'[t].phase \notin {"open", "baseline-open"},
             task[t].phase \notin {"reading", "baseline-reading"}, UNCHANGED engine,
             sidecar[Home[t]].patterns \subseteq sidecar'[Home[t]].patterns
      PROVE  InventoryLearns(t) /\ BaselineLearns(t)
  BY <1>2 DEF InventoryLearns, BaselineLearns, At
<1>3. CASE BeginStart(t)
  BY <1>1, <1>2, <1>3 DEF BeginStart, Call, Idle
<1>4. ASSUME NEW kind, BeginStop(t, kind)
      PROVE  InventoryLearns(t) /\ BaselineLearns(t)
  <2>1. task'[t].phase \in {"closing", "refused"}
    BY <1>1, <1>4 DEF BeginStop, Call
  <2>2. sidecar'[Home[t]].patterns = sidecar[Home[t]].patterns
    BY <1>1, <1>4 DEF BeginStop, Sidecar
  <2>3. QED
    BY <1>2, <1>4, <2>1, <2>2 DEF BeginStop, Idle
<1>5. CASE SidecarCall(t)
  BY <1>3, <1>4, <1>5 DEF SidecarCall
<1>6. ASSUME task[t].phase \in LifecyclePhase PROVE task[t] \in CallRecord
  BY <1>6, ACall DEF LifecyclePhase, Idle
<1>7. CASE InitializeBaseline(t)
  <2>1. task[t] \in CallRecord
    BY <1>6, <1>7 DEF InitializeBaseline, At, LifecyclePhase
  <2>2. task'[t].phase \in {"listen", "baseline-reading"}
    BY <1>1, <1>7, <2>1 DEF InitializeBaseline, CreateServer, Goto, CallRecord
  <2>3. sidecar'[Home[t]].patterns = sidecar[Home[t]].patterns
    BY <1>1, <1>7 DEF InitializeBaseline, CreateServer, Its, Sidecar
  <2>4. QED
    BY <1>2, <1>7, <2>2, <2>3 DEF InitializeBaseline, At
<1>8. CASE ReadBaseline(t)
  <2>1. task[t] \in CallRecord
    BY <1>6, <1>8 DEF ReadBaseline, At, LifecyclePhase
  <2>2. task'[t].phase = "listen"
    BY <1>1, <1>8, <2>1 DEF ReadBaseline, CreateServer, Goto, CallRecord
  <2>3. sidecar'[Home[t]].patterns = baselineFile.elements
    BY <1>1, <1>8 DEF ReadBaseline, CreateServer, Sidecar
  <2>4. QED
    BY <1>8, <2>2, <2>3 DEF ReadBaseline, At, InventoryLearns, BaselineLearns
<1>9. CASE Listening(t) \/ ListenFails(t) \/ Refused(t) \/ FailStop(t)
  <2>1. task'[t].phase = "idle"
    BY <1>1, <1>9 DEF Listening, ListenFails, Refused, FailStop, Returns, Idle
  <2>2. sidecar'[Home[t]].patterns = sidecar[Home[t]].patterns
    BY <1>1, <1>9 DEF Listening, ListenFails, Refused, FailStop, Sidecar
  <2>3. QED
    BY <1>2, <1>9, <2>1, <2>2 DEF Listening, ListenFails, Refused, FailStop, At
<1>10. CASE Closed(t) \/ OpenBaseline(t) \/ WriteBaseline(t)
  <2>1. task[t] \in CallRecord
    BY <1>6, <1>10 DEF Closed, OpenBaseline, WriteBaseline, At, LifecyclePhase
  <2>2. task'[t].phase \in {"persist", "baseline-write", "flush", "idle"}
    BY <1>1, <1>10, <2>1
    DEF Closed, OpenBaseline, WriteBaseline, Goto, Returns, Idle, CallRecord
  <2>3. sidecar'[Home[t]].patterns = sidecar[Home[t]].patterns
    BY <1>1, <1>10 DEF Closed, OpenBaseline, WriteBaseline, Sidecar
  <2>4. QED
    BY <1>2, <1>10, <2>2, <2>3 DEF Closed, OpenBaseline, WriteBaseline, At
<1>11. CASE PersistBaseline(t)
  <2>1. task[t] \in CallRecord
    BY <1>6, <1>11 DEF PersistBaseline, At, LifecyclePhase
  <2>2. QED
    BY <1>1, <1>11, <2>1
    DEF PersistBaseline, InventoryLearns, BaselineLearns, At, Its, CallRecord
<1>12. CASE Learn(t)
  <2>1. sidecar[Home[t]].patterns \subseteq sidecar'[Home[t]].patterns
    BY <1>1, <1>12 DEF Learn, Sidecar
  <2>2. QED
    BY <1>1, <1>2, <1>12, <2>1 DEF Learn, At, Idle
<1>13. CASE ListeningWithoutServer(t) \/ Flush(t)
  BY <1>13 DEF ListeningWithoutServer, Flush
<1>14. QED
  BY <1>5, <1>7, <1>8, <1>9, <1>10, <1>11, <1>12, <1>13 DEF SidecarStep

\* All steps of calls.
LEMMA CallLearns ==
  ASSUME IInv, NEW t \in Task, CallStep(t), ~ Ends(Home[t]), NEW f \in File
  PROVE  Learns(t, f)
  BY EngineCallLearns, SidecarCallLearns, BothLearn DEF CallStep

\* The process of a call that goes on remembers.
LEMMA CallRemembers ==
  ASSUME KInv, NEW t \in Task, NEW p, p = Home[t], CallStep(t), ~ Ends(p),
         Confined(t), History(t, p)
  PROVE  Remembers(p)'
<1>1. IInv /\ p \in Process /\ Remembers(p)
  BY HomeIsAProcess DEF KInv
<1>2. SUFFICES ASSUME NEW f \in File
               PROVE  /\ seen'[p][f] \subseteq Known(p)'[f]
                      /\ \A u \in TasksOf(p) :
                           task'[u].phase = OpenPhase[f] =>
                             seen'[p][f] \subseteq task'[u].saved
  BY DEF Remembers, TasksOf
<1>3. /\ Learns(t, f)
      /\ seen[p][f] \subseteq Known(p)[f]
      /\ \A u \in TasksOf(p) :
           task[u].phase = OpenPhase[f] => seen[p][f] \subseteq task[u].saved
  BY <1>1, CallLearns DEF Remembers
<1>4. seen'[p][f] = SeenAfter(t, p, f)
  BY <1>1, SeenOf
<1>5. seen'[p][f] \subseteq Known(p)'[f]
  <2>1. \A elements : SeenWith(elements, p, f) \subseteq elements
    BY DEF SeenWith
  <2>2. CASE Reads(t, f)
    <3>1. SeenWith(file(f).elements, p, f) \subseteq file(f).elements
      BY <2>1
    <3>2. QED
      BY <1>3, <1>4, <2>2, <3>1 DEF SeenAfter, Learns
  <2>3. CASE ~ Reads(t, f) /\ Writes(t, f)
    <3>1. SeenWith(task[t].saved \cap Known(p)[f], p, f) \subseteq Known(p)[f]
      BY <2>1
    <3>2. QED
      BY <1>3, <1>4, <2>3, <3>1 DEF SeenAfter, Learns
  <2>4. CASE ~ Reads(t, f) /\ ~ Writes(t, f)
    BY <1>3, <1>4, <2>4 DEF SeenAfter, Learns
  <2>5. QED
    BY <2>2, <2>3, <2>4
<1>6. ASSUME NEW u \in TasksOf(p), task'[u].phase = OpenPhase[f]
      PROVE  seen'[p][f] \subseteq task'[u].saved
  <2>1. \A elements : SeenWith(elements, p, f) \subseteq seen[p][f]
    BY <1>6 DEF SeenWith
  <2>2. seen'[p][f] \subseteq seen[p][f]
    BY <1>4, <2>1 DEF SeenAfter
  <2>3. CASE u = t
    BY <1>3, <1>6, <2>2, <2>3 DEF Learns
  <2>4. CASE u # t
    BY <1>3, <1>6, <2>2, <2>4 DEF Confined, TasksOf
  <2>5. QED
    BY <2>3, <2>4
<1>7. QED
  BY <1>5, <1>6

\* So do those that a step leaves alone, and those that end.
LEMMA OthersRemember ==
  ASSUME KInv, NEW q \in Process,
         engine'[q] = engine[q], sidecar'[q] = sidecar[q], seen'[q] = seen[q],
         \A u \in TasksOf(q) : task'[u] = task[u]
  PROVE  Remembers(q)'
<1>1. Remembers(q) /\ Known(q)' = Known(q)
  BY DEF KInv, Known
<1>2. QED
  BY <1>1 DEF Remembers, TasksOf

LEMMA EndedRemembers ==
  ASSUME KInv, NEW p \in Process, ForgetAll(p)
  PROVE  /\ Remembers(p)'
         /\ \A q \in Process \ {p} : seen'[q] = seen[q]
<1>1. seen'[p] = Nothing /\ \A q \in Process \ {p} : seen'[q] = seen[q]
  BY Forgotten DEF KInv
<1>2. \A f \in File : seen'[p][f] = {}
  BY <1>1 DEF Nothing
<1>3. QED
  BY <1>1, <1>2 DEF Remembers

LEMMA RemembersInit == Init => KInv
<1> SUFFICES ASSUME Init PROVE KInv
  OBVIOUS
<1>1. ASSUME NEW p \in Process PROVE Remembers(p)
  BY DEF Init, Remembers
<1>2. QED
  BY <1>1, InitSound DEF KInv

LEMMA RemembersStep == KInv /\ [Next]_vars => KInv'
<1> SUFFICES ASSUME KInv, [Next]_vars PROVE KInv'
  OBVIOUS
<1>1. IInv /\ IInv'
  BY StepSound DEF KInv
<1>2. SUFFICES \A p \in Process : Remembers(p)'
  BY <1>1 DEF KInv
<1>3. CASE UNCHANGED vars
  BY <1>3 DEF KInv, Remembers, Known, TasksOf, vars, engineVars
<1>4. ASSUME NEW t \in Task, CallStep(t), Confined(t), ~ Ends(Home[t]),
             ForgetAll(Home[t]) \/ History(t, Home[t]), NEW q \in Process
      PROVE  Remembers(q)'
  <2>1. Home[t] \in Process
    BY HomeIsAProcess
  <2>2. CASE q = Home[t]
    BY <1>4, <2>1, <2>2, CallRemembers, EndedRemembers
  <2>3. CASE q # Home[t]
    <3>1. seen'[q] = seen[q]
      BY <1>1, <1>4, <2>1, <2>3, SeenOf, EndedRemembers
    <3>2. /\ engine'[q] = engine[q] /\ sidecar'[q] = sidecar[q]
          /\ \A u \in TasksOf(q) : task'[u] = task[u]
      BY <1>4, <2>3 DEF Confined, TasksOf
    <3>3. QED
      BY <3>1, <3>2, OthersRemember
  <2>4. QED
    BY <2>2, <2>3
<1>5. ASSUME NEW p \in Process, Ends(p), ForgetAll(p), NEW q \in Process
      PROVE  Remembers(q)'
  <2>1. CASE q = p
    BY <1>5, <2>1, EndedRemembers
  <2>2. CASE q # p
    <3>1. /\ engine'[q] = engine[q] /\ sidecar'[q] = sidecar[q]
          /\ \A u \in TasksOf(q) : task'[u] = task[u]
      BY <1>1, <1>5, <2>2, EndsAlone
    <3>2. seen'[q] = seen[q]
      BY <1>5, <2>2, EndedRemembers
    <3>3. QED
      BY <3>1, <3>2, OthersRemember
  <2>3. QED
    BY <2>1, <2>2
<1>6. ASSUME NEW t \in Task, CallStep(t),
             IF Ended(Home[t]) THEN ForgetAll(Home[t]) ELSE History(t, Home[t]),
             NEW q \in Process
      PROVE  Remembers(q)'
  <2>1. CASE Ends(Home[t])
    <3>1. Ended(Home[t]) /\ Home[t] \in Process
      BY <1>1, <2>1, EndsAlone, HomeIsAProcess
    <3>2. QED
      BY <1>5, <1>6, <2>1, <3>1
  <2>2. CASE ~ Ends(Home[t])
    <3>1. Confined(t)
      BY <1>1, <1>6, <2>2, EngineCallKeeps, SidecarCallKeeps DEF CallStep, Kept
    <3>2. QED
      BY <1>4, <1>6, <2>2, <3>1
  <2>3. QED
    BY <2>1, <2>2
<1>7. ASSUME NEW p \in Process, Dies(p), ForgetAll(p), NEW q \in Process
      PROVE  Remembers(q)'
  BY <1>5, <1>7 DEF Dies
<1>8. QED
  BY <1>3, <1>6, <1>7 DEF Next

\* In however many processes, whatever calls overlap, fail or are torn: a
\* process that opens a file has fixed for writing all that it has last read
\* from it or written to it, but for what a load has replaced in memory since.
THEOREM NothingIsForgotten == Spec => NothingReadIsForgotten
<1>1. KInv => [\A f \in File : \A t \in Writers(f) :
                 Opens(t, f) => seen[Home[t]][f] \subseteq task[t].saved]_vars
  <2>1. SUFFICES ASSUME KInv, NEW f \in File, NEW t \in Writers(f), Opens(t, f)
                 PROVE  seen[Home[t]][f] \subseteq task[t].saved
    OBVIOUS
  <2>2. t \in Task /\ Home[t] \in Process /\ t \in TasksOf(Home[t])
    BY HomeIsAProcess DEF Writers, TasksOf
  <2>3. Remembers(Home[t])
    BY <2>1, <2>2 DEF KInv
  <2>4. QED
    BY <2>1, <2>2, <2>3 DEF Remembers, Opens, At
<1>2. QED
  BY <1>1, RemembersInit, RemembersStep, PTL DEF Spec, NothingReadIsForgotten
=============================================================================
