-------------------------- MODULE SidecarLifecycle --------------------------
(***************************************************************************)
(* Starts and stops of the sidecar (mantle-sidecar.ts) by the commands run  *)
(* and sidecar or by an embedding program, over the engine they initialise  *)
(* and the two files a stop leaves behind: what the inventory and what the  *)
(* compatibility baseline (baseline-manager.ts) have learned.  Calls        *)
(* overlap, handlers outlive the connections they answer, an interrupt may  *)
(* come twice, a process may die at any moment, and other processes work    *)
(* on the same files.                                                       *)
(***************************************************************************)
EXTENDS EngineFacade

CONSTANTS
  Workloads,  \* what the programs may do: the kinds of calls a place may hold,
              \* and whether the port of a sidecar is chosen by the system
  MaxServers  \* bound: server objects alive in a process

Kind ==
  {"init", "resolve", "observe", "scan",       \* calls on the engine
   "surface", "event",                         \* handlers of the server
   "start", "stop", "interrupt"}               \* calls on the sidecar

ASSUME LifecycleAssumption ==
  /\ Workloads \subseteq [does : [Task -> SUBSET Kind], ephemeral : BOOLEAN]
  /\ MaxServers \in Nat \ {0}

Server == 1 .. MaxServers

NoServer == 0

MaybeServer == Server \cup {NoServer}

Sidecar ==
  [server    : MaybeServer,     \* this.server
   address   : MaybeServer,     \* the server whose port this.address has
   listening : SUBSET Server,
   closing   : SUBSET Server,   \* connections still open
   patterns  : SUBSET Resource] \* the baseline's state

NewSidecar ==
  [server |-> NoServer, address |-> NoServer, listening |-> {},
   closing |-> {}, patterns |-> {}]

File == {"inventory", "baseline"}

VARIABLES
  workload,      \* what the programs do: never changes
  sidecar,       \* sidecar[p]: of the process p
  listened,      \* listened[t]: the server a start or a stop waits for
  baselineFile,  \* runtime-baseline.json
  disturbed,     \* history: whether two starts or stops of p overlapped, or
                 \* two loads of the inventory, or one failed, since p began
  seen,          \* history: what p has last read from its files, or written
                 \* to them
  owed           \* history: what p knew when the connections of the server
                 \* that it stops had ended, of the files that nobody else has
                 \* opened or written to since the stop opened them

vars == <<engineVars, workload, sidecar, listened, baselineFile,
          disturbed, seen, owed>>

LifecyclePhase ==
  {"baseline", "baseline-reading", "listen", "closing", "refused",
   "baseline-persist", "baseline-open", "baseline-write", "flush", "learn"}

CallRecord ==
  [kind        : Kind,
   phase       : EnginePhase \cup LifecyclePhase,
   ready       : BOOLEAN,
   coordinator : Coordinator \cup {None},
   inited      : BOOLEAN,
   observed    : SUBSET Observation,
   saved       : (SUBSET Observation) \cup (SUBSET Resource)]

TypeOK ==
  /\ engine \in [Process -> Engine]
  /\ DOMAIN task = Task
  /\ \A t \in Task : task[t] = Idle \/ task[t] \in CallRecord
  /\ inventoryFile \in Content(Observation)
  /\ failures \in 0 .. MaxFailures
  /\ workload \in Workloads
  /\ sidecar \in [Process -> Sidecar]
  /\ listened \in [Task -> MaybeServer]
  /\ baselineFile \in Content(Resource)
  /\ disturbed \in [Process -> BOOLEAN]
  /\ seen \in [Process -> [File -> SUBSET (Observation \cup Resource)]]
  /\ owed \in [Process -> [File -> SUBSET (Observation \cup Resource)]]

Init ==
  /\ engine = [p \in Process |-> NewEngine]
  /\ task = [t \in Task |-> Idle]
  /\ inventoryFile = Absent
  /\ failures = 0
  /\ workload \in Workloads
  /\ sidecar = [p \in Process |-> NewSidecar]
  /\ listened = [t \in Task |-> NoServer]
  /\ baselineFile = Absent
  /\ disturbed = [p \in Process |-> FALSE]
  /\ seen = [p \in Process |-> [f \in File |-> {}]]
  /\ owed = [p \in Process |-> [f \in File |-> {}]]
-----------------------------------------------------------------------------
Its(t) == sidecar[Home[t]]

TasksOf(p) == {t \in Task : Home[t] = p}

IsLifecycleCall(t) ==
  task[t] # Idle /\ task[t].kind \in {"start", "stop", "interrupt"}

\* of one process: a port that is given is free for one server of all
PortFree ==
  workload.ephemeral \/ \A p \in Process : sidecar[p].listening = {}

\* a server object nothing refers to
Unused(p) ==
  Server \ (sidecar[p].listening \cup sidecar[p].closing
              \cup {sidecar[p].server, sidecar[p].address}
              \cup {listened[t] : t \in TasksOf(p)})

unchangedFiles == UNCHANGED <<inventoryFile, baselineFile>>

\* the process ends, and begins anew some day
Ends(p) ==
  /\ engine' = [engine EXCEPT ![p] = NewEngine]
  /\ sidecar' = [sidecar EXCEPT ![p] = NewSidecar]
  /\ task' = [t \in Task |-> IF Home[t] = p THEN Idle ELSE task[t]]
  /\ listened' = [t \in Task |-> IF Home[t] = p THEN NoServer ELSE listened[t]]
  /\ unchangedFiles

\* a start or stop returns or throws
Returns(t) ==
  /\ task' = [task EXCEPT ![t] = Idle]
  /\ listened' = [listened EXCEPT ![t] = NoServer]
-----------------------------------------------------------------------------
\* start; with an address it returns that at once
BeginStart(t) ==
  /\ task[t] = Idle
  /\ Its(t).address = NoServer
  /\ task' = [task EXCEPT ![t] = Call("start", "config", Of(t).ready)]
  /\ UNCHANGED <<engine, failures, sidecar, listened>> /\ unchangedFiles

\* createServer and listen, in the step that ends the baseline's initialize
CreateServer(t, patterns) ==
  /\ Unused(Home[t]) # {}
  /\ LET new == CHOOSE s \in Unused(Home[t]) : TRUE IN
     /\ sidecar' = [sidecar EXCEPT ![Home[t]].server = new,
                                   ![Home[t]].patterns = patterns]
     /\ listened' = [listened EXCEPT ![t] = new]
  /\ Goto(t, "listen")

\* CompatibilityBaselineManager.initialize
InitializeBaseline(t) ==
  /\ At(t, "baseline")
  /\ IF baselineFile = Absent
     THEN CreateServer(t, Its(t).patterns)
     ELSE Goto(t, "baseline-reading") /\ UNCHANGED <<sidecar, listened>>
  /\ UNCHANGED <<engine, failures>> /\ unchangedFiles

\* whatever was known is replaced by what the file holds, or by nothing
ReadBaseline(t) ==
  /\ At(t, "baseline-reading")
  /\ CreateServer(t, baselineFile.elements)
  /\ UNCHANGED <<engine, failures>> /\ unchangedFiles

\* The server listens.  The start goes on with this.server, which another
\* start may have replaced: a server that does not listen yet has no address
\* to be read, and the start throws.
Listening(t) ==
  LET p == Home[t]
      now == Its(t).listening \cup {listened[t]}
  IN
  /\ At(t, "listen")
  /\ PortFree
  /\ Its(t).server # NoServer
  /\ sidecar' = [sidecar EXCEPT
                   ![p].listening = now,
                   ![p].address = IF Its(t).server \in now
                                  THEN Its(t).server ELSE @]
  /\ Returns(t)
  /\ UNCHANGED <<engine, failures>> /\ unchangedFiles

\* or a stop has put null in its place: the listener of the event throws
ListeningWithoutServer(t) ==
  /\ At(t, "listen")
  /\ PortFree
  /\ Its(t).server = NoServer
  /\ Ends(Home[t])
  /\ UNCHANGED failures

\* the port is taken: start throws, and this.server stays as it is
ListenFails(t) ==
  /\ At(t, "listen")
  /\ ~ PortFree
  /\ Returns(t)
  /\ UNCHANGED <<engine, failures, sidecar>> /\ unchangedFiles

\* stop, also that of an interrupt of the command sidecar: the server stops
\* listening and its connections are ended; a server that does not listen
\* refuses to be closed.  Without a server stop returns at once.
BeginStop(t, kind) ==
  LET s == Its(t).server IN
  /\ task[t] = Idle
  /\ s # NoServer
  /\ task' = [task EXCEPT ![t] =
                Call(kind, IF s \in Its(t).listening THEN "closing" ELSE "refused",
                     Of(t).ready)]
  /\ sidecar' = IF s \in Its(t).listening
                THEN [sidecar EXCEPT ![Home[t]].listening = @ \ {s},
                                     ![Home[t]].closing = @ \cup {s}]
                ELSE sidecar
  /\ listened' = [listened EXCEPT ![t] = s]
  /\ UNCHANGED <<engine, failures>> /\ unchangedFiles

\* mutant: the inventory is not persisted
Closed_BaselineOnly(t) ==
  /\ At(t, "closing")
  /\ sidecar' = [sidecar EXCEPT ![Home[t]].closing = @ \ {listened[t]}]
  /\ Goto(t, "baseline-persist")
  /\ UNCHANGED <<engine, failures, listened>> /\ unchangedFiles

\* the last connection has ended
Closed(t) ==
  /\ At(t, "closing")
  /\ sidecar' = [sidecar EXCEPT ![Home[t]].closing = @ \ {listened[t]}]
  /\ Goto(t, "persist")
  /\ UNCHANGED <<engine, failures, listened>> /\ unchangedFiles

\* close gives its error once the server is closed: stop throws, and nothing
\* handles what the listener of SIGINT throws
Refused(t) ==
  /\ At(t, "refused")
  /\ listened[t] \notin Its(t).closing
  /\ IF task[t].kind = "interrupt"
     THEN Ends(Home[t])
     ELSE /\ Returns(t)
          /\ UNCHANGED <<engine, sidecar>> /\ unchangedFiles
  /\ UNCHANGED failures

\* CompatibilityBaselineManager.persist: the directory is made, and what is to
\* be written is fixed
PersistBaseline(t) ==
  /\ At(t, "baseline-persist")
  /\ task' = [task EXCEPT ![t].phase = "baseline-open",
                         ![t].saved = Its(t).patterns]
  /\ UNCHANGED <<engine, failures, sidecar, listened>> /\ unchangedFiles

OpenBaseline(t) ==
  /\ At(t, "baseline-open")
  /\ baselineFile' = Truncated
  /\ Goto(t, "baseline-write")
  /\ UNCHANGED <<engine, failures, sidecar, listened, inventoryFile>>

\* mutant: the address of the closed server is kept
WriteBaseline_KeepsAddress(t) ==
  /\ At(t, "baseline-write")
  /\ baselineFile' \in Written(baselineFile, task[t].saved)
  /\ sidecar' = [sidecar EXCEPT ![Home[t]].server = NoServer]
  /\ IF task[t].kind = "interrupt"
     THEN Goto(t, "flush") /\ UNCHANGED listened
     ELSE Returns(t)
  /\ UNCHANGED <<engine, failures, inventoryFile>>

\* the stop is complete; the command flushes its audit log and ends
WriteBaseline(t) ==
  /\ At(t, "baseline-write")
  /\ baselineFile' \in Written(baselineFile, task[t].saved)
  /\ sidecar' = [sidecar EXCEPT ![Home[t]].server = NoServer,
                               ![Home[t]].address = NoServer]
  /\ IF task[t].kind = "interrupt"
     THEN Goto(t, "flush") /\ UNCHANGED listened
     ELSE Returns(t)
  /\ UNCHANGED <<engine, failures, inventoryFile>>

Flush(t) ==
  /\ At(t, "flush")
  /\ Ends(Home[t])
  /\ UNCHANGED failures

\* a file cannot be opened or written: stop throws and leaves server and
\* address as they are, and an interrupt ends the process
FailStop(t) ==
  /\ IsLifecycleCall(t)
  /\ task[t].phase \in {"open", "write", "baseline-open", "baseline-write"}
  /\ Fails
  /\ IF task[t].kind = "interrupt"
     THEN Ends(Home[t])
     ELSE /\ Returns(t)
          /\ UNCHANGED <<engine, sidecar>> /\ unchangedFiles

\* a handler whose request has come in while its server listened
BeginHandler(t, kind) ==
  /\ Its(t).listening # {}
  /\ IF kind = "surface"
     THEN BeginResolve(t, kind)
     ELSE \E resource \in Resource : BeginObserve(t, kind, resource)

\* CompatibilityBaselineManager.observe, of an event it may learn from
Learn(t) ==
  /\ At(t, "learn")
  /\ sidecar' = [sidecar EXCEPT ![Home[t]].patterns =
                    @ \cup {o.resource : o \in task[t].observed}]
  /\ task' = [task EXCEPT ![t] = Idle]
  /\ UNCHANGED <<engine, failures, listened>> /\ unchangedFiles

\* the process is killed
Dies(p) ==
  /\ engine[p] # NewEngine \/ \E t \in TasksOf(p) : task[t] # Idle
  /\ Ends(p)
  /\ UNCHANGED failures
-----------------------------------------------------------------------------
\* a call on the engine, by the program or by the server
EngineCall(t) ==
  /\ \/ \E kind \in workload.does[t] :
          \/ kind = "init" /\ BeginInit(t)
          \/ kind = "resolve" /\ BeginResolve(t, kind)
          \/ /\ kind = "observe"
             /\ \E resource \in Resource : BeginObserve(t, kind, resource)
          \/ kind = "scan" /\ BeginScan(t)
          \/ kind \in {"surface", "event"} /\ BeginHandler(t, kind)
     \/ EngineStep(t)
     \/ ~ IsLifecycleCall(t) /\ FailPersist(t)
  /\ UNCHANGED <<sidecar, listened, baselineFile>>

SidecarCall(t) ==
  \/ "start" \in workload.does[t] /\ BeginStart(t)
  \/ \E kind \in workload.does[t] \cap {"stop", "interrupt"} : BeginStop(t, kind)

SidecarStep(t) ==
  \/ InitializeBaseline(t)
  \/ ReadBaseline(t)
  \/ Listening(t)
  \/ ListeningWithoutServer(t)
  \/ ListenFails(t)
  \/ Closed(t)
  \/ Refused(t)
  \/ PersistBaseline(t)
  \/ OpenBaseline(t)
  \/ WriteBaseline(t)
  \/ Flush(t)
  \/ FailStop(t)
  \/ Learn(t)

CallStep(t) == EngineCall(t) \/ SidecarCall(t) \/ SidecarStep(t)
-----------------------------------------------------------------------------
(***************************************************************************)
(* History.                                                                 *)
(***************************************************************************)
file(f) == IF f = "inventory" THEN inventoryFile ELSE baselineFile

OpenPhase  == [inventory |-> "open",  baseline |-> "baseline-open"]
WritePhase == [inventory |-> "write", baseline |-> "baseline-write"]

Writers(f) == {t \in Task : task[t].phase \in {OpenPhase[f], WritePhase[f]}}

LifecycleCalls(p) == {t \in TasksOf(p) : IsLifecycleCall(t)}

\* t opens f for writing in this step
Opens(t, f) == At(t, OpenPhase[f]) /\ At(t, WritePhase[f])'

\* t writes what f is to hold
Writes(t, f) ==
  /\ At(t, WritePhase[f]) /\ ~ At(t, WritePhase[f])'
  /\ file(f)' \in Written(file(f), task[t].saved)
  /\ failures' = failures

\* of a stop: it has opened f
OpenedPhase ==
  [inventory |-> {"write", "baseline-persist", "baseline-open", "baseline-write"},
   baseline  |-> {"baseline-write"}]

\* t opens, or writes to, what a stop of o has opened
Overtakes(t, f, o) ==
  /\ Opens(t, f) \/ Writes(t, f)
  /\ \E u \in LifecycleCalls(o) \ {t} : task[u].phase \in OpenedPhase[f]

\* t has read f, or found that there is none
Reads(t, f) ==
  LET finds == IF f = "inventory" THEN "initialize" ELSE "baseline"
      reads == IF f = "inventory" THEN "reading" ELSE "baseline-reading"
  IN
  \/ At(t, reads) /\ ~ At(t, reads)'
  \/ At(t, finds) /\ ~ At(t, finds)' /\ file(f) = Absent

Ended(p) == /\ engine'[p] = NewEngine /\ sidecar'[p] = NewSidecar
            /\ \A t \in TasksOf(p) : task'[t] = Idle

\* a stop is complete with this step
Stopped(p) ==
  sidecar[p].server # NoServer /\ sidecar'[p].server = NoServer /\ ~ Ended(p)

\* a call of p disturbs others of p in this step, or fails
Disturbs(t, p) ==
  \/ \E u, v \in LifecycleCalls(p)' : u # v
  \/ Reads(t, "inventory") /\ engine[p].initialized
  \/ failures' # failures /\ IsLifecycleCall(t)

Nothing == [f \in File |-> {}]

Known(p) == [inventory |-> engine[p].profiles, baseline |-> sidecar[p].patterns]

ForgetAll(p) ==
  /\ disturbed' = [disturbed EXCEPT ![p] = FALSE]
  /\ seen' = [seen EXCEPT ![p] = Nothing]
  /\ owed' = [owed EXCEPT ![p] = Nothing]

\* what p has seen of f once it has read or written elements: while another of
\* its calls is about to open f for what it had fixed before, only what p had
\* seen by then too
SeenWith(elements, p, f) ==
  IF \E u \in TasksOf(p) : task'[u].phase = OpenPhase[f]
  THEN seen[p][f] \cap elements ELSE elements

SeenAfter(t, p, f) ==
  IF Reads(t, f) THEN SeenWith(file(f).elements, p, f)
  ELSE IF Writes(t, f) THEN SeenWith(task[t].saved \cap Known(p)[f], p, f)
  ELSE seen[p][f]

History(t, p) ==
  /\ disturbed' = [disturbed EXCEPT ![p] = @ \/ Disturbs(t, p)]
  /\ seen' = [seen EXCEPT ![p] = [f \in File |-> SeenAfter(t, p, f)]]
  /\ owed' = [o \in Process |->
       IF o = p /\ Stopped(p) THEN Nothing
       ELSE IF o = p /\ At(t, "closing") /\ ~ At(t, "closing")' THEN Known(p)
       ELSE [f \in File |-> IF Overtakes(t, f, o) THEN {} ELSE owed[o][f]]]

Next ==
  /\ \/ \E t \in Task :
          /\ CallStep(t)
          /\ IF Ended(Home[t]) THEN ForgetAll(Home[t]) ELSE History(t, Home[t])
     \/ \E p \in Process : Dies(p) /\ ForgetAll(p)
  /\ UNCHANGED workload

Spec == Init /\ [][Next]_vars
-----------------------------------------------------------------------------
(***************************************************************************)
(* Properties.                                                              *)
(***************************************************************************)

\* No request that comes in after an init has completed, and no request of
\* the sidecar at all, is decided without the project's policy or without the
\* inventory: not by a coordinator that another request has made in haste.
GovernedOnceReady ==
  \A t \in Task :
    /\ At(t, "decide")
    /\ task[t].ready \/ task[t].kind = "surface"
    => task[t].coordinator = Complete

\* When no start or stop is under way the server that listens is the one the
\* address leads to and the next stop will close, and there is no other;
\* unless starts and stops have overlapped, or a stop has failed.
AddressAnswers ==
  \A p \in Process :
    ~ disturbed[p] /\ LifecycleCalls(p) = {} =>
      /\ sidecar[p].listening = {sidecar[p].address} \ {NoServer}
      /\ sidecar[p].address # NoServer =>
           sidecar[p].server = sidecar[p].address

\* Once a stop is complete, all that the process had learned when its last
\* connection ended is in its files, unless somebody else has opened them or
\* written to them since the stop did; and unless, since the process began,
\* starts or stops of it have overlapped, the inventory was loaded a second
\* time, or one of its starts or stops has failed.
StopKeepsWhatWasLearned ==
  [][\A p \in Process :
       Stopped(p) /\ ~ disturbed[p] =>
         \A f \in File : owed[p][f] \subseteq file(f)'.elements]_vars

\* A process that opens a file for writing writes again all that it has last
\* read from it or written to it, but for what a load of the file has replaced
\* in memory since, and for what is new in a file that it read or wrote while
\* another of its calls was already about to open that file: whatever overlaps
\* otherwise, nothing is dropped between a load and the stop or scan that
\* writes.  What another process has added to the file since is not kept.
NothingReadIsForgotten ==
  [][\A f \in File : \A t \in Writers(f) :
       Opens(t, f) => seen[Home[t]][f] \subseteq task[t].saved]_vars
=============================================================================
