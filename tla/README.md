# ResiMantle: a verification project in TLA+

ResiMantle wraps a Node.js process. A preload script patches its file, HTTP,
socket, process and worker APIs and asks a local *sidecar* what each access may
see. The sidecar keeps a control session per process, takes heartbeats and
runtime events, derives a posture from the evidence, and lets an engine decide
whether an access gets the real resource, a synthetic one, or nothing.

This directory models that system in TLA+, checks it with TLC on small
instances, and proves with TLAPS, for every value of the constants, what
matters most. `PROJECT.json` lists components, runs, mutants, the source lines
every definition stands for, findings, hazards and theorems. A mutant is a
definition as a plausible bug would make it; it sits in the module above the
definition it replaces, and refutes the property it is listed with.

    tlc -workers 2 -config SidecarEvidence.cfg MCSidecarControl
    tlapm SidecarControlProofs.tla

## 1. Inventory

Paths are under `packages/core/src/`.

| part | state | operations | what is hard |
|---|---|---|---|
| Sidecar control sessions, `runtime/mantle-sidecar.ts` | sessions by token: counters per session and per capability, posture and capability postures, integrity, attestation, alerts, expiry | bootstrap, authorise, heartbeat, runtime event, read/search/http, snapshot | handlers interleave at each await; postures are cached; risk is added on five paths; children inherit; sessions expire and go stale |
| Compatibility baseline, `layers/runtime-monitor/baseline-manager.ts` | counters per read, process and socket pattern; a file | observe, match, allowlist, load, persist | one session's activity loosens all others; the file is written at a clean stop only |
| Sidecar server, `mantle-sidecar.ts`, with the commands `run` and `sidecar` | server, address | start, stop, interrupt, bootstrap scripts | starts, stops and interrupts overlap, handlers outlive a stop, a step of a stop fails |
| Preload client, `runtime/node-preload.ts` | token, its expiry, the promise of an exchange, containment mode | bootstrap exchange, heartbeat, events, requests, renewal after a 401 | independent calls share all of it across awaits; responses overtake each other |
| Preload wrappers, `node-preload.ts` | patched functions, a buffered HTTP request, the containment the process enforces, environments and payloads of its children | fs, http, net, child_process, worker | abort, destroy and double end before and after the sidecar's word; children that start before it, or share an environment |
| Access decision, `layers/access-gatekeeper`, `policy-engine`, `deep-seal/hardening.ts` | statistics and a log; rules | evaluate | four sources of a decision with thresholds of their own must interlock |
| Overlay coordinator, `layers/resin-traps/overlay-coordinator.ts` | none of its own | resolve read, search, http; audit | decides before, answers after several awaits |
| Resource inventory, `resource-inventory.ts` | profiles with risk tags; a file | observe events, infer tags, observe answers, ingest topology and scan findings, load, persist | every answer feeds the next decision; processes share the file |
| Story broker, trap registry and overlays, `resin-traps/` | `stories.json`, `bindings.json`, the event log | look up, bind, save, record a trigger | read-modify-write of files across awaits, crashes, torn writes |
| Canary manager, `resin-traps/canary-manager.ts` | tokens in memory and in `canaries.json` | generate, check, persist | first loads and writes overlap; tokens are saved before the story they are for |
| Prompt canaries, decoys, story catalog, `resin-traps/` | watermarks injected | generate, detect | little: generation of content |
| False victory, shadow sink, `layers/false-victory` | the sink's file | evaluate, write | write after decision |
| Seal manager, `layers/deep-seal/seal-manager.ts` | zones | anomaly, observation, set level, persist, load | escalation stops at the first zone; writes overlap each other and a load |
| Runtime monitor, `layers/runtime-monitor/monitor.ts` | buffer, recent events, alerts, patches, statistics | start, record, alert, flush, stop | all but recording awaits; flushes overlap, file names collide, patches are stacked |
| Mantle session, `runtime/mantle-session.ts`, with profiler and anomaly detector, `layers/behavior-model` | one session; patterns and profiles | start, analyse, stop; record, build, detect | analyses that nobody awaits, restarts |
| Engine, `engine.ts` | configuration, policy, coordinator | init, scan, resolve, observe | init sets them one by one across awaits, and may throw between them; a request that finds no coordinator makes one |
| Surface coat, AI defense, audit, configuration | none; a score per session; a log; none | scanning, printing | little: sequential, pure, or called by nobody |

How they interact. A wrapped process bootstraps a control session with the
bootstrap key and from then on sends everything under the session's token. A
runtime event changes the session's counters, its posture, the baseline and the
inventory. A read, search or HTTP request is authorised, wrapped into an
envelope that carries the session's posture, decided by the coordinator from the
envelope and the inventory, answered by an overlay of the session's story, by
the real resource or by a refusal, audited, and fed back to the inventory. A
heartbeat's response carries the containment modes the process enforces itself
and hands down to the processes and workers it starts. A start of the sidecar
initialises the engine, which loads the inventory, and then the baseline; a stop
writes both; a scan of the same project reads and writes the same inventory. An
overlay that binds a story first has canary tokens made and saved for it.
`resimantle run` does without a sidecar: a monitor inside the process turns
patched calls into events, and a mantle session profiles and scores them and
seals zones.

What makes each part correct, in short: evidence is never lost and never
outlived by a laxer posture (control sessions); no access of a quarantined
session reaches a real resource (decision and coordinator); a client sees one
consistent story (broker), whose credentials are recognised when they come back
(canaries); once an init has completed nothing is decided without the project's
policy (engine); what was learned reaches the disk, and a process writes again
what it has read there (lifecycle); the process keeps a session and learns of
its containment (client); what it enforces reaches its children at birth
(process tree); a wrapped call is answered once, as it was written, from where
the sidecar said (wrapped calls); no event is lost and no patch is left
(monitor); zones are sealed by what was counted, and stay so (session).

## 2. Modules

| module | models |
|---|---|
| `RuntimeEvents` | runtime events, the risk each is worth, what the baseline observes, matches and allows |
| `SidecarPosture` | the postures, their derivation from counters, what each lets through |
| `SidecarControl` | the control sessions: every authenticated handler of the sidecar |
| `QuarantineContract` | abstract: a condemned session is granted nothing |
| `AccessDecision` | the decision pipeline as pure operators: tags, zone, trust, policy, gatekeeper, hardening |
| `SurfaceResolution` | requests being resolved by the coordinator, and the inventory they share |
| `DeceptionStories` | binding, saving and serving stories, with files that tear and a process that dies |
| `CanaryStore` | the canary tokens of a process and their file; composed into `DeceptionStories` |
| `JsonFile` | a file written in place: absent, whole, truncated, garbled |
| `EngineFacade` | the engines and inventories of the processes that work on one project |
| `SidecarLifecycle` | starts, stops and interrupts of sidecars over these engines, and the baseline's file |
| `PreloadClient` | a wrapped process's concurrent calls of the sidecar |
| `Containment` | modes, overrides and allowlist: what a process refuses, what it writes into an environment and reads from one |
| `ProcessTree` | a wrapped process's descendants: processes, programs, workers, what each is handed and whom its session names |
| `SurfaceCalls` | one read, fetch or buffered HTTP request, from the wrapper to the answer |
| `RuntimeMonitor` | events, alerts, the buffer and its flushes, patching and restoring |
| `BehaviorModel` | what is recorded of a resource, its profile, and the score of an access |
| `MantleSession` | analyses, zones and their file, restarts |
| `SidecarControlProofs`, `SurfaceResolutionProofs`, `DeceptionStoriesProofs`, `PreloadClientProofs`, `ProcessTreeProofs`, `SurfaceCallsProofs`, `SidecarLifecycleProofs` | theorems about the module of that name |
| `RunProofs` | theorems about `RuntimeMonitor` and `MantleSession`, which `resimantle run` puts together in one process |
| `MC*` | constants for TLC |

`SidecarPosture` is shared: `SidecarControl` derives postures with it,
`SurfaceResolution` takes a session's posture as an input with every request
(any of them: what `SidecarControl` can reach is a subset), and `PreloadClient`
takes the posture of a session as the sidecar's answer. `SurfaceResolution`
composes `AccessDecision` with the session envelope of `mantle-sidecar.ts`.
`ProcessTree` takes `Containment` for what processes enforce and `SidecarPosture`
for what the sidecar tells them; `SurfaceCalls` takes a source of the answer as
the sidecar's word. `MantleSession` takes its scores from `BehaviorModel`, and
its events from anywhere, since `RuntimeMonitor` may report any.
`SidecarLifecycle` extends `EngineFacade`: they share the calls under way, since
a start runs through an init and a handler through an observation. What a
coordinator decides is in `SurfaceResolution` and what a handler does to its
session in `SidecarControl`; here only what they were given to decide with, and
what they leave behind, is kept. `CanaryStore` and `EngineFacade` take the torn
writes of `JsonFile`.

### SidecarControl

The server is one event loop, so a handler is atomic up to an await. A request
is `Authorize`d in one step (which already charges it to the session and may
find it stale), takes effect when its body is in (`Heartbeat`, `RuntimeEvent`,
`Surface...`), and a surface request is answered in a third step after the
engine. `RejectExpired` removes the record of an expired token that is
presented. `Bootstrap` creates a session, inherits from a live parent and
charges a drifted start, in the order of the code. Time is two countdowns per
session, since the code asks only whether `expiresAt` has passed and whether
the last heartbeat is older than the grace period; `Tick` moves both.

A session is a record with the counters of the code. Risk is capped above the
sealed threshold, counted events by `MaxRuntimeEvents`, drifted fields by
`MaxDrift`: these are bounds of the model, everything that depends on the
counters compares them with constants below the caps. Alerts are the set of
their codes. The attestation is a function from fields to values. The admin
token, which passes every check, is left out.

### AccessDecision and SurfaceResolution

`effectiveDecision` follows the coordinator: infer tags from the inventory,
zone, sensitivity and trust; take the policy's first matching rule, the lowest
priority number first, or its default; ask the gatekeeper with its anomaly
thresholds and hardening rules; take the stricter. Scores are percent. A request
passes `Accept`, `ApplyOverlay`, `CallFallback` and `Answer`, each before an
await; whether a story's asset matches is left open (`matched`), and so is the
answer of the real resolver. `ObserveRuntimeEvent` and `Answer` teach the
inventory. `reached` remembers that the real resolver ran or a real answer was
handed out.

### DeceptionStories

Each `await` of `getOrBindStory`, `saveBinding`, `saveStory` and
`recordTrigger` is a step. `writeFile` is two steps, truncation and writing, and
a file that two writes share may come out garbled; an unreadable file makes the
request fail (`Throw`). `Restart` may happen anywhere and keeps the files only.
A client is an actor in a session, and several actors may share one. `settled`
and `overlap` are history variables: the stories once on disk while nothing was
being saved, and whether two requests have been in progress at once. `MaxRaces`
bounds the requests once two have overlapped, `MaxRequests` all others, so that
one request after another can be followed further than races.

Between the lookup and the first save a call has tokens generated
(`UseTokens`, `LoadTokens`, `OpenTokens`, `WriteTokens`), which loads
`canaries.json` when the process knows no token yet and writes all of them
afterwards; `BeginCheck` is a value somebody comes across, which marks its
token on the same path. The manager ignores a file it cannot read and a write
that fails (`FailToWriteTokens`). The tokens of one story stand as one;
`unsaved` remembers that a write did not happen.

### PreloadClient

`calls[c]` is one run of `postJsonWithAuth`: `exchange` (it sent the bootstrap
key), `granted` (the response is under way), `joined` (it awaits another call's
exchange), `request`, `answered`, `refused`. A promise's continuations run
before the next response is looked at, so an arrival and everything it wakes is
one step. `Known` keeps the model finite: a session neither the process nor a
request of its holds is not told apart from one never issued. The sidecar side
is what `SidecarControl` shows one process for one capability: a posture that
may change with every request, and sessions that are forgotten for ever. A new
token is assumed not to expire within the client's five seconds of skew.

### Containment and ProcessTree

A process record has the containment it enforces, the payload a worker was
given and history: who created it, from which line, under what containment
(`legacy`), what it got at before the first word (`deeds`). An environment
belongs to a process; a worker may have its creator's (`Home`). `StartProcess`
(of a node process or of any other program), `ExecWithCallback` (whose raw
environment is passed on as it is) and `StartWorker` are what a wrapped process
creates, `PlainStarts` what a program starts; `Install` runs the preload of a
child, with the payload or the environment, in the order of the code;
`Bootstrap` and `Heartbeat` bring the sidecar's word in one step, which
`PreloadClient` spells out; `Access` is a read, process or socket the process
attempts. Environment strings are modelled by what serialising and parsing
them keeps: an override is written only where one differs from the mode, an
empty allowlist not at all.

### SurfaceCalls

`call` is chosen at the start. `write`, `end`, `abort`, `destroy` and the header
functions are the client's; `Resolve` is the sidecar's word with what
`attachRealRequest` makes of it; `RunAutoEnd` and `Emit` are the microtasks of
`get` and of a synthetic response; `Responds` and `Fails` are node's. Bodies are
a sequence of numbered writes and ends; two header names, one of them among the
arguments. Timers and backpressure are left out.

### RuntimeMonitor

Handling an event (`HandleEvent`) is synchronous and one step: record, window,
alert, the alert's own event, a flush of a full buffer. `flushBuffer` empties
the buffer and starts a write, which `DirectoryMade`, `WriteDone` and
`FlushFails` carry on; its file is named by the millisecond at which the
directory was found. `BeginStart`, `Activated`, `BeginStop`, `Restored` and
`StopEnds` are the steps between awaits of `start` and `stop`; `patches.stack`
is the chain of originals that collectors saved. `excused` holds the events
whose write failed or whose file name was used again: both can happen and are
told of below.

### BehaviorModel and MantleSession

A factor is the empty set or the set of its score, and the score their average
in percent. `Analyze` is an event with every listener's profiling and scoring
up to the first await, `Judge` the rest: record the anomaly and, when a zone
escalates, start to persist. `OpenFile`, `WriteFile` and `WriteFails` are a
write; `BeginSession`, `FindFile`, `CreateZones`, `LoadZones` a start; `Stop`
builds profiles; `Crash` keeps the file. A zone remembers the level it was
created with and whether it was set by hand; `settled` remembers the levels
that memory had when nobody was using the file, and `disturbed` that two tasks
have used it at once or a write failed.

### EngineFacade and SidecarLifecycle

A process has an engine and perhaps a sidecar; `task[t]` is one call under way
in the process `Home[t]`, and its phase is the await it is at. `BeginInit`,
`LoadConfig`, `InitializeInventory`, `ReadInventory`, `IngestTopology` and
`LoadPolicy` are the stretches of `init` in the order of the code: the
configuration is set first, the policy and the coordinator last, and `FailInit`
leaves what has been set. `BeginResolve` is `getOrCreateOverlayCoordinator`: it
goes through an init when there is no configuration and makes a bare
coordinator when there is one and no coordinator. `BeginObserve`, `BeginScan`,
`Scan` and `Upsert` feed the inventory; `PersistInventory`, `OpenInventory` and
`WriteInventory` are `persist`, which fixes the content before the file is
opened. A profile is kept as the set of who has observed the resource.

`BeginStart` to `Listening` are `start`, `BeginStop` to `WriteBaseline` are
`stop`; `Flush` ends the command `sidecar` after an interrupt. A start that
comes back from `listen` uses `this.server` as it is then
(`Listening`, `ListeningWithoutServer`); `Refused` is the error of closing a
server that does not listen, which nothing handles when it was an interrupt.
`FailPersist` and `FailStop` are writes that fail, `Dies` is a kill. A handler
(`BeginHandler`) needs a listening server only to begin. `workload` says which
calls the programs make, and never changes.

`disturbed`, `seen` and `owed` are history: whether starts or stops of the
process have overlapped or failed, or the inventory was loaded twice; what of
each file the process has last read or written; and what it knew when
its connections had ended, less what another process or another call of its own
has overtaken since.

## 3. Runs

| run | instance | shows |
|---|---|---|
| `SidecarEvidence` | 2 sessions, of which the second is followed as a child of the first, 2 connections, 4 kinds of events, TTL 2, grace 1, up to 3 events and 1 drift; 419,000 states | a session is sealed exactly by its evidence, drift seals for good, blame is accounted for on every path and inherited, postures hold until the session attests itself anew, nothing real beyond quarantine, nothing learned from a restricted session; `ImplementsContract` is the refinement of `QuarantineContract` |
| `SidecarChild` | 2 sessions | finding: a child of a parent sealed by drift starts less confined |
| `SidecarReattest` | 1 session, 1 connection | finding: a session that was late and has re-attested stays restricted |
| `SurfaceRequests` | 2 concurrent requests of 8 payloads under 5 postures, 3 resources, rules, learning; 1.8 million states | a confined session obtains nothing its posture withholds; a stricter posture gets no laxer decision, one named exception apart; refusals last while the other request teaches the inventory |
| `SurfaceObserved` | 1 connection | finding: an observed tag opens a resource sealed by its name |
| `StoryRaces` | 2 connections, 3 clients of 2 actors in 2 sessions, 4 requests or checks of a token, 3 once they overlap, crashes; 4.0 million states | what is served belongs to the client; settled stories stay; without overlap one story per session through every crash, triggers that name it, and stories, tokens and marks that come back together |
| `PreloadSession` | 2 calls, 3 sessions, adaptive mode; 90,000 states, with fairness | no call waits for an exchange that has ended, calls settle, a lost session is recovered, a strict containment is learned of |
| `Descendants` | a root and 2 descendants, 3 control sessions, 4 targets, any postures and learned rules; 974,000 states | children start with what their creator enforced and get at nothing it was refused; the key stays in node; sessions name their parents |
| `InterceptedCalls` | a call of any wrapper, up to 4 writes and ends, 2 headers; 12,500 states, with fairness | the real request arrives as written, and only when the sidecar let it; one response per end; destroyed requests are not sent; every call is answered |
| `MonitorBursts` | 2 callers, 2 starts, 3 events and the alerts they raise within 2 ms, a buffer of 3; 2.3 million states | no event is lost or doubled, no burst goes without an alert, a stop leaves nothing patched |
| `SessionZones` | 2 tasks, 2 resources, one in both of 2 zones, 4 events, 2 starts, a change by hand, crashes; 2.4 million states | levels are exactly what was counted; a restart finds them again |
| `SidecarLifetimes` | 2 processes, 4 calls under way, 1 resource, 2 servers, 1 failing call, crashes, 5 workloads; 1.6 million states | no ready engine and no sidecar decides without policy and inventory; the address leads to the one server that listens; what was learned reaches the files at a stop, and whoever writes a file writes again what it has read there |

All type invariants are proved (section 5); those of `DeceptionStories`,
`SurfaceCalls`, `RuntimeMonitor` and `MantleSession` are checked by their runs as
well.

Why the bounds are enough. *Sidecar*: thresholds are 5 and 9 and events are
worth 1 to 9, so three events and a drift cross every threshold in every order;
two connections are the least that interleave, and handlers touch one session
(two at a bootstrap), so the second session is only needed for lineage.
Therefore the constraint `Lineage` follows two sessions only if one is the child
of the other, and then without passing time and with requests to the child only,
one at a time, as long as there are at most two events and drifted fields in
all. The child inherits from every state that its parent reaches on its own with
up to two of these, late heartbeats included; the proofs need none of this. A
TTL of two ticks with a grace of one gives fresh, stale, and expired sessions. *Surface*: one resource
per zone that a name can have, two of which share a word, so that tags travel
between them; score 0, 60 and 95 lie on all sides of the gatekeeper's
thresholds. *Stories*: three requests are the least that overlap, crash and come
back, and a fourth without overlap finds what the third has bound; one actor is
in both sessions and one session has both actors, so both lookups find and miss.
Three identities are enough for a token that is made, marked after a restart,
and written over by a third call. *Client*: at most three sessions are held by
two calls and the process (checked by the absence of blocking: a call that
bootstraps holds none). Two calls do not let a forced renewal overwrite an
exchange that a third one awaits; that case is covered by the proofs, which hold
for any number. *Tree*: two descendants give a child of each kind, a grandchild
of each and a sibling in a shared environment; the proofs hold for trees of any
size. *Calls*: four actions are two writes and an end on both sides of the
sidecar's word, with one end too many. *Monitor*: the thresholds (2 blocked
events, 1 risky) are crossed by three events in every order, and the buffer by
them and their alerts; two starts are the least that overlap or follow each
other. *Zones*: thresholds of 1, 2 and 3 for the code's 3, 10 and 25, rare up to
1 and stable from 2 for 5 and 50; a restart makes listeners two and a third
start is not needed for that. *Lifetimes*: two calls of start and one of stop
overlap in every order that three can take with two places, and a handler runs
beside them; each further workload puts one more actor on what is shared: the
port of another start, an init under requests and events, a scan of another
process on the same file under a sidecar, a scan beside an init. The workloads
keep apart what does not interact, which one instance with all calls would not
let TLC exhaust. One resource is enough, for it is observed by three sources;
two servers are the most that two starts create, and creating a third one is a
bound (`MaxServers`). One failing call at any of its places is enough for what
an init or a stop leaves half done.

Symmetry is used where the specification does not choose among values
(sessions, connections, attested values, clients' connections), never with a
liveness property.

## 4. Fairness

`SurfaceCalls!Spec` has weak fairness of the microtasks (the event loop runs
them), of the sidecar's word (which includes that the exchange failed) and of
what node and the remote server do with a request that was ended. Nothing is
assumed of the client. `PreloadClient!FairSpec` adds

- `Answering`: a call in progress goes on or its connection fails. The client
  sets no timeout, so this is an assumption about the sidecar and the loopback
  connection, not something the code enforces (a hazard of its own).
- `Beating`: strong fairness of the heartbeat's start (an interval timer that
  is never cleared) and of the success of exchanges and of heartbeats, that is,
  of requests that are tried again and again. Without it a network that drops
  every exchange would refute recovery and say nothing of the client.

The other specifications state safety only. Nothing is assumed about other
calls, about expiry or about the sidecar forgetting sessions, which may happen
again and again. That is why recovery is stated as it is: a process whose
sessions are forgotten faster than it learns of them may never hold a live
token at a moment of rest, but it never keeps one dead token, or none, for
good.

## 5. Theorems

All for arbitrary constants that satisfy the named assumptions
(`ControlAssumption`, `DecisionAssumption`, `ResolutionAssumption`,
`StoriesAssumption`, `ClientAssumption`, `TreeAssumption`, `CallAssumption`,
`MonitorAssumption`, `SessionAssumption`, ...), which TLC evaluates in the runs.
They type the constants, order thresholds as the code's are ordered, and ask for
a default zone.

**Control sessions** (`SidecarControlProofs`). None of the
safety properties is inductive: that drift seals every surface needs that
postures are current, which needs that whatever a handler changes is refreshed;
that a session is sealed for two reasons only needs that blame on a capability is
blamed on the session. `IInv` is type correctness and, for each session that
exists, `Sound`: its record is typed, `BlameIsAccounted` relates risk,
capability risk, drift and alerts, and `Current` ties both posture fields to
the counters. Lemmas show that each path that adds risk (event, drift,
staleness, bootstrap, inheritance) keeps a session record `Sound`; the step
proof then has one case per action. From it follow type correctness, every
invariant and action property of `SidecarEvidence`,
and `ControlImplementsContract`: Init maps to Init, each action to `Admit`,
`Condemn`, `Grant`, `Release` or a stutter. That an elevated posture holds until
the session re-attests (`PosturesHold`) is what the alert of a stale heartbeat
says in one direction; `PosturesRelaxOnlyByReport` says how much further the code
goes, and finding 2 what that costs. The theorems cover both values of
`CapabilityQuarantine`, which the runs leave on, unless the property says so.

**Surfaces** (`SurfaceResolutionProofs`). `IInv` is type correctness and, for
each request in flight, that what it was decided on is what `effectiveDecision`
gives for the tags it remembers, that the inventory still has at least these
tags, and that its answer is one of the coordinator's branches. Containment of
sealed and restricted surfaces follows by cases over the pipeline for any
policy file; `RefusalsLast` from the monotonicity of the decision in the tags;
`QuarantineTightens` from the monotonicity of the parts in the posture, which
fails in one place: a guarded or restricted posture names a zone, and where the
normal one names none the coordinator may infer a stricter one
(`InferredZoneIsLost`). What is left of the decision then is that the access is
at least logged.

**Preload client** (`PreloadClientProofs`). `IInv` adds to the three safety
properties that a granted exchange brings a session and that the shared promise
belongs to an exchange under way. Two lemmas carry the step proof: a call that
moves by itself leaves none behind that awaits it (`OneCallMoves`), and an
exchange that settles takes all that await it along (`ExchangeSettles`).

**Process tree** (`ProcessTreeProofs`). `TreeInv` has eight parts: types;
`Homes` (a shared environment belongs to an installed process); `Lines` (lines
of descent); `Keys` (who can see the bootstrap key); `Births` (a child that has
not heard from the sidecar enforces what its creator did, and its environment or
payload says so until it is installed, which needs that what `Containment`
serialises is parsed back); `Holders`, `Parents` and `Claims` (whose session a
process holds, hands down and named). None of the last three is inductive
without the others. The four ways to create a process share one lemma (`Born`),
and the steps of one process that leave all others alone another (`GoesOn`).

**Wrapped calls** (`SurfaceCallsProofs`). That the real request gets what the
client did says nothing before it is attached, so `Forwarded` adds that until
then the proxy has collected all of it, headers among the arguments excepted.
That nothing diverted is ever asked for real needs `Diverted`: whatever response
is due, or was emitted, stems from a word that diverts. And one response per end
needs `Ended`: a request that can still be answered has an end for it, or one to
come from `get`. With types these are `IInv`. The responses due and emitted are
counted as sets of ends, for bodies of any length and any headers.

**Stories** (`DeceptionStoriesProofs`). Three invariants, each for a weaker
disturbance. `IInv`, whatever overlaps, tears or dies: a call past its lookups
has a story of its client, and a save under way has read every settled story
(`Keeps`), for a save that has not may begin only while another is under way,
when nothing new gets settled. `SInv` adds, as long as no two requests have
overlapped, `OneAtATime`: the stories on disk have different owners, what was
served is among them, and the call in progress sees what is there (`Sees`: what
its lookups have found, or that there was nothing to find). `CInv` adds, as long
as no write of tokens was lost either, `TokensKept`: whatever stories there are,
their tokens were on disk first, and memory and `canaries.json` differ only
under a call that is about to write them.

**Monitor** (`RunProofs`). Events are numbered, so that the buffer, the flushes
under way, the files and what is excused are sets of numbers. `Kept` says that
these cover all that was recorded (`Somewhere`), are disjoint (`Apart`), and
that what a named write under way would overwrite is excused (`Excused`).
`NoBurstIsMissed` is an action property: it needs that alerts within the window
suffice for the memory of alerts, which forgets the oldest. `StoppedIsClean`
holds of starts and stops that come one at a time (`OneAtATime`): what each
stretch between two awaits leaves of patches and timers.

**Session** (`RunProofs`). `Levels`: zones in memory, in a whole file and in the
hands of a call that writes are as sealed as what was counted for them; it needs
that no average of factors reaches 85 (`ScoreIsLow`), so that no score seals a
zone at once, which the code provides for and its arithmetic excludes.
`Settling`, as long as one task uses the file at a time and writes succeed
(`OneBusy`): memory and file agree whenever nobody is saving, what is being
saved is what is in memory, and a file is truncated only while it is written
(`Steady`). A zone that escalates is saved at once, and that is the step at
which two tasks would meet. `Bounded` adds what types need: every listener and
every start under way stem from a start of their own.

**Lifecycle** (`SidecarLifecycleProofs`). `GovernedOnceReady` is not inductive:
that a request is decided with everything needs that a ready engine has a
complete coordinator, which a bare one could replace, were there a moment
without one; that a sidecar's requests have it needs that a server listens for a
ready engine only, which needs that every start between its init and `listen`
has made the engine ready, and that all of it dies with the process. `IInv` says
this for each call (`CallSound`), engine (`EngineSound`) and process
(`ListensWhenReady`), with the types and what each call is about to write. A
step of a call leaves other processes alone (`Confined`), so that one case per
action suffices for engine and sidecar; the types of the history have lemmas of
their own. It holds for any number of processes, calls and servers, and any
workload.

`AddressAnswers` and `StopKeepsWhatWasLearned` hold of undisturbed processes:
none of their starts and stops has overlapped another (`Lone`) or failed, and
their inventory was loaded once. `JInv` says of these what each stretch of a
start or a stop has left (`Answers`: which servers listen and what the address
says) and that a stop on its way writes what is owed (`Owes`); of all processes,
that calls are where calls of their kind may be (`PhaseFits`) and that nothing
is known before the inventory is loaded (`LoadedFirst`). What a step of one
process does to the files is also a step of every other: it is noted in their
history that they have been overtaken, and that is all it may do to them
(`OrderKept`).

`NothingReadIsForgotten` holds of every process, whatever overlaps or fails.
`KInv` is `IInv` and, for each process, `Remembers`: what it has seen of a file it
knows, and each of its calls that is about to open the file has it saved. A call
learns more or loads the file; only the latter may replace what is known, and
then what has been seen is what was loaded.

Some theorems state properties that no run checks (`PosturesStayCurrent`,
`PosturesRelaxOnlyByReport`, `ForgottenForever`, `RequestsAuthenticated`,
`TrustedStayReal`): they hold for every instance.

What stays with TLC: liveness (`CallsSettle`, `RenewalsRecover`,
`ContainmentReachesProcess`, `EveryCallIsAnswered`), for the prover handles
neither fairness nor ENABLED here; and the three findings, which are
counterexamples. Every other property of a run is stated by a theorem. No
definition of the models is recursive, so nothing had to be left out for that;
profiles are kept as whose accesses were recorded and how many, not as a list to
be folded, which the detector asks no more of.

## 6. Findings

1. **`SidecarChild`** A child bootstrapped under a parent sealed by drifted
   attestation inherits its cached postures, but the next refresh derives them
   from counters that do not hold the parent's drift.
2. **`SidecarReattest`** The risk added for a stale heartbeat is never taken
   back: a session with nothing else against it stays restricted after it has
   re-attested (`mantle-sidecar.ts:766`; the alert at :770 says "posture elevated
   until the process re-attests").
3. **`SurfaceObserved`** Learned tags are looked at before the resource's name,
   so learning may lower its zone from SEALED to RESTRICTED.

Further disagreements between code and documents, met while modelling and not
kept as runs.

*Control plane.* A heartbeat that itself reports drift on a session of unknown
integrity stores the status without risk, alert or drift count (:900). The
envelope of a guarded posture replaces an inferred SEALED zone by OBSERVED, so
that an access the normal posture would refuse may be let through
(`mantle-sidecar.ts:1352`; README.md:45 speaks of compatibility-aware
tightening): the exception of `QuarantineTightens`.

*Surfaces.* The real resolver is awaited whether or not the overlay matched
(`overlay-coordinator.ts:262`; `engine.ts:332` says "only when synthetic
overlays are not selected"). A trusted actor whose access is refused is
treated as restricted and gets synthetic content (`overlay-coordinator.ts:483`,
docs/deception-mvp.md:121). An unknown actor that is BLOCKed in a SEALED zone
still gets the real fallback when no overlay matches and the caller permits it
(`overlay-coordinator.ts:180`, `deep-seal/types.ts:8`). `recordTrigger` looks the
story up again instead of using the one served (`story-broker.ts:102`), which
overlapping requests can tell. Two requests of one session that overlap bind two
stories (`story-broker.ts:98`; "one story per suspicious session",
docs/deception-mvp.md:250): `OneStoryUnlessOverlap` says what
holds without overlap. And where several actors share a session, a
client may be lent its actor's story from another session first, and answered
from the session's own once another actor has been bound one there.

*Engine and lifecycle.* While an init is under way, or after one that threw, a
request is decided without policy and inventory (`engine.ts:371`; "the policy
engine remains the normative authority",
docs/control-plane-architecture.md:154), and after one that threw this lasts
until an init completes; `GovernedOnceReady` says that it never happens after
one has, nor in a sidecar. Overlapping starts leave a server that no stop
closes, and a stop among them may end the process (`mantle-sidecar.ts:257`,
`:272`). A second interrupt of the command `sidecar` is refused by the server
that is closing, and the unhandled rejection ends the process before the first
one has written everything (`sidecar.ts:61`). A stop that fails to write leaves
server and address set, and every later stop fails. Two processes of one project
overwrite what the other has added to the inventory since they read it
(`resource-inventory.ts:230`), one by one and without any overlap;
`NothingReadIsForgotten` promises to each only what it has itself read or
written.

*Preload.* A node process that a program starts gets the base mode from its
environment, but neither key nor rules. The callback of `http.request` is never
called for a synthetic answer (`node-preload.ts:857`). An abort before the real
request is attached is lost to it; a second `end` brings a second synthetic
response; a request destroyed after the word still emits the response it was
promised; a header among the arguments cannot be removed before attaching. An
`attachRealRequest` that throws is an unhandled rejection (:985). `fetch` with a
`Request` hands on one whose body has been read (:341). `drain` is not passed on
(:994). `execFile(file, callback)` loses its callback (:1158).

*Monitor and session.* Two overlapping starts leave the first collector's
patches in place (`monitor.ts:65`; "we must NEVER leave monkey-patches in
place", :108). A failed final flush leaves the monitor marked as running
(:135). Two blocked processes make the status critical without an alert. The
detector's score is an average of factors and never reaches 0.85, so that
neither its BLOCK nor the zones' ANOMALY_SCORE condition is ever met
(`anomaly-detector.ts:145`, `seal-manager.ts:15`; the score passes 0.72 for no
combination of factors). "Only apply the highest matching pattern"
(`anomaly-detector.ts:114`) takes the first, and `secret.pem` weighs 0.6 and
not 0.9. A zone that escalates keeps the anomaly from being counted for the
zones after it (`seal-manager.ts:155`). A session that is restarted analyses
every event twice (`mantle-session.ts:72`). Two escalations at once may leave
the older one on file, and a start that reads the file meanwhile takes back the
newer one in memory (`seal-manager.ts:265`, `:276`).

## 7. Not modelled, and the plan

Left out, with the reason:

- Surface coat: regular expressions over files, without state. What a scan finds
  is an input of `EngineFacade`.
- AI defense: patterns over prompts, and a score per session in memory. No other
  part of the code calls it, and no document says what the score promises.
  (Overlapping calls of a session lose what the other added to it,
  `ai-proxy.ts:52` and `:89`.)
- False victory and the shadow sink: a function of the request, and a file of
  its own per record that nothing reads back. The trap event log and the audit
  log are appended to and never decide anything.
- Prompt canaries, decoys, story catalog: generated content and watermarks.
- The bootstrap scripts, the admin snapshot and reports (constant text and
  read-only views), options and output of the commands, types, and what the
  patched library functions do.
- Of the preload: timers, backpressure and the informational events of a
  request, and the synchronous reads, which ask nobody and decide by the
  containment alone, as `Containment` has it. Of behaviour profiles: durations,
  and the eviction of old patterns. Of stories: which template and which asset
  match.

Done, in this order: 1. `RuntimeEvents`, `SidecarPosture`, `SidecarControl`
with proofs, `QuarantineContract` with refinement. 2. `AccessDecision`,
`SurfaceResolution` with proofs. 3. `DeceptionStories`. 4. `PreloadClient` with
proofs and liveness. 5. `Containment`, `ProcessTree` with proofs.
6. `SurfaceCalls` with liveness. 7. `RuntimeMonitor`. 8. `BehaviorModel`,
`MantleSession`. 9. `JsonFile`, `EngineFacade`, `SidecarLifecycle` with proofs.
10. `CanaryStore`, composed into `DeceptionStories`.

11. `SurfaceCallsProofs`, `DeceptionStoriesProofs`, `RunProofs`, and the order of
starts and stops in `SidecarLifecycleProofs`.

Next:

12. The abstract promise of a monitor, a log to which events are only added, and
    `RuntimeMonitor` as an implementation of it as long as no write fails.
13. Timers and backpressure in `SurfaceCalls`.
