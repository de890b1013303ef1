---------------------------- MODULE RuntimeMonitor ----------------------------
(***************************************************************************)
(* The runtime monitor (monitor.ts): it patches library functions so that   *)
(* their calls become events, buffers the events and flushes them to files  *)
(* named after the millisecond, and raises alerts about bursts of risky     *)
(* events.  Handling an event is synchronous; starting, stopping and        *)
(* flushing await file operations, and events, timers and further calls     *)
(* come in between.                                                         *)
(*                                                                          *)
(* The three collectors are activated and deactivated alike and stand here  *)
(* as one; the statistics, the access log and the pressure score change     *)
(* nothing and are left out.                                                *)
(***************************************************************************)
EXTENDS Integers, Sequences, FiniteSets

CONSTANTS
  Caller,                  \* concurrent calls of start and stop
  Offered,                 \* the kinds of events that the program causes
  SampleAll,               \* sampleRate is 1
  maxBufferSize,
  windowMs,                \* alerting options
  blockedEventThreshold,
  highRiskEventThreshold,
  MaxAlerts,               \* alerts that are remembered: 50
  MaxEvents, MaxStarts, MaxTime  \* bounds

ASSUME MonitorAssumption ==
  /\ SampleAll \in BOOLEAN
  /\ {maxBufferSize, windowMs, blockedEventThreshold, highRiskEventThreshold,
      MaxAlerts} \subseteq Nat \ {0}
  /\ {MaxEvents, MaxStarts, MaxTime} \subseteq Nat

\* an event, as far as alerts tell them apart; risky are spawned processes,
\* socket egress and what is marked dangerous
Kind ==
  [blocked : BOOLEAN, risk : {"none", "risky", "integrity"}, drifted : BOOLEAN]

ASSUME OfferedAssumption == Offered \subseteq Kind

\* the event that tells of an alert; it is in no window
MonitorAlert == [alert |-> TRUE]

Code == {"preload-integrity-drift", "blocked-event-burst",
         "runtime-pressure-burst"}

Start == 1 .. MaxStarts

Unnamed == -1

Name == 0 .. MaxTime

Idle == [phase |-> "idle"]

VARIABLES
  now,      \* milliseconds
  mon,      \* events, buffer, flushes and alerts
  disk,     \* the directory and its files
  running,
  patches,  \* the functions that are patched, by which start's collector
  starts,   \* how many there have been
  calls,    \* calls[c]: the start or stop in progress
  overlap   \* history: whether two of them ever overlapped

vars == <<now, mon, disk, running, patches, starts, calls, overlap>>

\* an event is identified by its place among the recorded ones
Events == SUBSET (1 .. Len(mon.recorded))

\* a buffer that is full has been flushed
TypeOK ==
  /\ now \in 0 .. MaxTime
  /\ mon.recorded \in Seq([event : Offered \cup {MonitorAlert}, at : Name])
  /\ mon \in [recorded : {mon.recorded},
              buffer   : {b \in Events : Cardinality(b) < maxBufferSize},
              flushes  : SUBSET [events : Events \ {{}}, name : Name \cup {Unnamed}],
              alerts   : {mon.alerts},
              excused  : Events]
  /\ mon.alerts \in Seq([code : Code, at : Name]) /\ Len(mon.alerts) <= MaxAlerts
  /\ disk \in [made : BOOLEAN, logs : [Name -> Events]]
  /\ running \in BOOLEAN
  /\ starts \in {0} \cup Start
  /\ patches.stack \in Seq(Start)
  /\ patches \in [stack     : {patches.stack},
                  originals : [Start -> Seq(Start)],
                  active    : SUBSET Start,
                  collector : {0} \cup Start,
                  timers    : SUBSET Start,
                  flushInterval : {0} \cup Start]
  /\ calls \in [Caller -> {Idle}
                  \cup [phase : {"activating"}, start : Start]
                  \cup [phase : {"restoring"}, start : {0} \cup Start]
                  \cup [phase : {"flushing"}, events : Events]]
  /\ overlap \in BOOLEAN

Init ==
  /\ now = 0
  /\ mon = [recorded |-> << >>, buffer |-> {}, flushes |-> {}, alerts |-> << >>,
            excused |-> {}]
  /\ disk = [made |-> FALSE, logs |-> [n \in Name |-> {}]]
  /\ running = FALSE
  /\ patches = [stack |-> << >>, originals |-> [k \in Start |-> << >>],
                active |-> {}, collector |-> 0, timers |-> {},
                flushInterval |-> 0]
  /\ starts = 0
  /\ calls = [c \in Caller |-> Idle]
  /\ overlap = FALSE
-----------------------------------------------------------------------------
(***************************************************************************)
(* Flushing.  A file name that is used twice in a millisecond costs events: *)
(* these, and those whose write failed, are excused from being kept.        *)
(***************************************************************************)

Holders(m, name) == {f \in m.flushes : f.name = name}

\* the events that a flush under this name would overwrite
AtStake(m, name) ==
  disk.logs[name] \cup UNION {f.events : f \in Holders(m, name)}

\* the name is made up and writeFile is called
named(m, events) ==
  [m EXCEPT !.flushes = @ \cup {[events |-> events, name |-> now]},
            !.excused = IF AtStake(m, now) = {} THEN @
                        ELSE @ \cup events \cup AtStake(m, now)]

\* mutant: the buffer is emptied without having been copied
flushBuffer_Empties(m) == [m EXCEPT !.buffer = {}]

\* up to its first await
flushBuffer(m) ==
  IF m.buffer = {} THEN m
  ELSE LET emptied == [m EXCEPT !.buffer = {}]
       IN  IF disk.made
           THEN named(emptied, m.buffer)
           ELSE [emptied EXCEPT !.flushes =
                   @ \cup {[events |-> m.buffer, name |-> Unnamed]}]
-----------------------------------------------------------------------------
(***************************************************************************)
(* Events and alerts.                                                       *)
(***************************************************************************)

\* mutant: a full buffer is not flushed
recordEvent_Unbounded(m, event) ==
  [m EXCEPT !.recorded = Append(@, [event |-> event, at |-> now]),
            !.buffer = @ \cup {Len(m.recorded) + 1}]

recordEvent(m, event) ==
  LET recorded == [m EXCEPT
                     !.recorded = Append(@, [event |-> event, at |-> now]),
                     !.buffer = @ \cup {Len(m.recorded) + 1}]
  IN  IF Cardinality(recorded.buffer) >= maxBufferSize
      THEN flushBuffer(recorded) ELSE recorded

getWindowEvents(m) ==
  {i \in DOMAIN m.recorded :
     m.recorded[i].event # MonitorAlert /\ m.recorded[i].at >= now - windowMs}

isHighRiskEvent(event) == event.blocked \/ event.risk # "none"

isIntegrityDriftEvent(event) ==
  event.risk = "integrity" /\ (event.blocked \/ event.drifted)

BlockedBurst(m) ==
  Cardinality({i \in getWindowEvents(m) : m.recorded[i].event.blocked})
    >= blockedEventThreshold

PressureBurst(m) ==
  Cardinality({i \in getWindowEvents(m) : isHighRiskEvent(m.recorded[i].event)})
    >= highRiskEventThreshold

\* an alert of one of these codes was raised within the window
Alerted(m, codes) ==
  \E i \in DOMAIN m.alerts :
    m.alerts[i].code \in codes /\ now - m.alerts[i].at < windowMs

\* mutant: any recent alert stands for this one
createAlertEvent_AnyCode(m, code) ==
  IF Alerted(m, Code) THEN m
  ELSE recordEvent([m EXCEPT !.alerts = Append(@, [code |-> code, at |-> now])],
                   MonitorAlert)

createAlertEvent(m, code) ==
  IF Alerted(m, {code}) THEN m
  ELSE LET alerts == Append(m.alerts, [code |-> code, at |-> now])
       IN  recordEvent([m EXCEPT !.alerts = IF Len(alerts) > MaxAlerts
                                            THEN Tail(alerts) ELSE alerts],
                       MonitorAlert)

\* and what handleEvent does with it
buildMonitorAlertEvent(m, event) ==
  IF isIntegrityDriftEvent(event)
  THEN createAlertEvent(m, "preload-integrity-drift")
  ELSE IF BlockedBurst(m)
  THEN createAlertEvent(m, "blocked-event-burst")
  ELSE IF PressureBurst(m)
  THEN createAlertEvent(m, "runtime-pressure-burst")
  ELSE m

\* from a patched function, or from logEvent; an event that is left out of the
\* sample still gets its alert
HandleEvent(event, sampled) ==
  /\ SampleAll => sampled
  /\ Len(mon.recorded) < MaxEvents
  /\ mon' = buildMonitorAlertEvent(
              IF sampled THEN recordEvent(mon, event) ELSE mon, event)
  /\ UNCHANGED <<now, disk, running, patches, starts, calls>>
-----------------------------------------------------------------------------
(***************************************************************************)
(* Flushes that are under way.                                              *)
(***************************************************************************)

TimerFlush ==
  /\ patches.timers # {}
  /\ mon' = flushBuffer(mon)
  /\ UNCHANGED <<now, disk, running, patches, starts, calls>>

\* stop resolves when its flush has been written, and rejects when that failed
StopEnds(f, written) ==
  LET awaiting == {c \in Caller : calls[c].phase = "flushing"
                                    /\ calls[c].events = f.events}
  IN  /\ calls' = [c \in Caller |-> IF c \in awaiting THEN Idle ELSE calls[c]]
      /\ running' = (running /\ (awaiting = {} \/ ~ written))

DirectoryMade(f) ==
  /\ f.name = Unnamed
  /\ disk' = [disk EXCEPT !.made = TRUE]
  /\ mon' = named([mon EXCEPT !.flushes = @ \ {f}], f.events)
  /\ UNCHANGED <<now, running, patches, starts, calls>>

\* the file may end up garbled when another write of it is under way
WriteDone(f) ==
  /\ f.name # Unnamed
  /\ mon' = [mon EXCEPT !.flushes = @ \ {f}]
  /\ \/ disk' = [disk EXCEPT !.logs[f.name] = f.events]
     \/ /\ Holders(mon, f.name) # {f}
        /\ disk' = [disk EXCEPT !.logs[f.name] = {}]
  /\ StopEnds(f, TRUE)
  /\ UNCHANGED <<now, patches, starts>>

\* mkdir fails, or writeFile does and leaves nothing readable
FlushFails(f) ==
  /\ mon' = [mon EXCEPT !.flushes = @ \ {f}, !.excused = @ \cup f.events]
  /\ disk' = IF f.name = Unnamed THEN disk
             ELSE [disk EXCEPT !.logs[f.name] = {}]
  /\ StopEnds(f, FALSE)
  /\ UNCHANGED <<now, patches, starts>>
-----------------------------------------------------------------------------
(***************************************************************************)
(* Starting and stopping.                                                   *)
(***************************************************************************)

Begin(c, call) == calls[c] = Idle /\ calls' = [calls EXCEPT ![c] = call]

\* mutant: a monitor that is running is started again
BeginStart_Again(c) ==
  /\ starts < MaxStarts
  /\ Begin(c, [phase |-> "activating", start |-> starts + 1])
  /\ starts' = starts + 1
  /\ patches' = [patches EXCEPT !.collector = starts + 1]
  /\ UNCHANGED <<now, mon, disk, running>>

\* start up to its first await: running is set at its end only
BeginStart(c) ==
  /\ ~ running
  /\ starts < MaxStarts
  /\ Begin(c, [phase |-> "activating", start |-> starts + 1])
  /\ starts' = starts + 1
  /\ patches' = [patches EXCEPT !.collector = starts + 1]
  /\ UNCHANGED <<now, mon, disk, running>>

\* the collector wraps whatever functions it finds
Activated(c) ==
  /\ calls[c].phase = "activating"
  /\ LET k == calls[c].start IN
     patches' = [patches EXCEPT !.stack = Append(@, k),
                                !.originals[k] = patches.stack,
                                !.active = @ \cup {k},
                                !.timers = @ \cup {k},
                                !.flushInterval = k]
  /\ running' = TRUE
  /\ calls' = [calls EXCEPT ![c] = Idle]
  /\ UNCHANGED <<now, mon, disk, starts>>

\* a collector that is not active yet is not deactivated
BeginStop(c) ==
  /\ running
  /\ Begin(c, [phase |-> "restoring",
               start |-> IF patches.collector \in patches.active
                         THEN patches.collector ELSE 0])
  /\ UNCHANGED <<now, mon, disk, running, patches, starts>>

\* the functions the collector found are put back, the timer is cleared, and
\* the last flush begins
Restored(c) ==
  /\ calls[c].phase = "restoring"
  /\ LET k == calls[c].start
         cleared == [patches EXCEPT !.timers = @ \ {patches.flushInterval},
                                    !.flushInterval = 0]
     IN  patches' = IF k \in patches.active
                    THEN [cleared EXCEPT !.stack = patches.originals[k],
                                         !.active = @ \ {k}]
                    ELSE cleared
  /\ mon' = flushBuffer(mon)
  /\ IF mon.buffer = {}
     THEN running' = FALSE /\ calls' = [calls EXCEPT ![c] = Idle]
     ELSE /\ calls' = [calls EXCEPT ![c] = [phase |-> "flushing",
                                            events |-> mon.buffer]]
          /\ UNCHANGED running
  /\ UNCHANGED <<now, disk, starts>>

Tick ==
  /\ now < MaxTime
  /\ now' = now + 1
  /\ UNCHANGED <<mon, disk, running, patches, starts, calls>>

History ==
  overlap' = \/ overlap
             \/ \E c, d \in Caller :
                  c # d /\ calls'[c] # Idle /\ calls'[d] # Idle

Next ==
  /\ \/ \E event \in Offered, sampled \in BOOLEAN : HandleEvent(event, sampled)
     \/ TimerFlush
     \/ \E f \in mon.flushes : DirectoryMade(f) \/ WriteDone(f) \/ FlushFails(f)
     \/ \E c \in Caller :
          BeginStart(c) \/ Activated(c) \/ BeginStop(c) \/ Restored(c)
     \/ Tick
  /\ History

Spec == Init /\ [][Next]_vars
-----------------------------------------------------------------------------
(***************************************************************************)
(* Properties.                                                              *)
(***************************************************************************)

\* "Events are buffered": every recorded event is in the buffer, on its way to
\* a file or in one, whenever flushes, timers and stops happen, unless its
\* write failed or a file name was used twice; and no event is in two places.
EventsAreKept ==
  LET places == {mon.buffer} \cup {f.events : f \in mon.flushes}
                  \cup {disk.logs[n] : n \in Name}
  IN  /\ DOMAIN mon.recorded \subseteq (UNION places) \cup mon.excused
      /\ \A p, q \in places : p = q \/ p \cap q = {}

\* After an event has been handled, a window with as many blocked events as
\* the threshold has an alert, of blocked events or of drift, that is not
\* older than the window; so has one with many risky events, of any kind.  No
\* alert of another kind, and no alert that has been forgotten, hides a burst.
BurstsAreAlerted ==
  [][mon'.recorded # mon.recorded =>
       /\ BlockedBurst(mon') =>
            Alerted(mon', {"blocked-event-burst", "preload-integrity-drift"})
       /\ PressureBurst(mon') => Alerted(mon', Code)]_vars

\* "we must NEVER leave monkey-patches in place": a monitor that has been
\* stopped leaves neither patches nor a timer, as long as calls of start and
\* stop do not overlap.  (If they do, a second start loses the collector of
\* the first.)
NothingIsLeftBehind ==
  /\ ~ overlap
  /\ ~ running
  /\ \A c \in Caller : calls[c] = Idle
  => patches.stack = << >> /\ patches.timers = {}
=============================================================================
