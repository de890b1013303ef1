------------------------------ MODULE RunProofs ------------------------------
(***************************************************************************)
(* What "resimantle run" puts together in one process.                      *)
(*                                                                          *)
(* The monitor, for any number of events, starts and callers and any        *)
(* thresholds: no event is lost or doubled, no burst goes without an alert, *)
(* and a monitor that was stopped leaves nothing patched.                   *)
(*                                                                          *)
(* The session that listens to it, for any zones, resources and tasks:      *)
(* zones are as sealed as what was counted for them calls for, and what was *)
(* settled on file survives a restart.                                      *)
(***************************************************************************)
EXTENDS RuntimeMonitor, MantleSession, FiniteSetTheorems, SequenceTheorems, TLAPS

Entry == [event : Offered \cup {MonitorAlert}, at : Name]

Alert == [code : Code, at : Name]

Flush == [events : SUBSET Nat, name : Name \cup {Unnamed}]

Monitor ==
  [recorded : Seq(Entry), buffer : SUBSET Nat, flushes : SUBSET Flush,
   alerts : Seq(Alert), excused : SUBSET Nat]

\* a monitor in the middle of handling an event
Fits(m) ==
  /\ m \in Monitor
  /\ m.buffer \cup m.excused \subseteq 1 .. Len(m.recorded)
  /\ \A f \in m.flushes : f.events \subseteq 1 .. Len(m.recorded) /\ f.events # {}
  /\ Len(m.alerts) <= MaxAlerts

DiskFits(m) ==
  /\ disk \in [made : BOOLEAN, logs : [Name -> SUBSET Nat]]
  /\ \A n \in Name : disk.logs[n] \subseteq 1 .. Len(m.recorded)

\* no event is in two places
Apart(m) ==
  /\ \A f \in m.flushes : f.events \cap m.buffer = {}
  /\ \A f, g \in m.flushes : f = g \/ f.events \cap g.events = {}
  /\ \A n \in Name :
       /\ disk.logs[n] \cap m.buffer = {}
       /\ \A f \in m.flushes : disk.logs[n] \cap f.events = {}
       /\ \A k \in Name : n = k \/ disk.logs[n] \cap disk.logs[k] = {}

\* what a write under way would overwrite is excused
Excused(m) ==
  \A f \in m.flushes :
    f.name # Unnamed =>
      /\ disk.logs[f.name] \subseteq m.excused
      /\ \A g \in m.flushes : g.name = f.name /\ g # f =>
                                f.events \subseteq m.excused

\* every event is somewhere
Somewhere(m) ==
  \A i \in 1 .. Len(m.recorded) :
    \/ i \in m.buffer \cup m.excused
    \/ \E f \in m.flushes : i \in f.events
    \/ \E n \in Name : i \in disk.logs[n]

Kept(m) == Fits(m) /\ DiskFits(m) /\ Apart(m) /\ Excused(m) /\ Somewhere(m)

IInv == TypeOK /\ Kept(mon)
-----------------------------------------------------------------------------
\* Of calls of start and stop that come one at a time.

Alone ==
  \A c, d \in Caller : calls[c] # Idle /\ calls[d] # Idle => c = d

Bare ==
  /\ patches.stack = << >> /\ patches.timers = {} /\ patches.active = {}
  /\ patches.flushInterval = 0

\* patched once, by the collector that the monitor knows
Worn(k) ==
  /\ running /\ k \in Start
  /\ patches.stack = <<k>> /\ patches.originals[k] = << >>
  /\ patches.active = {k} /\ patches.timers = {k}
  /\ patches.flushInterval = k

OneAtATime ==
  /\ Alone
  /\ Bare \/ Worn(patches.collector)
  /\ \A c \in Caller :
       /\ calls[c].phase = "activating" =>
            ~ running /\ calls[c].start = patches.collector
       /\ calls[c].phase = "restoring" =>
            \/ Worn(patches.collector) /\ calls[c].start = patches.collector
            \/ Bare
       /\ calls[c].phase = "flushing" => Bare

PInv == IInv /\ (~ overlap => OneAtATime)
-----------------------------------------------------------------------------
(***************************************************************************)
(* What the operators return.                                               *)
(***************************************************************************)

LEMMA ConstantTypes ==
  /\ windowMs \in Nat \ {0} /\ MaxAlerts \in Nat \ {0}
  /\ maxBufferSize \in Nat \ {0}
  /\ MaxTime \in Nat /\ MaxStarts \in Nat /\ MaxEvents \in Nat
BY MonitorAssumption

LEMMA NoName == Unnamed \notin Name
BY ConstantTypes DEF Unnamed, Name

\* What is at stake under a name are numbers of events.
LEMMA AtStakeType ==
  ASSUME NEW m \in Monitor, NEW name \in Name,
         disk \in [made : BOOLEAN, logs : [Name -> SUBSET Nat]]
  PROVE  AtStake(m, name) \subseteq Nat
BY DEF AtStake, Holders, Monitor, Flush

\* A name for a flush changes the flushes and what is excused.
LEMMA NamedFields ==
  ASSUME NEW m \in Monitor, NEW events \in SUBSET Nat, now \in Name,
         disk \in [made : BOOLEAN, logs : [Name -> SUBSET Nat]]
  PROVE  LET n == named(m, events)
         IN  /\ n \in Monitor
             /\ n.recorded = m.recorded /\ n.buffer = m.buffer
             /\ n.alerts = m.alerts
             /\ n.flushes = m.flushes \cup {[events |-> events, name |-> now]}
             /\ n.excused = IF AtStake(m, now) = {} THEN m.excused
                            ELSE m.excused \cup events \cup AtStake(m, now)
<1> DEFINE stake == AtStake(m, now)
           excused == IF stake = {} THEN m.excused
                      ELSE m.excused \cup events \cup stake
           flushes == m.flushes \cup {[events |-> events, name |-> now]}
<1>1. stake \subseteq Nat
  BY AtStakeType
<1>2. excused \in SUBSET Nat
  BY <1>1 DEF Monitor
<1>3. flushes \in SUBSET Flush
  <2>1. [events |-> events, name |-> now] \in Flush
    BY DEF Flush
  <2>2. m.flushes \in SUBSET Flush
    BY DEF Monitor
  <2> QED
    BY <2>1, <2>2
<1>4. named(m, events) = [m EXCEPT !.flushes = flushes, !.excused = excused]
  BY DEF named, Monitor
<1> HIDE DEF excused, flushes
<1>5. /\ named(m, events) \in Monitor
      /\ named(m, events).recorded = m.recorded
      /\ named(m, events).buffer = m.buffer
      /\ named(m, events).alerts = m.alerts
      /\ named(m, events).flushes = flushes
      /\ named(m, events).excused = excused
  BY <1>2, <1>3, <1>4 DEF Monitor
<1> QED
  BY <1>5 DEF excused, flushes

\* A flush begins with an empty buffer, and neither records nor alerts.
LEMMA FlushBufferFields ==
  ASSUME NEW m \in Monitor, now \in Name,
         disk \in [made : BOOLEAN, logs : [Name -> SUBSET Nat]]
  PROVE  /\ flushBuffer(m) \in Monitor
         /\ flushBuffer(m).recorded = m.recorded
         /\ flushBuffer(m).alerts = m.alerts
         /\ flushBuffer(m).buffer = {}
<1> DEFINE emptied == [m EXCEPT !.buffer = {}]
           flush == [events |-> m.buffer, name |-> Unnamed]
           laid == [emptied EXCEPT !.flushes = @ \cup {flush}]
<1>1. /\ emptied \in Monitor /\ emptied.recorded = m.recorded
      /\ emptied.alerts = m.alerts /\ emptied.buffer = {}
      /\ m.buffer \in SUBSET Nat
  BY DEF Monitor
<1>2. CASE m.buffer = {}
  BY <1>2 DEF flushBuffer
<1>3. CASE m.buffer # {} /\ disk.made
  <2>1. flushBuffer(m) = named(emptied, m.buffer)
    BY <1>3 DEF flushBuffer
  <2> HIDE DEF emptied
  <2>2. /\ named(emptied, m.buffer) \in Monitor
        /\ named(emptied, m.buffer).recorded = emptied.recorded
        /\ named(emptied, m.buffer).alerts = emptied.alerts
        /\ named(emptied, m.buffer).buffer = emptied.buffer
    BY <1>1, NamedFields
  <2> QED
    BY <2>1, <2>2, <1>1
<1>4. CASE m.buffer # {} /\ ~ disk.made
  <2>1. flushBuffer(m) = laid
    BY <1>4 DEF flushBuffer
  <2>2. flush \in Flush
    BY <1>1 DEF Flush
  <2> HIDE DEF emptied, flush
  <2>3. laid \in Monitor /\ laid.recorded = emptied.recorded
        /\ laid.alerts = emptied.alerts /\ laid.buffer = emptied.buffer
    BY <1>1, <2>2 DEF Monitor
  <2> QED
    BY <2>1, <2>3, <1>1
<1> QED
  BY <1>2, <1>3, <1>4

\* The event that is being recorded, before the buffer is looked at.
Recorded(m, event) ==
  [m EXCEPT !.recorded = Append(@, [event |-> event, at |-> now]),
            !.buffer = @ \cup {Len(m.recorded) + 1}]

LEMMA RecordedFields ==
  ASSUME NEW m \in Monitor, NEW event \in Offered \cup {MonitorAlert}, now \in Name
  PROVE  LET r == Recorded(m, event)
         IN  /\ r \in Monitor
             /\ r.recorded = Append(m.recorded, [event |-> event, at |-> now])
             /\ r.buffer = m.buffer \cup {Len(m.recorded) + 1}
             /\ r.alerts = m.alerts /\ r.flushes = m.flushes
             /\ r.excused = m.excused
<1> DEFINE entry == [event |-> event, at |-> now]
           recorded == Append(m.recorded, entry)
           buffer == m.buffer \cup {Len(m.recorded) + 1}
<1>1. entry \in Entry
  BY DEF Entry
<1>2. m.recorded \in Seq(Entry) /\ m.buffer \in SUBSET Nat
  BY DEF Monitor
<1>3. recorded \in Seq(Entry)
  <2> HIDE DEF entry
  <2> QED
    BY <1>1, <1>2
<1>4. buffer \in SUBSET Nat
  BY <1>2
<1>5. Recorded(m, event) = [m EXCEPT !.recorded = recorded, !.buffer = buffer]
  BY DEF Recorded, Monitor
<1> HIDE DEF recorded, buffer
<1>6. /\ Recorded(m, event) \in Monitor
      /\ Recorded(m, event).recorded = recorded
      /\ Recorded(m, event).buffer = buffer
      /\ Recorded(m, event).alerts = m.alerts
      /\ Recorded(m, event).flushes = m.flushes
      /\ Recorded(m, event).excused = m.excused
  BY <1>3, <1>4, <1>5 DEF Monitor
<1> QED
  BY <1>6 DEF recorded, buffer

\* Recording appends one event, and raises no alert.
LEMMA RecordEventFields ==
  ASSUME NEW m \in Monitor, NEW event \in Offered \cup {MonitorAlert}, now \in Name,
         disk \in [made : BOOLEAN, logs : [Name -> SUBSET Nat]]
  PROVE  /\ recordEvent(m, event) \in Monitor
         /\ recordEvent(m, event).recorded
              = Append(m.recorded, [event |-> event, at |-> now])
         /\ recordEvent(m, event).alerts = m.alerts
<1>1. /\ Recorded(m, event) \in Monitor
      /\ Recorded(m, event).recorded
           = Append(m.recorded, [event |-> event, at |-> now])
      /\ Recorded(m, event).alerts = m.alerts
  BY RecordedFields
<1>2. recordEvent(m, event) \in {Recorded(m, event), flushBuffer(Recorded(m, event))}
  BY DEF recordEvent, Recorded
<1>3. /\ flushBuffer(Recorded(m, event)) \in Monitor
      /\ flushBuffer(Recorded(m, event)).recorded = Recorded(m, event).recorded
      /\ flushBuffer(Recorded(m, event)).alerts = Recorded(m, event).alerts
  BY <1>1, FlushBufferFields
<1> QED
  BY <1>1, <1>2, <1>3

\* The remembered alerts with a new one, the oldest forgotten.
Remembered(m, code) ==
  LET alerts == Append(m.alerts, [code |-> code, at |-> now])
  IN  IF Len(alerts) > MaxAlerts THEN Tail(alerts) ELSE alerts

LEMMA RememberedType ==
  ASSUME NEW m \in Monitor, NEW code \in Code, now \in Name,
         Len(m.alerts) <= MaxAlerts
  PROVE  /\ Remembered(m, code) \in Seq(Alert)
         /\ Len(Remembered(m, code)) <= MaxAlerts
         /\ \E i \in DOMAIN Remembered(m, code) :
              Remembered(m, code)[i] = [code |-> code, at |-> now]
<1> DEFINE alert == [code |-> code, at |-> now]
           alerts == Append(m.alerts, alert)
           length == Len(m.alerts)
<1>1. alert \in Alert /\ m.alerts \in Seq(Alert)
  BY DEF Alert, Monitor
<1> HIDE DEF alert
<1>2. /\ alerts \in Seq(Alert) /\ Len(alerts) = length + 1
      /\ alerts[length + 1] = alert /\ length \in Nat
  BY <1>1
<1>3. Remembered(m, code) = IF length + 1 > MaxAlerts THEN Tail(alerts) ELSE alerts
  BY <1>2 DEF Remembered, alert
<1> HIDE DEF alerts, length
<1>4. CASE length + 1 > MaxAlerts
  <2>1. length = MaxAlerts
    BY <1>4, <1>2, ConstantTypes DEF length
  <2>2. alerts # << >>
    BY <1>2
  <2>3. /\ Tail(alerts) \in Seq(Alert) /\ Len(Tail(alerts)) = length
        /\ \A i \in 1 .. length : Tail(alerts)[i] = alerts[i + 1]
    BY <1>2, <2>2
  <2>4. length \in 1 .. length
    BY <2>1, ConstantTypes
  <2>5. Tail(alerts)[length] = alert
    BY <2>3, <2>4, <1>2
  <2>6. DOMAIN Tail(alerts) = 1 .. length
    BY <2>3
  <2>7. Remembered(m, code) = Tail(alerts)
    BY <1>3, <1>4
  <2> QED
    BY <2>1, <2>3, <2>4, <2>5, <2>6, <2>7, ConstantTypes DEF alert
<1>5. CASE ~ length + 1 > MaxAlerts
  <2>1. Remembered(m, code) = alerts
    BY <1>3, <1>5
  <2>2. length + 1 \in DOMAIN alerts
    BY <1>2
  <2>3. Len(alerts) <= MaxAlerts
    BY <1>2, <1>5, ConstantTypes
  <2> QED
    BY <2>1, <2>2, <2>3, <1>2 DEF alert
<1> QED
  BY <1>4, <1>5
-----------------------------------------------------------------------------
(***************************************************************************)
(* No event is lost or doubled.                                             *)
(***************************************************************************)

\* The monitor while a flush holds events that are neither in the buffer nor
\* under way nor in a file.
InHand(m, events) ==
  /\ Fits(m) /\ DiskFits(m) /\ Apart(m) /\ Excused(m)
  /\ events \subseteq 1 .. Len(m.recorded) /\ events # {}
  /\ events \cap m.buffer = {}
  /\ \A f \in m.flushes : events \cap f.events = {}
  /\ \A n \in Name : events \cap disk.logs[n] = {}
  /\ \A i \in 1 .. Len(m.recorded) :
       \/ i \in m.buffer \cup m.excused \cup events
       \/ \E f \in m.flushes : i \in f.events
       \/ \E n \in Name : i \in disk.logs[n]

\* A buffer that is emptied is in hand.
LEMMA EmptiedInHand ==
  ASSUME NEW m, Kept(m), m.buffer # {}
  PROVE  InHand([m EXCEPT !.buffer = {}], m.buffer)
<1> DEFINE e == [m EXCEPT !.buffer = {}]
<1>1. /\ e \in Monitor /\ e.recorded = m.recorded /\ e.buffer = {}
      /\ e.flushes = m.flushes /\ e.alerts = m.alerts /\ e.excused = m.excused
  BY DEF Kept, Fits, Monitor
<1> HIDE DEF e
<1>2. Fits(e)
  BY <1>1 DEF Kept, Fits
<1>3. DiskFits(e)
  BY <1>1 DEF Kept, DiskFits
<1>4. Apart(e)
  BY <1>1 DEF Kept, Apart
<1>5. Excused(e)
  BY <1>1 DEF Kept, Excused
<1>6. /\ m.buffer \subseteq 1 .. Len(e.recorded)
      /\ m.buffer \cap e.buffer = {}
      /\ \A f \in e.flushes : m.buffer \cap f.events = {}
      /\ \A n \in Name : m.buffer \cap disk.logs[n] = {}
  BY <1>1 DEF Kept, Fits, Apart
<1>7. \A i \in 1 .. Len(e.recorded) :
        \/ i \in e.buffer \cup e.excused \cup m.buffer
        \/ \E f \in e.flushes : i \in f.events
        \/ \E n \in Name : i \in disk.logs[n]
  BY <1>1 DEF Kept, Somewhere
<1>8. InHand(e, m.buffer)
  BY <1>2, <1>3, <1>4, <1>5, <1>6, <1>7 DEF InHand
<1> QED
  BY <1>8 DEF e

\* So is a flush that is taken out.
LEMMA TakenInHand ==
  ASSUME NEW m, Kept(m), NEW f \in m.flushes
  PROVE  InHand([m EXCEPT !.flushes = @ \ {f}], f.events)
<1> DEFINE e == [m EXCEPT !.flushes = @ \ {f}]
<1>1. /\ e \in Monitor /\ e.recorded = m.recorded /\ e.buffer = m.buffer
      /\ e.flushes = m.flushes \ {f} /\ e.alerts = m.alerts
      /\ e.excused = m.excused
  BY DEF Kept, Fits, Monitor
<1> HIDE DEF e
<1>2. Fits(e)
  BY <1>1 DEF Kept, Fits
<1>3. DiskFits(e)
  BY <1>1 DEF Kept, DiskFits
<1>4. Apart(e)
  BY <1>1 DEF Kept, Apart
<1>5. Excused(e)
  BY <1>1 DEF Kept, Excused
<1>6. /\ f.events \subseteq 1 .. Len(e.recorded) /\ f.events # {}
      /\ f.events \cap e.buffer = {}
      /\ \A g \in e.flushes : f.events \cap g.events = {}
      /\ \A n \in Name : f.events \cap disk.logs[n] = {}
  BY <1>1 DEF Kept, Fits, Apart
<1>7. \A i \in 1 .. Len(e.recorded) :
        \/ i \in e.buffer \cup e.excused \cup f.events
        \/ \E g \in e.flushes : i \in g.events
        \/ \E n \in Name : i \in disk.logs[n]
  BY <1>1 DEF Kept, Somewhere
<1>8. InHand(e, f.events)
  BY <1>2, <1>3, <1>4, <1>5, <1>6, <1>7 DEF InHand
<1> QED
  BY <1>8 DEF e

\* What is in hand and goes under way is kept; what it may overwrite is excused.
LEMMA FlushKept ==
  ASSUME NEW m, NEW events, InHand(m, events), NEW n \in Monitor,
         NEW name \in Name \cup {Unnamed},
         n.recorded = m.recorded, n.buffer = m.buffer, n.alerts = m.alerts,
         n.flushes = m.flushes \cup {[events |-> events, name |-> name]},
         m.excused \subseteq n.excused,
         n.excused \subseteq 1 .. Len(m.recorded),
         name # Unnamed /\ AtStake(m, name) # {}
           => events \cup AtStake(m, name) \subseteq n.excused
  PROVE  Kept(n)
<1> DEFINE new == [events |-> events, name |-> name]
<1>1. new.events = events /\ new.name = name
      /\ n.flushes = m.flushes \cup {new}
  OBVIOUS
<1>2. Fits(m) /\ DiskFits(m) /\ Apart(m) /\ Excused(m)
  BY DEF InHand
<1> HIDE DEF new
<1>3. Fits(n)
  BY <1>1, <1>2 DEF InHand, Fits
<1>4. DiskFits(n)
  BY <1>2 DEF DiskFits
<1>5. Apart(n)
  <2>1. \A f \in n.flushes : f.events \cap n.buffer = {}
    BY <1>1, <1>2 DEF Apart, InHand
  <2>2. \A f, g \in n.flushes : f = g \/ f.events \cap g.events = {}
    BY <1>1, <1>2 DEF Apart, InHand
  <2>3. \A k \in Name :
          /\ disk.logs[k] \cap n.buffer = {}
          /\ \A f \in n.flushes : disk.logs[k] \cap f.events = {}
          /\ \A l \in Name : k = l \/ disk.logs[k] \cap disk.logs[l] = {}
    BY <1>1, <1>2 DEF Apart, InHand
  <2> QED
    BY <2>1, <2>2, <2>3 DEF Apart
<1>6. Excused(n)
  <2> SUFFICES ASSUME NEW f \in n.flushes, f.name # Unnamed
               PROVE  /\ disk.logs[f.name] \subseteq n.excused
                      /\ \A g \in n.flushes : g.name = f.name /\ g # f =>
                                                f.events \subseteq n.excused
    BY DEF Excused
  <2>1. AtStake(m, name) \subseteq n.excused \/ name = Unnamed
    OBVIOUS
  <2>2. disk.logs[name] \subseteq AtStake(m, name)
    BY DEF AtStake
  <2>3. \A g \in m.flushes : g.name = name => g.events \subseteq AtStake(m, name)
    BY DEF AtStake, Holders
  <2>4. \A g \in m.flushes : g.events # {}
    BY <1>2 DEF Fits
  <2>5. disk.logs[f.name] \subseteq n.excused
    <3>1. CASE f = new
      BY <3>1, <1>1, <2>1, <2>2
    <3>2. CASE f \in m.flushes
      BY <3>2, <1>2 DEF Excused
    <3> QED
      BY <3>1, <3>2, <1>1
  <2>6. ASSUME NEW g \in n.flushes, g.name = f.name, g # f
        PROVE  f.events \subseteq n.excused
    <3>1. CASE f = new
      <4>1. g \in m.flushes /\ g.name = name
        BY <2>6, <3>1, <1>1
      <4>2. AtStake(m, name) # {}
        BY <4>1, <2>3, <2>4
      <4> QED
        BY <4>2, <3>1, <1>1
    <3>2. CASE f \in m.flushes /\ g = new
      BY <3>2, <2>6, <1>1, <2>1, <2>3
    <3>3. CASE f \in m.flushes /\ g \in m.flushes
      BY <3>3, <2>6, <1>2 DEF Excused
    <3> QED
      BY <3>1, <3>2, <3>3, <1>1
  <2> QED
    BY <2>5, <2>6
<1>7. Somewhere(n)
  BY <1>1 DEF InHand, Somewhere
<1> QED
  BY <1>3, <1>4, <1>5, <1>6, <1>7 DEF Kept

\* What a name puts at stake are events that were recorded.
LEMMA AtStakeRecorded ==
  ASSUME NEW m, Fits(m), DiskFits(m), NEW name \in Name
  PROVE  AtStake(m, name) \subseteq 1 .. Len(m.recorded)
BY DEF AtStake, Holders, Fits, DiskFits

LEMMA NamedKept ==
  ASSUME NEW m, NEW events, InHand(m, events), now \in Name
  PROVE  Kept(named(m, events))
<1> DEFINE n == named(m, events)
<1>1. /\ m \in Monitor /\ events \in SUBSET Nat
      /\ disk \in [made : BOOLEAN, logs : [Name -> SUBSET Nat]]
      /\ events \subseteq 1 .. Len(m.recorded)
      /\ m.excused \subseteq 1 .. Len(m.recorded)
  BY DEF InHand, Fits, DiskFits
<1>2. /\ n \in Monitor
      /\ n.recorded = m.recorded /\ n.buffer = m.buffer
      /\ n.alerts = m.alerts
      /\ n.flushes = m.flushes \cup {[events |-> events, name |-> now]}
      /\ n.excused = IF AtStake(m, now) = {} THEN m.excused
                     ELSE m.excused \cup events \cup AtStake(m, now)
  BY <1>1, NamedFields
<1>3. AtStake(m, now) \subseteq 1 .. Len(m.recorded)
  BY AtStakeRecorded DEF InHand
<1> HIDE DEF n
<1>4. /\ m.excused \subseteq n.excused
      /\ n.excused \subseteq 1 .. Len(m.recorded)
      /\ AtStake(m, now) # {} => events \cup AtStake(m, now) \subseteq n.excused
  BY <1>1, <1>2, <1>3
<1>5. now \in Name \cup {Unnamed}
  OBVIOUS
<1>6. Kept(n)
  BY <1>2, <1>4, <1>5, FlushKept
<1> QED
  BY <1>6 DEF n

LEMMA FlushBufferKept ==
  ASSUME NEW m, Kept(m), now \in Name
  PROVE  Kept(flushBuffer(m))
<1> DEFINE emptied == [m EXCEPT !.buffer = {}]
           flush == [events |-> m.buffer, name |-> Unnamed]
           laid == [emptied EXCEPT !.flushes = @ \cup {flush}]
<1>1. CASE m.buffer = {}
  BY <1>1 DEF flushBuffer
<1>2. CASE m.buffer # {} /\ disk.made
  <2>1. flushBuffer(m) = named(emptied, m.buffer)
    BY <1>2 DEF flushBuffer
  <2>2. InHand(emptied, m.buffer)
    BY <1>2, EmptiedInHand
  <2> HIDE DEF emptied
  <2> QED
    BY <2>1, <2>2, NamedKept
<1>3. CASE m.buffer # {} /\ ~ disk.made
  <2>1. flushBuffer(m) = laid
    BY <1>3 DEF flushBuffer
  <2>2. InHand(emptied, m.buffer)
    BY <1>3, EmptiedInHand
  <2>3. emptied \in Monitor /\ m.buffer \in SUBSET Nat
        /\ emptied.excused \subseteq 1 .. Len(emptied.recorded)
    BY <2>2 DEF Kept, Fits, InHand, Monitor
  <2>4. flush \in Flush /\ flush = [events |-> m.buffer, name |-> Unnamed]
    BY <2>3 DEF Flush
  <2> HIDE DEF emptied, flush
  <2>5. /\ laid \in Monitor /\ laid.recorded = emptied.recorded
        /\ laid.alerts = emptied.alerts /\ laid.buffer = emptied.buffer
        /\ laid.flushes = emptied.flushes \cup {flush}
        /\ laid.excused = emptied.excused
    BY <2>3, <2>4 DEF Monitor
  <2> HIDE DEF laid
  <2>6. laid.flushes = emptied.flushes \cup {[events |-> m.buffer, name |-> Unnamed]}
    BY <2>4, <2>5
  <2>7. Unnamed \in Name \cup {Unnamed}
    OBVIOUS
  <2>8. Kept(laid)
    BY <2>2, <2>3, <2>5, <2>6, <2>7, FlushKept
  <2> QED
    BY <2>1, <2>8
<1> QED
  BY <1>1, <1>2, <1>3

\* The new event is in the buffer, and was nowhere before.
LEMMA RecordedKept ==
  ASSUME NEW m, Kept(m), NEW event \in Offered \cup {MonitorAlert}, now \in Name
  PROVE  Kept(Recorded(m, event))
<1> DEFINE r == Recorded(m, event)
           length == Len(m.recorded)
<1>1. /\ m \in Monitor /\ m.recorded \in Seq(Entry)
      /\ Fits(m) /\ DiskFits(m) /\ Apart(m) /\ Excused(m) /\ Somewhere(m)
  BY DEF Kept, Fits, Monitor
<1>2. /\ r \in Monitor
      /\ r.recorded = Append(m.recorded, [event |-> event, at |-> now])
      /\ r.buffer = m.buffer \cup {length + 1}
      /\ r.alerts = m.alerts /\ r.flushes = m.flushes
      /\ r.excused = m.excused
  BY <1>1, RecordedFields
<1> HIDE DEF r
<1>3. length \in Nat /\ Len(r.recorded) = length + 1
  BY <1>1, <1>2
<1>4. /\ \A f \in m.flushes : f.events \subseteq 1 .. length
      /\ \A n \in Name : disk.logs[n] \subseteq 1 .. length
      /\ m.buffer \cup m.excused \subseteq 1 .. length
      /\ \A f \in m.flushes : f.events # {}
  BY <1>1 DEF Fits, DiskFits
<1> HIDE DEF length
<1>5. 1 .. Len(r.recorded) = (1 .. length) \cup {length + 1}
      /\ length + 1 \notin 1 .. length
  BY <1>3
<1>6. Fits(r)
  BY <1>1, <1>2, <1>4, <1>5 DEF Fits
<1>7. DiskFits(r)
  BY <1>1, <1>4, <1>5 DEF DiskFits
<1>8. Apart(r)
  <2>1. \A f \in r.flushes : f.events \cap r.buffer = {}
    BY <1>1, <1>2, <1>4, <1>5 DEF Apart
  <2>2. \A n \in Name : disk.logs[n] \cap r.buffer = {}
    BY <1>1, <1>2, <1>4, <1>5 DEF Apart
  <2> QED
    BY <2>1, <2>2, <1>1, <1>2 DEF Apart
<1>9. Excused(r)
  BY <1>1, <1>2 DEF Excused
<1>10. Somewhere(r)
  BY <1>1, <1>2, <1>5 DEF Somewhere, length
<1>11. Kept(r)
  BY <1>6, <1>7, <1>8, <1>9, <1>10 DEF Kept
<1> QED
  BY <1>11 DEF r

\* After an event has been recorded, the buffer is not full.
LEMMA RecordEventKept ==
  ASSUME NEW m, Kept(m), NEW event \in Offered \cup {MonitorAlert}, now \in Name
  PROVE  /\ Kept(recordEvent(m, event))
         /\ Cardinality(recordEvent(m, event).buffer) < maxBufferSize
<1> DEFINE r == Recorded(m, event)
<1>1. Kept(r)
  BY RecordedKept
<1>2. r.buffer \subseteq 1 .. Len(r.recorded) /\ Len(r.recorded) \in Nat
      /\ r \in Monitor /\ disk \in [made : BOOLEAN, logs : [Name -> SUBSET Nat]]
  <2>1. Fits(r) /\ DiskFits(r)
    BY <1>1 DEF Kept
  <2> HIDE DEF r
  <2> QED
    BY <2>1 DEF Fits, DiskFits, Monitor
<1>3. recordEvent(m, event) = IF Cardinality(r.buffer) >= maxBufferSize
                              THEN flushBuffer(r) ELSE r
  BY DEF recordEvent, Recorded
<1> HIDE DEF r
<1>4. Cardinality(r.buffer) \in Nat
  <2>1. IsFiniteSet(1 .. Len(r.recorded))
    BY <1>2, FS_Interval
  <2>2. IsFiniteSet(r.buffer)
    BY <1>2, <2>1, FS_Subset
  <2> QED
    BY <2>2, FS_CardinalityType
<1>5. CASE Cardinality(r.buffer) >= maxBufferSize
  <2>1. Kept(flushBuffer(r)) /\ flushBuffer(r).buffer = {}
    BY <1>1, <1>2, FlushBufferKept, FlushBufferFields
  <2>2. Cardinality({}) = 0
    BY FS_EmptySet
  <2> QED
    BY <1>3, <1>5, <2>1, <2>2, ConstantTypes
<1>6. CASE ~ Cardinality(r.buffer) >= maxBufferSize
  BY <1>1, <1>3, <1>4, <1>6, ConstantTypes
<1> QED
  BY <1>5, <1>6

LEMMA CreateAlertKept ==
  ASSUME NEW m, Kept(m), Cardinality(m.buffer) < maxBufferSize,
         NEW code \in Code, now \in Name
  PROVE  /\ Kept(createAlertEvent(m, code))
         /\ Cardinality(createAlertEvent(m, code).buffer) < maxBufferSize
<1> DEFINE a == [m EXCEPT !.alerts = Remembered(m, code)]
<1>1. CASE Alerted(m, {code})
  BY <1>1 DEF createAlertEvent
<1>2. CASE ~ Alerted(m, {code})
  <2>1. createAlertEvent(m, code) = recordEvent(a, MonitorAlert)
    BY <1>2 DEF createAlertEvent, Remembered
  <2>2. Fits(m) /\ DiskFits(m) /\ Apart(m) /\ Excused(m) /\ Somewhere(m)
        /\ m \in Monitor /\ Len(m.alerts) <= MaxAlerts
    BY DEF Kept, Fits
  <2>3. Remembered(m, code) \in Seq(Alert) /\ Len(Remembered(m, code)) <= MaxAlerts
    BY <2>2, RememberedType
  <2>4. /\ a \in Monitor /\ a.recorded = m.recorded /\ a.buffer = m.buffer
        /\ a.flushes = m.flushes /\ a.excused = m.excused
        /\ a.alerts = Remembered(m, code)
    BY <2>2, <2>3 DEF Monitor
  <2> HIDE DEF a
  <2>5. Fits(a)
    BY <2>2, <2>3, <2>4 DEF Fits
  <2>6. DiskFits(a)
    BY <2>2, <2>4 DEF DiskFits
  <2>7. Apart(a) /\ Excused(a)
    BY <2>2, <2>4 DEF Apart, Excused
  <2>8. Somewhere(a)
    BY <2>2, <2>4 DEF Somewhere
  <2>9. Kept(a)
    BY <2>5, <2>6, <2>7, <2>8 DEF Kept
  <2>10. MonitorAlert \in Offered \cup {MonitorAlert}
    OBVIOUS
  <2> QED
    BY <2>1, <2>9, <2>10, RecordEventKept
<1> QED
  BY <1>1, <1>2

LEMMA BuildAlertKept ==
  ASSUME NEW m, Kept(m), Cardinality(m.buffer) < maxBufferSize,
         NEW event, now \in Name
  PROVE  /\ Kept(buildMonitorAlertEvent(m, event))
         /\ Cardinality(buildMonitorAlertEvent(m, event).buffer) < maxBufferSize
<1>1. \A code \in Code :
        /\ Kept(createAlertEvent(m, code))
        /\ Cardinality(createAlertEvent(m, code).buffer) < maxBufferSize
  BY CreateAlertKept
<1>2. buildMonitorAlertEvent(m, event)
        \in {m} \cup {createAlertEvent(m, code) : code \in Code}
  BY DEF buildMonitorAlertEvent, Code
<1> QED
  BY <1>1, <1>2
-----------------------------------------------------------------------------
(***************************************************************************)
(* The invariant, step by step.                                             *)
(***************************************************************************)

Patches ==
  [stack : Seq(Start), originals : [Start -> Seq(Start)], active : SUBSET Start,
   collector : {0} \cup Start, timers : SUBSET Start,
   flushInterval : {0} \cup Start]

Call(events) ==
  {Idle} \cup [phase : {"activating"}, start : Start]
         \cup [phase : {"restoring"}, start : {0} \cup Start]
         \cup [phase : {"flushing"}, events : SUBSET events]

\* What a step of the monitor alone leaves alone.
Around ==
  /\ now \in Name /\ running \in BOOLEAN /\ starts \in {0} \cup Start
  /\ patches \in Patches /\ overlap \in BOOLEAN

CallsFit == calls \in [Caller -> Call(1 .. Len(mon.recorded))]

Roomy(m) == Cardinality(m.buffer) < maxBufferSize

LEMMA FromParts ==
  ASSUME Kept(mon), Roomy(mon), Around, CallsFit
  PROVE  IInv
<1>1. Fits(mon) /\ DiskFits(mon) /\ mon \in Monitor
  BY DEF Kept, Fits
<1>2. now \in 0 .. MaxTime
  BY DEF Around, Name
<1>3. mon.recorded \in Seq([event : Offered \cup {MonitorAlert}, at : Name])
  BY <1>1 DEF Monitor, Entry
<1>4. mon.alerts \in Seq([code : Code, at : Name]) /\ Len(mon.alerts) <= MaxAlerts
  BY <1>1 DEF Monitor, Alert, Fits
<1>5. mon.buffer \in {b \in Events : Cardinality(b) < maxBufferSize}
      /\ mon.excused \in Events
  BY <1>1 DEF Fits, Events, Roomy
<1>6. mon.flushes \in SUBSET [events : Events \ {{}}, name : Name \cup {Unnamed}]
  <2> SUFFICES ASSUME NEW f \in mon.flushes
               PROVE  f \in [events : Events \ {{}}, name : Name \cup {Unnamed}]
    OBVIOUS
  <2>1. f \in Flush /\ f.events \subseteq 1 .. Len(mon.recorded) /\ f.events # {}
    BY <1>1 DEF Monitor, Fits
  <2>2. f.events \in Events \ {{}}
    BY <2>1 DEF Events
  <2> HIDE DEF Events
  <2> QED
    BY <2>1, <2>2 DEF Flush
<1>7. mon \in [recorded : {mon.recorded},
               buffer   : {b \in Events : Cardinality(b) < maxBufferSize},
               flushes  : SUBSET [events : Events \ {{}}, name : Name \cup {Unnamed}],
               alerts   : {mon.alerts},
               excused  : Events]
  <2>1. mon = [recorded |-> mon.recorded, buffer |-> mon.buffer,
               flushes |-> mon.flushes, alerts |-> mon.alerts,
               excused |-> mon.excused]
    BY <1>1 DEF Monitor
  <2> QED
    BY <2>1, <1>5, <1>6
<1>8. disk \in [made : BOOLEAN, logs : [Name -> Events]]
  <2>1. disk \in [made : BOOLEAN, logs : [Name -> SUBSET Nat]]
        /\ \A n \in Name : disk.logs[n] \in Events
    BY <1>1 DEF DiskFits, Events
  <2>2. disk.logs \in [Name -> Events]
    BY <2>1
  <2> QED
    BY <2>1, <2>2
<1>9. /\ patches.stack \in Seq(Start)
      /\ patches \in [stack     : {patches.stack},
                      originals : [Start -> Seq(Start)],
                      active    : SUBSET Start,
                      collector : {0} \cup Start,
                      timers    : SUBSET Start,
                      flushInterval : {0} \cup Start]
  BY DEF Around, Patches
<1>10. calls \in [Caller -> {Idle}
                   \cup [phase : {"activating"}, start : Start]
                   \cup [phase : {"restoring"}, start : {0} \cup Start]
                   \cup [phase : {"flushing"}, events : Events]]
  BY DEF CallsFit, Call, Events
<1>11. TypeOK
  BY <1>2, <1>3, <1>4, <1>7, <1>8, <1>9, <1>10 DEF TypeOK, Around
<1> QED
  BY <1>11 DEF IInv

LEMMA ToParts ==
  ASSUME IInv
  PROVE  /\ Kept(mon) /\ Roomy(mon) /\ Around /\ CallsFit
         /\ mon \in Monitor
         /\ disk \in [made : BOOLEAN, logs : [Name -> SUBSET Nat]]
<1>1. Kept(mon)
  BY DEF IInv
<1>2. Roomy(mon)
  BY DEF IInv, TypeOK, Roomy
<1>3. patches \in Patches
  BY DEF IInv, TypeOK, Patches
<1>4. Around
  BY <1>3 DEF IInv, TypeOK, Around, Name
<1>5. CallsFit
  BY DEF IInv, TypeOK, CallsFit, Call, Events
<1> QED
  BY <1>1, <1>2, <1>4, <1>5 DEF Kept, Fits, DiskFits

\* The calls still fit after more has been recorded.
LEMMA CallsStillFit ==
  ASSUME NEW shorter \in Nat, NEW longer \in Nat, shorter <= longer,
         NEW somecalls \in [Caller -> Call(1 .. shorter)]
  PROVE  somecalls \in [Caller -> Call(1 .. longer)]
<1>1. SUBSET (1 .. shorter) \subseteq SUBSET (1 .. longer)
  OBVIOUS
<1>2. Call(1 .. shorter) \subseteq Call(1 .. longer)
  BY <1>1 DEF Call
<1> QED
  BY <1>2

LEMMA KeptInitially == Init => IInv
<1> SUFFICES ASSUME Init PROVE IInv
  OBVIOUS
<1>1. mon.recorded = << >> /\ mon.buffer = {} /\ mon.flushes = {}
      /\ mon.alerts = << >> /\ mon.excused = {}
  BY DEF Init
<1>2. mon \in Monitor
  BY DEF Init, Monitor
<1>3. Len(mon.recorded) = 0 /\ Len(mon.alerts) = 0 /\ 1 .. 0 = {}
  BY <1>1
<1>4. Fits(mon)
  BY <1>1, <1>2, <1>3, ConstantTypes DEF Fits
<1>5. DiskFits(mon) /\ \A n \in Name : disk.logs[n] = {}
  BY <1>3 DEF Init, DiskFits
<1>6. Kept(mon)
  BY <1>1, <1>3, <1>4, <1>5 DEF Kept, Apart, Excused, Somewhere
<1>7. Roomy(mon)
  BY <1>1, FS_EmptySet, ConstantTypes DEF Roomy
<1>8. patches \in Patches
  BY DEF Init, Patches
<1>9. Around
  <2>1. now \in Name /\ starts \in {0} \cup Start
    BY ConstantTypes DEF Init, Name
  <2>2. running \in BOOLEAN /\ overlap \in BOOLEAN
    BY DEF Init
  <2> QED
    BY <1>8, <2>1, <2>2 DEF Around
<1>10. CallsFit
  BY DEF Init, CallsFit, Call
<1> QED
  BY <1>6, <1>7, <1>9, <1>10, FromParts

LEMMA StepFromParts ==
  ASSUME Kept(mon)', Roomy(mon)', Around', CallsFit'
  PROVE  IInv'
BY FromParts, PTL

\* With the directory as it was.
LEMMA KeptHere ==
  ASSUME NEW m, mon' = m, Kept(m), Roomy(m), UNCHANGED disk
  PROVE  Kept(mon)' /\ Roomy(mon)'
BY DEF Kept, Roomy, Fits, DiskFits, Apart, Excused, Somewhere

\* Every step says whether calls overlap.
LEMMA OverlapType ==
  ASSUME History, overlap \in BOOLEAN
  PROVE  overlap' \in BOOLEAN
BY Zenon DEF History

\* Appending to what is recorded makes it longer.
LEMMA Longer ==
  ASSUME NEW m \in Monitor, NEW n \in Monitor,
         \/ n.recorded = m.recorded
         \/ \E e \in Entry : n.recorded = Append(m.recorded, e)
  PROVE  /\ Len(m.recorded) \in Nat /\ Len(n.recorded) \in Nat
         /\ Len(m.recorded) <= Len(n.recorded)
BY DEF Monitor

\* An alert, if there is one, appends its own event.
LEMMA CreateAlertFields ==
  ASSUME NEW m, Kept(m), NEW code \in Code, now \in Name
  PROVE  /\ createAlertEvent(m, code).recorded
              \in {m.recorded,
                   Append(m.recorded, [event |-> MonitorAlert, at |-> now])}
         /\ Alerted(createAlertEvent(m, code), {code})
<1> DEFINE a == [m EXCEPT !.alerts = Remembered(m, code)]
<1>1. CASE Alerted(m, {code})
  BY <1>1 DEF createAlertEvent
<1>2. CASE ~ Alerted(m, {code})
  <2>1. createAlertEvent(m, code) = recordEvent(a, MonitorAlert)
    BY <1>2 DEF createAlertEvent, Remembered
  <2>2. /\ m \in Monitor /\ Len(m.alerts) <= MaxAlerts
        /\ disk \in [made : BOOLEAN, logs : [Name -> SUBSET Nat]]
    BY DEF Kept, Fits, DiskFits
  <2>3. /\ Remembered(m, code) \in Seq(Alert)
        /\ \E i \in DOMAIN Remembered(m, code) :
             Remembered(m, code)[i] = [code |-> code, at |-> now]
    BY <2>2, RememberedType
  <2>4. /\ a \in Monitor /\ a.recorded = m.recorded
        /\ a.alerts = Remembered(m, code)
    BY <2>2, <2>3 DEF Monitor
  <2> HIDE DEF a
  <2>5. MonitorAlert \in Offered \cup {MonitorAlert}
    OBVIOUS
  <2>6. /\ recordEvent(a, MonitorAlert).recorded
             = Append(a.recorded, [event |-> MonitorAlert, at |-> now])
        /\ recordEvent(a, MonitorAlert).alerts = a.alerts
    BY <2>2, <2>4, <2>5, RecordEventFields
  <2>7. now - now < windowMs
    BY ConstantTypes DEF Name
  <2>8. Alerted(recordEvent(a, MonitorAlert), {code})
    <3>1. PICK i \in DOMAIN Remembered(m, code) :
            Remembered(m, code)[i] = [code |-> code, at |-> now]
      BY <2>3
    <3>2. recordEvent(a, MonitorAlert).alerts = Remembered(m, code)
      BY <2>4, <2>6
    <3>3. Remembered(m, code)[i].code = code /\ Remembered(m, code)[i].at = now
      BY <3>1
    <3> QED
      BY <2>7, <3>2, <3>3 DEF Alerted
  <2> QED
    BY <2>1, <2>4, <2>6, <2>8
<1> QED
  BY <1>1, <1>2

LEMMA BuildAlertFields ==
  ASSUME NEW m, Kept(m), NEW event, now \in Name
  PROVE  buildMonitorAlertEvent(m, event).recorded
           \in {m.recorded, Append(m.recorded, [event |-> MonitorAlert, at |-> now])}
<1>1. \A code \in Code :
        createAlertEvent(m, code).recorded
          \in {m.recorded, Append(m.recorded, [event |-> MonitorAlert, at |-> now])}
  BY CreateAlertFields
<1>2. buildMonitorAlertEvent(m, event)
        \in {m} \cup {createAlertEvent(m, code) : code \in Code}
  BY DEF buildMonitorAlertEvent, Code
<1> QED
  BY <1>1, <1>2

LEMMA HandleEventStep ==
  ASSUME IInv, History, NEW event \in Offered, NEW sampled \in BOOLEAN,
         HandleEvent(event, sampled)
  PROVE  IInv'
<1> DEFINE m == IF sampled THEN recordEvent(mon, event) ELSE mon
           n == buildMonitorAlertEvent(m, event)
<1>1. /\ Kept(mon) /\ Roomy(mon) /\ Around /\ CallsFit /\ mon \in Monitor
      /\ disk \in [made : BOOLEAN, logs : [Name -> SUBSET Nat]]
      /\ now \in Name
  BY ToParts DEF Around
<1>2. mon' = n /\ UNCHANGED <<now, disk, running, patches, starts, calls>>
  BY DEF HandleEvent
<1>3. event \in Offered \cup {MonitorAlert}
  OBVIOUS
<1>4. [event |-> event, at |-> now] \in Entry
      /\ [event |-> MonitorAlert, at |-> now] \in Entry
  BY <1>1 DEF Entry
<1>5. /\ Kept(m) /\ Cardinality(m.buffer) < maxBufferSize
      /\ m.recorded \in {mon.recorded,
                         Append(mon.recorded, [event |-> event, at |-> now])}
  <2>1. CASE sampled
    <3>1. /\ Kept(recordEvent(mon, event))
          /\ Cardinality(recordEvent(mon, event).buffer) < maxBufferSize
      BY <1>1, <1>3, RecordEventKept
    <3>2. recordEvent(mon, event).recorded
            = Append(mon.recorded, [event |-> event, at |-> now])
      BY <1>1, <1>3, RecordEventFields
    <3> QED
      BY <2>1, <3>1, <3>2
  <2>2. CASE ~ sampled
    BY <2>2, <1>1 DEF Roomy
  <2> QED
    BY <2>1, <2>2
<1> HIDE DEF m
<1>6. Kept(n) /\ Cardinality(n.buffer) < maxBufferSize
  BY <1>1, <1>5, BuildAlertKept
<1>7. n.recorded \in {m.recorded,
                      Append(m.recorded, [event |-> MonitorAlert, at |-> now])}
  BY <1>1, <1>5, BuildAlertFields
<1>8. m \in Monitor /\ n \in Monitor
  BY <1>5, <1>6 DEF Kept, Fits
<1> HIDE DEF n
<1>9. Kept(mon)' /\ Roomy(mon)'
  BY <1>2, <1>6, KeptHere DEF Roomy
<1>10. Around'
  BY <1>1, <1>2, OverlapType DEF Around
<1>11. /\ Len(mon.recorded) \in Nat /\ Len(m.recorded) \in Nat
       /\ Len(n.recorded) \in Nat /\ Len(mon.recorded) <= Len(n.recorded)
  <2>1. /\ Len(mon.recorded) \in Nat /\ Len(m.recorded) \in Nat
        /\ Len(mon.recorded) <= Len(m.recorded)
    <3>1. \/ m.recorded = mon.recorded
          \/ \E e \in Entry : m.recorded = Append(mon.recorded, e)
      BY <1>4, <1>5
    <3> QED
      BY <3>1, <1>1, <1>8, Longer
  <2>2. /\ Len(n.recorded) \in Nat /\ Len(m.recorded) <= Len(n.recorded)
    <3>1. \/ n.recorded = m.recorded
          \/ \E e \in Entry : n.recorded = Append(m.recorded, e)
      BY <1>4, <1>7
    <3> QED
      BY <3>1, <1>8, Longer
  <2> QED
    BY <2>1, <2>2
<1>12. CallsFit'
  <2>1. calls \in [Caller -> Call(1 .. Len(mon.recorded))]
    BY <1>1 DEF CallsFit
  <2>2. calls \in [Caller -> Call(1 .. Len(n.recorded))]
    BY <2>1, <1>11, CallsStillFit
  <2> QED
    BY <2>2, <1>2 DEF CallsFit
<1> QED
  BY <1>9, <1>10, <1>12, StepFromParts

\* A flush that begins leaves what is recorded alone.
LEMMA FlushBegins ==
  ASSUME IInv, mon' = flushBuffer(mon), UNCHANGED disk
  PROVE  /\ Kept(mon)' /\ Roomy(mon)'
         /\ mon'.recorded = mon.recorded
<1>1. /\ Kept(mon) /\ mon \in Monitor /\ now \in Name
      /\ disk \in [made : BOOLEAN, logs : [Name -> SUBSET Nat]]
  BY ToParts DEF Around
<1>2. Kept(flushBuffer(mon))
  BY <1>1, FlushBufferKept
<1>3. flushBuffer(mon).recorded = mon.recorded /\ flushBuffer(mon).buffer = {}
  BY <1>1, FlushBufferFields
<1>4. Roomy(flushBuffer(mon))
  BY <1>3, FS_EmptySet, ConstantTypes DEF Roomy
<1> QED
  BY <1>2, <1>3, <1>4, KeptHere

LEMMA TimerFlushStep ==
  ASSUME IInv, History, TimerFlush
  PROVE  IInv'
<1>1. Around /\ CallsFit
  BY ToParts
<1>2. /\ mon' = flushBuffer(mon)
      /\ UNCHANGED <<now, disk, running, patches, starts, calls>>
  BY DEF TimerFlush
<1>3. Kept(mon)' /\ Roomy(mon)' /\ mon'.recorded = mon.recorded
  BY <1>2, FlushBegins
<1>4. Around' /\ CallsFit'
  BY <1>1, <1>2, <1>3, OverlapType DEF Around, CallsFit
<1> QED
  BY <1>3, <1>4, StepFromParts

\* What the end of a flush does to those that wait for it.
LEMMA StopEndsType ==
  ASSUME CallsFit, running \in BOOLEAN, NEW f, NEW written \in BOOLEAN,
         StopEnds(f, written), mon'.recorded = mon.recorded
  PROVE  CallsFit' /\ running' \in BOOLEAN
<1>1. \A c \in Caller : calls'[c] \in {Idle, calls[c]}
  BY DEF StopEnds
<1>2. calls' = [c \in Caller |-> calls'[c]]
  BY DEF StopEnds
<1>3. \A c \in Caller : calls[c] \in Call(1 .. Len(mon.recorded))
  BY DEF CallsFit
<1>4. Idle \in Call(1 .. Len(mon.recorded))
  BY DEF Call
<1>5. \A c \in Caller : calls'[c] \in Call(1 .. Len(mon.recorded))
  BY <1>1, <1>3, <1>4
<1>6. CallsFit'
  BY <1>2, <1>5 DEF CallsFit
<1>7. running' \in BOOLEAN
  BY Zenon DEF StopEnds
<1> QED
  BY <1>6, <1>7

\* The monitor without a flush that is under way.
LEMMA TakenFields ==
  ASSUME NEW m \in Monitor, NEW f
  PROVE  LET e == [m EXCEPT !.flushes = @ \ {f}]
         IN  /\ e \in Monitor /\ e.recorded = m.recorded /\ e.buffer = m.buffer
             /\ e.flushes = m.flushes \ {f} /\ e.alerts = m.alerts
             /\ e.excused = m.excused
BY DEF Monitor

LEMMA DirectoryMadeStep ==
  ASSUME IInv, History, NEW f \in mon.flushes, DirectoryMade(f)
  PROVE  IInv'
<1> DEFINE e == [mon EXCEPT !.flushes = @ \ {f}]
           n == named(e, f.events)
<1>1. /\ Kept(mon) /\ Roomy(mon) /\ Around /\ CallsFit /\ mon \in Monitor
      /\ disk \in [made : BOOLEAN, logs : [Name -> SUBSET Nat]]
      /\ now \in Name
  BY ToParts DEF Around
<1>2. /\ mon' = n /\ disk' = [disk EXCEPT !.made = TRUE]
      /\ UNCHANGED <<now, running, patches, starts, calls>>
  BY DEF DirectoryMade
<1>3. InHand(e, f.events)
  BY <1>1, TakenInHand
<1>4. /\ e \in Monitor /\ e.recorded = mon.recorded /\ e.buffer = mon.buffer
  BY <1>1, TakenFields
<1>5. f.events \in SUBSET Nat
  BY <1>1 DEF Monitor, Flush
<1> HIDE DEF e
<1>6. Kept(n)
  BY <1>1, <1>3, NamedKept
<1>7. n.recorded = mon.recorded /\ n.buffer = mon.buffer
  BY <1>1, <1>4, <1>5, NamedFields
<1> HIDE DEF n
<1>8. disk' \in [made : BOOLEAN, logs : [Name -> SUBSET Nat]]
      /\ disk'.logs = disk.logs
  BY <1>1, <1>2
<1>9. Kept(mon)'
  BY <1>2, <1>6, <1>8 DEF Kept, Fits, DiskFits, Apart, Excused, Somewhere
<1>10. Roomy(mon)'
  BY <1>1, <1>2, <1>7 DEF Roomy
<1>11. Around' /\ CallsFit'
  BY <1>1, <1>2, <1>7, OverlapType DEF Around, CallsFit
<1> QED
  BY <1>9, <1>10, <1>11, StepFromParts

\* What a write puts into its file, or destroys, was in hand or excused.
LEMMA WrittenKept ==
  ASSUME NEW m \in Monitor, NEW events, InHand(m, events), NEW name \in Name,
         NEW content \in {events, {}}, mon' \in Monitor,
         mon'.recorded = m.recorded, mon'.buffer = m.buffer,
         mon'.flushes = m.flushes, mon'.alerts = m.alerts,
         m.excused \subseteq mon'.excused,
         mon'.excused \subseteq 1 .. Len(m.recorded),
         disk \in [made : BOOLEAN, logs : [Name -> SUBSET Nat]],
         disk' = [disk EXCEPT !.logs[name] = content],
         disk.logs[name] \subseteq m.excused,
         events \subseteq content \cup mon'.excused,
         \A g \in m.flushes : g.name = name => events \subseteq mon'.excused
  PROVE  Kept(mon)'
<1>1. /\ Fits(m) /\ DiskFits(m) /\ Apart(m) /\ Excused(m)
      /\ events \subseteq 1 .. Len(m.recorded)
      /\ content \subseteq events
  BY DEF InHand
<1>2. events \in SUBSET Nat
  BY <1>1 DEF Fits, Monitor
<1>3. /\ disk' \in [made : BOOLEAN, logs : [Name -> SUBSET Nat]]
      /\ \A k \in Name : disk'.logs[k] = IF k = name THEN content ELSE disk.logs[k]
  BY <1>1, <1>2
<1>4. Fits(mon)'
  BY <1>1 DEF Fits
<1>5. DiskFits(mon)'
  BY <1>1, <1>3 DEF DiskFits
<1>6. Apart(mon)'
  <2>1. \A k \in Name : disk'.logs[k] \cap mon'.buffer = {}
    BY <1>1, <1>3 DEF Apart, InHand
  <2>2. \A k \in Name : \A f \in mon'.flushes : disk'.logs[k] \cap f.events = {}
    BY <1>1, <1>3 DEF Apart, InHand
  <2>3. \A k, l \in Name : k = l \/ disk'.logs[k] \cap disk'.logs[l] = {}
    BY <1>1, <1>3 DEF Apart, InHand
  <2> QED
    BY <2>1, <2>2, <2>3, <1>1 DEF Apart
<1>7. Excused(mon)'
  <2> SUFFICES ASSUME NEW f \in mon'.flushes, f.name # Unnamed
               PROVE  /\ disk'.logs[f.name] \subseteq mon'.excused
                      /\ \A g \in mon'.flushes : g.name = f.name /\ g # f =>
                                                   f.events \subseteq mon'.excused
    BY DEF Excused
  <2>1. f.name \in Name /\ f \in m.flushes
    BY DEF Monitor, Flush
  <2>2. \A g \in mon'.flushes : g.name = f.name /\ g # f =>
                                  f.events \subseteq mon'.excused
    BY <2>1, <1>1 DEF Excused
  <2>3. disk'.logs[f.name] \subseteq mon'.excused
    <3>1. CASE f.name = name
      BY <3>1, <2>1, <1>1, <1>3
    <3>2. CASE f.name # name
      BY <3>2, <2>1, <1>1, <1>3 DEF Excused
    <3> QED
      BY <3>1, <3>2
  <2> QED
    BY <2>2, <2>3
<1>8. Somewhere(mon)'
  <2> SUFFICES ASSUME NEW i \in 1 .. Len(m.recorded)
               PROVE  \/ i \in mon'.buffer \cup mon'.excused
                      \/ \E f \in mon'.flushes : i \in f.events
                      \/ \E n \in Name : i \in disk'.logs[n]
    BY DEF Somewhere
  <2>1. \/ i \in m.buffer \cup m.excused \cup events
        \/ \E f \in m.flushes : i \in f.events
        \/ \E n \in Name : i \in disk.logs[n]
    BY DEF InHand
  <2>2. CASE i \in events
    BY <2>2, <1>3
  <2>3. ASSUME NEW n \in Name, i \in disk.logs[n]
        PROVE  i \in mon'.excused \/ i \in disk'.logs[n]
    BY <2>3, <1>3
  <2> QED
    BY <2>1, <2>2, <2>3
<1> QED
  BY <1>4, <1>5, <1>6, <1>7, <1>8 DEF Kept

LEMMA WriteDoneStep ==
  ASSUME IInv, History, NEW f \in mon.flushes, WriteDone(f)
  PROVE  IInv'
<1> DEFINE e == [mon EXCEPT !.flushes = @ \ {f}]
<1>1. /\ Kept(mon) /\ Roomy(mon) /\ Around /\ CallsFit /\ mon \in Monitor
      /\ disk \in [made : BOOLEAN, logs : [Name -> SUBSET Nat]]
  BY ToParts DEF Around
<1>2. /\ mon' = e /\ f.name # Unnamed /\ StopEnds(f, TRUE)
      /\ UNCHANGED <<now, patches, starts>>
  BY DEF WriteDone
<1>3. InHand(e, f.events)
  BY <1>1, TakenInHand
<1>4. /\ e \in Monitor /\ e.recorded = mon.recorded /\ e.buffer = mon.buffer
      /\ e.flushes = mon.flushes \ {f} /\ e.excused = mon.excused
  BY <1>1, TakenFields
<1>5. f.name \in Name
  BY <1>1, <1>2 DEF Monitor, Flush
<1>6. /\ disk.logs[f.name] \subseteq mon.excused
      /\ \A g \in mon.flushes : g.name = f.name /\ g # f =>
                                  f.events \subseteq mon.excused
  BY <1>1, <1>2 DEF Kept, Excused
<1>7. PICK content \in {f.events, {}} :
        /\ disk' = [disk EXCEPT !.logs[f.name] = content]
        /\ content = {} => Holders(mon, f.name) # {f} \/ f.events = {}
  BY DEF WriteDone
<1>8. f.events \subseteq content \cup mon.excused
  <2>1. CASE content = {} /\ f.events # {}
    <3>1. f \in Holders(mon, f.name)
      BY DEF Holders
    <3>2. PICK g \in Holders(mon, f.name) : g # f
      BY <2>1, <1>7, <3>1
    <3> QED
      BY <3>2, <1>6 DEF Holders
  <2> QED
    BY <2>1
<1> HIDE DEF e
<1>9. e.excused \subseteq 1 .. Len(e.recorded)
  BY <1>3 DEF InHand, Fits
<1>10. Kept(mon)'
  <2>1. /\ mon' \in Monitor /\ mon'.recorded = e.recorded
        /\ mon'.buffer = e.buffer /\ mon'.flushes = e.flushes
        /\ mon'.alerts = e.alerts /\ e.excused \subseteq mon'.excused
        /\ mon'.excused \subseteq 1 .. Len(e.recorded)
    BY <1>2, <1>4, <1>9
  <2>2. disk.logs[f.name] \subseteq e.excused
    BY <1>4, <1>6
  <2>3. f.events \subseteq content \cup mon'.excused
    BY <1>2, <1>4, <1>8
  <2>4. \A g \in e.flushes : g.name = f.name => f.events \subseteq mon'.excused
    BY <1>2, <1>4, <1>6
  <2>5. disk' = [disk EXCEPT !.logs[f.name] = content]
    BY <1>7
  <2>6. disk \in [made : BOOLEAN, logs : [Name -> SUBSET Nat]] /\ e \in Monitor
    BY <1>1, <1>4
  <2> QED
    BY <1>3, <1>5, <2>1, <2>2, <2>3, <2>4, <2>5, <2>6, WrittenKept, ZenonT(40)
<1>11. Roomy(mon)'
  BY <1>1, <1>2, <1>4 DEF Roomy
<1>12. CallsFit' /\ running' \in BOOLEAN
  BY <1>1, <1>2, <1>4, StopEndsType DEF Around
<1>13. Around'
  BY <1>1, <1>2, <1>12, OverlapType DEF Around
<1> QED
  BY <1>10, <1>11, <1>12, <1>13, StepFromParts

LEMMA FlushFailsStep ==
  ASSUME IInv, History, NEW f \in mon.flushes, FlushFails(f)
  PROVE  IInv'
<1> DEFINE e == [mon EXCEPT !.flushes = @ \ {f}]
           excused == mon.excused \cup f.events
           n == [mon EXCEPT !.flushes = @ \ {f}, !.excused = @ \cup f.events]
<1>1. /\ Kept(mon) /\ Roomy(mon) /\ Around /\ CallsFit /\ mon \in Monitor
      /\ disk \in [made : BOOLEAN, logs : [Name -> SUBSET Nat]]
  BY ToParts DEF Around
<1>2. /\ mon' = n /\ StopEnds(f, FALSE)
      /\ disk' = IF f.name = Unnamed THEN disk
                 ELSE [disk EXCEPT !.logs[f.name] = {}]
      /\ UNCHANGED <<now, patches, starts>>
  BY DEF FlushFails
<1>3. InHand(e, f.events)
  BY <1>1, TakenInHand
<1>4. /\ e \in Monitor /\ e.recorded = mon.recorded /\ e.buffer = mon.buffer
      /\ e.flushes = mon.flushes \ {f} /\ e.excused = mon.excused
      /\ e.alerts = mon.alerts
  BY <1>1, TakenFields
<1>5. f \in Flush
  BY <1>1 DEF Monitor
<1>6. excused \in SUBSET Nat
  BY <1>1, <1>5 DEF Monitor, Flush
<1>7. /\ n \in Monitor /\ n.recorded = mon.recorded /\ n.buffer = mon.buffer
      /\ n.flushes = mon.flushes \ {f} /\ n.excused = excused
      /\ n.alerts = mon.alerts
  <2>1. n = [mon EXCEPT !.flushes = @ \ {f}, !.excused = excused]
    BY <1>1 DEF Monitor
  <2> HIDE DEF excused, n
  <2> QED
    BY <2>1, <1>1, <1>6 DEF Monitor
<1> HIDE DEF e, n
<1>8. /\ e.excused \subseteq 1 .. Len(e.recorded)
      /\ f.events \subseteq 1 .. Len(e.recorded)
      /\ e.excused \subseteq n.excused /\ f.events \subseteq n.excused
      /\ n.excused \subseteq 1 .. Len(e.recorded)
  BY <1>3, <1>4, <1>7 DEF InHand, Fits
<1>9. Kept(mon)'
  <2>1. CASE f.name = Unnamed
    <3>1. UNCHANGED disk
      BY <1>2, <2>1
    <3>2. Fits(e) /\ DiskFits(e) /\ Apart(e) /\ Excused(e)
      BY <1>3 DEF InHand
    <3>3. Fits(n)
      BY <3>2, <1>4, <1>7, <1>8 DEF Fits
    <3>4. DiskFits(n)
      BY <3>2, <1>4, <1>7 DEF DiskFits
    <3>5. Apart(n)
      BY <3>2, <1>4, <1>7 DEF Apart
    <3>6. Excused(n)
      BY <3>2, <1>4, <1>7, <1>8 DEF Excused
    <3>7. Somewhere(n)
      BY <1>3, <1>4, <1>7, <1>8 DEF InHand, Somewhere
    <3>8. Kept(n)
      BY <3>3, <3>4, <3>5, <3>6, <3>7 DEF Kept
    <3>9. Roomy(n)
      BY <1>1, <1>7 DEF Roomy
    <3> QED
      BY <1>2, <3>1, <3>8, <3>9, KeptHere
  <2>2. CASE f.name # Unnamed
    <3>1. f.name \in Name
      BY <1>5, <2>2 DEF Flush
    <3>2. disk.logs[f.name] \subseteq e.excused
      BY <1>1, <1>4, <2>2 DEF Kept, Excused
    <3>3. disk' = [disk EXCEPT !.logs[f.name] = {}]
      BY <1>2, <2>2
    <3>4. {} \in {f.events, {}}
      OBVIOUS
    <3>5. /\ mon' \in Monitor /\ mon'.recorded = e.recorded
          /\ mon'.buffer = e.buffer /\ mon'.flushes = e.flushes
          /\ mon'.alerts = e.alerts /\ e.excused \subseteq mon'.excused
          /\ mon'.excused \subseteq 1 .. Len(e.recorded)
      BY <1>2, <1>4, <1>7, <1>8
    <3>6. /\ f.events \subseteq {} \cup mon'.excused
          /\ \A g \in e.flushes : g.name = f.name => f.events \subseteq mon'.excused
      BY <1>2, <1>8
    <3>7. disk \in [made : BOOLEAN, logs : [Name -> SUBSET Nat]] /\ e \in Monitor
      BY <1>1, <1>4
    <3> QED
      BY <1>3, <3>1, <3>2, <3>3, <3>4, <3>5, <3>6, <3>7, WrittenKept
  <2> QED
    BY <2>1, <2>2
<1>10. Roomy(mon)'
  BY <1>1, <1>2, <1>7 DEF Roomy
<1>11. CallsFit' /\ running' \in BOOLEAN
  BY <1>1, <1>2, <1>7, StopEndsType DEF Around
<1>12. Around'
  BY <1>1, <1>2, <1>11, OverlapType DEF Around
<1> QED
  BY <1>9, <1>10, <1>11, <1>12, StepFromParts

\* The functions and timers after a start or a stop.
LEMMA ActivatedPatches ==
  ASSUME patches \in Patches, NEW k \in Start
  PROVE  [patches EXCEPT !.stack = Append(@, k),
                         !.originals[k] = patches.stack,
                         !.active = @ \cup {k},
                         !.timers = @ \cup {k},
                         !.flushInterval = k] \in Patches
<1> DEFINE stack == Append(patches.stack, k)
           originals == [patches.originals EXCEPT ![k] = patches.stack]
           active == patches.active \cup {k}
           timers == patches.timers \cup {k}
<1>1. stack \in Seq(Start)
  BY DEF Patches
<1>2. originals \in [Start -> Seq(Start)]
  BY DEF Patches
<1>3. active \in SUBSET Start /\ timers \in SUBSET Start
  BY DEF Patches
<1>4. [patches EXCEPT !.stack = Append(@, k), !.originals[k] = patches.stack,
                      !.active = @ \cup {k}, !.timers = @ \cup {k},
                      !.flushInterval = k]
        = [patches EXCEPT !.stack = stack, !.originals = originals,
                          !.active = active, !.timers = timers,
                          !.flushInterval = k]
  BY DEF Patches
<1> HIDE DEF stack, originals, active, timers
<1> QED
  BY <1>1, <1>2, <1>3, <1>4 DEF Patches

LEMMA RestoredPatches ==
  ASSUME patches \in Patches, NEW k \in {0} \cup Start
  PROVE  LET cleared == [patches EXCEPT !.timers = @ \ {patches.flushInterval},
                                        !.flushInterval = 0]
         IN  /\ cleared \in Patches
             /\ cleared.stack = patches.stack /\ cleared.active = patches.active
             /\ cleared.timers = patches.timers \ {patches.flushInterval}
             /\ cleared.flushInterval = 0
             /\ cleared.collector = patches.collector
             /\ cleared.originals = patches.originals
             /\ k \in patches.active
                  => [cleared EXCEPT !.stack = patches.originals[k],
                                     !.active = @ \ {k}] \in Patches
BY DEF Patches

LEMMA BeginStartStep ==
  ASSUME IInv, History, NEW c \in Caller, BeginStart(c)
  PROVE  IInv'
<1>1. Kept(mon) /\ Roomy(mon) /\ Around /\ CallsFit
  BY ToParts
<1>2. /\ starts < MaxStarts /\ starts' = starts + 1
      /\ calls' = [calls EXCEPT ![c] = [phase |-> "activating", start |-> starts + 1]]
      /\ patches' = [patches EXCEPT !.collector = starts + 1]
      /\ UNCHANGED <<now, mon, disk, running>>
  BY DEF BeginStart, Begin
<1>3. starts + 1 \in Start
  BY <1>1, <1>2, ConstantTypes DEF Around, Start
<1>4. [phase |-> "activating", start |-> starts + 1] \in Call(1 .. Len(mon.recorded))
  BY <1>3 DEF Call
<1>5. CallsFit'
  BY <1>1, <1>2, <1>4 DEF CallsFit
<1>6. patches' \in Patches
  BY <1>1, <1>2, <1>3 DEF Around, Patches
<1>7. Around'
  BY <1>1, <1>2, <1>3, <1>6, OverlapType DEF Around
<1> QED
  BY <1>1, <1>2, <1>5, <1>7, KeptHere, StepFromParts

LEMMA ActivatedStep ==
  ASSUME IInv, History, NEW c \in Caller, Activated(c)
  PROVE  IInv'
<1>1. Kept(mon) /\ Roomy(mon) /\ Around /\ CallsFit
  BY ToParts
<1>2. /\ calls[c].phase = "activating"
      /\ patches' = [patches EXCEPT !.stack = Append(@, calls[c].start),
                                    !.originals[calls[c].start] = patches.stack,
                                    !.active = @ \cup {calls[c].start},
                                    !.timers = @ \cup {calls[c].start},
                                    !.flushInterval = calls[c].start]
      /\ running' = TRUE /\ calls' = [calls EXCEPT ![c] = Idle]
      /\ UNCHANGED <<now, mon, disk, starts>>
  BY DEF Activated
<1>3. calls[c].start \in Start
  BY <1>1, <1>2 DEF CallsFit, Call, Idle
<1>4. patches' \in Patches
  BY <1>1, <1>2, <1>3, ActivatedPatches DEF Around
<1>5. CallsFit'
  BY <1>1, <1>2 DEF CallsFit, Call
<1>6. Around'
  BY <1>1, <1>2, <1>4, OverlapType DEF Around
<1> QED
  BY <1>1, <1>2, <1>5, <1>6, KeptHere, StepFromParts

LEMMA BeginStopStep ==
  ASSUME IInv, History, NEW c \in Caller, BeginStop(c)
  PROVE  IInv'
<1> DEFINE k == IF patches.collector \in patches.active
                THEN patches.collector ELSE 0
           call == [phase |-> "restoring", start |-> k]
<1>1. Kept(mon) /\ Roomy(mon) /\ Around /\ CallsFit
  BY ToParts
<1>2. /\ calls' = [calls EXCEPT ![c] = call]
      /\ UNCHANGED <<now, mon, disk, running, patches, starts>>
  BY DEF BeginStop, Begin
<1>3. k \in {0} \cup Start
  BY <1>1 DEF Around, Patches
<1>4. call \in Call(1 .. Len(mon.recorded))
  BY <1>3 DEF Call
<1> HIDE DEF call
<1>5. CallsFit'
  BY <1>1, <1>2, <1>4 DEF CallsFit
<1>6. Around'
  BY <1>1, <1>2, OverlapType DEF Around
<1> QED
  BY <1>1, <1>2, <1>5, <1>6, KeptHere, StepFromParts

LEMMA RestoredStep ==
  ASSUME IInv, History, NEW c \in Caller, Restored(c)
  PROVE  IInv'
<1> DEFINE k == calls[c].start
           cleared == [patches EXCEPT !.timers = @ \ {patches.flushInterval},
                                      !.flushInterval = 0]
           stopped == [cleared EXCEPT !.stack = patches.originals[k],
                                      !.active = @ \ {k}]
           call == [phase |-> "flushing", events |-> mon.buffer]
<1>1. /\ Kept(mon) /\ Roomy(mon) /\ Around /\ CallsFit
      /\ patches \in Patches /\ running \in BOOLEAN
  BY ToParts DEF Around
<1>2. /\ calls[c].phase = "restoring" /\ mon' = flushBuffer(mon)
      /\ patches' = IF k \in patches.active THEN stopped ELSE cleared
      /\ UNCHANGED <<now, disk, starts>>
      /\ \/ running' = FALSE /\ calls' = [calls EXCEPT ![c] = Idle]
         \/ running' = running /\ calls' = [calls EXCEPT ![c] = call]
  BY DEF Restored
<1>3. k \in {0} \cup Start
  BY <1>1, <1>2 DEF CallsFit, Call, Idle
<1>4. Kept(mon)' /\ Roomy(mon)' /\ mon'.recorded = mon.recorded
  BY <1>2, FlushBegins
<1>5. call \in Call(1 .. Len(mon.recorded)) /\ Idle \in Call(1 .. Len(mon.recorded))
  BY <1>1 DEF Kept, Fits, Call
<1>6. cleared \in Patches /\ (k \in patches.active => stopped \in Patches)
  BY <1>1, <1>3, RestoredPatches
<1> HIDE DEF call, stopped, cleared
<1>7. patches' \in Patches
  BY <1>2, <1>6
<1>8. CallsFit'
  BY <1>1, <1>2, <1>4, <1>5 DEF CallsFit
<1>9. running' \in BOOLEAN
  BY <1>1, <1>2
<1>10. Around'
  BY <1>1, <1>2, <1>7, <1>9, OverlapType DEF Around
<1> QED
  BY <1>4, <1>8, <1>10, StepFromParts

LEMMA TickStep ==
  ASSUME IInv, History, Tick
  PROVE  IInv'
<1>1. Kept(mon) /\ Roomy(mon) /\ Around /\ CallsFit
  BY ToParts
<1>2. /\ now < MaxTime /\ now' = now + 1
      /\ UNCHANGED <<mon, disk, running, patches, starts, calls>>
  BY DEF Tick
<1>3. now' \in Name
  BY <1>1, <1>2, ConstantTypes DEF Around, Name
<1>4. Around' /\ CallsFit'
  BY <1>1, <1>2, <1>3, OverlapType DEF Around, CallsFit
<1> QED
  BY <1>1, <1>2, <1>4, KeptHere, StepFromParts

LEMMA StutterStep ==
  ASSUME IInv, UNCHANGED vars
  PROVE  IInv'
<1>1. Kept(mon) /\ Roomy(mon) /\ Around /\ CallsFit
  BY ToParts
<1>2. Kept(mon)' /\ Roomy(mon)'
  BY <1>1, KeptHere DEF vars
<1>3. Around' /\ CallsFit'
  BY <1>1 DEF Around, CallsFit, vars
<1> QED
  BY <1>2, <1>3, StepFromParts

LEMMA KeptStep == IInv /\ [Next]_vars => IInv'
<1> SUFFICES ASSUME IInv, [Next]_vars PROVE IInv'
  OBVIOUS
<1>1. CASE UNCHANGED vars
  BY <1>1, StutterStep
<1>2. CASE Next
  <2>1. History
    BY <1>2 DEF Next
  <2>2. ASSUME NEW event \in Offered, NEW sampled \in BOOLEAN,
               HandleEvent(event, sampled)
        PROVE  IInv'
    BY <2>1, <2>2, HandleEventStep
  <2>3. CASE TimerFlush
    BY <2>1, <2>3, TimerFlushStep
  <2>4. ASSUME NEW f \in mon.flushes,
               DirectoryMade(f) \/ WriteDone(f) \/ FlushFails(f)
        PROVE  IInv'
    BY <2>1, <2>4, DirectoryMadeStep, WriteDoneStep, FlushFailsStep
  <2>5. ASSUME NEW c \in Caller,
               BeginStart(c) \/ Activated(c) \/ BeginStop(c) \/ Restored(c)
        PROVE  IInv'
    BY <2>1, <2>5, BeginStartStep, ActivatedStep, BeginStopStep, RestoredStep
  <2>6. CASE Tick
    BY <2>1, <2>6, TickStep
  <2> QED
    BY <1>2, <2>2, <2>3, <2>4, <2>5, <2>6 DEF Next
<1> QED
  BY <1>1, <1>2

\* Whatever flushes, timers, failed writes, stops and starts come in between:
\* every event is in one place, and what a write may overwrite is excused.
THEOREM MonitorInvariance == Spec => []IInv
<1> QED
  BY KeptInitially, KeptStep, PTL DEF Spec

\* The state is what the code can hold; a buffer that is full is flushed.
THEOREM MonitorTypeCorrect == Spec => []TypeOK
<1>1. IInv => TypeOK
  BY DEF IInv
<1> QED
  BY <1>1, MonitorInvariance, PTL

\* Every recorded event is in the buffer, on its way to a file or in one,
\* unless its write failed or a name was used twice, and none is in two places.
THEOREM NoEventIsLost == Spec => []EventsAreKept
<1>1. IInv => EventsAreKept
  <2> SUFFICES ASSUME IInv PROVE EventsAreKept
    OBVIOUS
  <2> DEFINE places == {mon.buffer} \cup {f.events : f \in mon.flushes}
                         \cup {disk.logs[n] : n \in Name}
  <2>1. Fits(mon) /\ Apart(mon) /\ Somewhere(mon) /\ mon.recorded \in Seq(Entry)
    BY DEF IInv, Kept, Fits, Monitor
  <2>2. DOMAIN mon.recorded = 1 .. Len(mon.recorded)
    BY <2>1
  <2>3. DOMAIN mon.recorded \subseteq (UNION places) \cup mon.excused
    <3> SUFFICES ASSUME NEW i \in 1 .. Len(mon.recorded)
                 PROVE  i \in (UNION places) \cup mon.excused
      BY <2>2
    <3>1. mon.buffer \in places
          /\ (\A f \in mon.flushes : f.events \in places)
          /\ (\A n \in Name : disk.logs[n] \in places)
      OBVIOUS
    <3>2. \/ i \in mon.buffer \cup mon.excused
          \/ \E f \in mon.flushes : i \in f.events
          \/ \E n \in Name : i \in disk.logs[n]
      BY <2>1 DEF Somewhere
    <3> HIDE DEF places
    <3>3. ASSUME NEW p \in places, i \in p
          PROVE  i \in UNION places
      BY <3>3
    <3> QED
      BY <3>1, <3>2, <3>3
  <2>4. ASSUME NEW p \in places, NEW q \in places
        PROVE  p = q \/ p \cap q = {}
    BY <2>1 DEF Apart
  <2> QED
    BY <2>3, <2>4 DEF EventsAreKept
<1> QED
  BY <1>1, MonitorInvariance, PTL
-----------------------------------------------------------------------------
(***************************************************************************)
(* No burst goes without an alert.                                          *)
(***************************************************************************)

\* The event that tells of an alert is in no window.
LEMMA SameWindow ==
  ASSUME NEW m \in Monitor, NEW n,
         n.recorded \in {m.recorded,
                         Append(m.recorded, [event |-> MonitorAlert, at |-> now])}
  PROVE  BlockedBurst(n) <=> BlockedBurst(m)
<1>1. CASE n.recorded = m.recorded
  BY <1>1 DEF BlockedBurst, getWindowEvents
<1>2. CASE n.recorded = Append(m.recorded, [event |-> MonitorAlert, at |-> now])
  <2> DEFINE entry == [event |-> MonitorAlert, at |-> now]
             length == Len(m.recorded)
  <2>1. m.recorded \in Seq(Entry) /\ length \in Nat
    BY DEF Monitor
  <2>2. /\ DOMAIN m.recorded = 1 .. length
        /\ DOMAIN n.recorded = (1 .. length) \cup {length + 1}
        /\ n.recorded[length + 1] = entry
        /\ \A i \in 1 .. length : n.recorded[i] = m.recorded[i]
    <3>1. n.recorded = Append(m.recorded, entry)
      BY <1>2
    <3> HIDE DEF entry
    <3> QED
      BY <2>1, <3>1
  <2>3. n.recorded[length + 1].event = MonitorAlert
    BY <2>2
  <2> HIDE DEF entry, length
  <2>4. getWindowEvents(n) = getWindowEvents(m)
    BY <2>2, <2>3 DEF getWindowEvents
  <2>5. {i \in getWindowEvents(n) : n.recorded[i].event.blocked}
          = {i \in getWindowEvents(m) : m.recorded[i].event.blocked}
    <3>1. \A i \in getWindowEvents(m) : n.recorded[i] = m.recorded[i]
      BY <2>2 DEF getWindowEvents
    <3> QED
      BY <2>4, <3>1
  <2> QED
    BY <2>5 DEF BlockedBurst
<1> QED
  BY <1>1, <1>2

LEMMA AlertedMore ==
  ASSUME NEW m, NEW codes, NEW more, codes \subseteq more, Alerted(m, codes)
  PROVE  Alerted(m, more)
BY DEF Alerted

\* After the alert of an event, if any, no burst is without one.
LEMMA BuildAlertAlerts ==
  ASSUME NEW m, Kept(m), NEW event, now \in Name
  PROVE  LET n == buildMonitorAlertEvent(m, event)
         IN  /\ BlockedBurst(n) =>
                  Alerted(n, {"blocked-event-burst", "preload-integrity-drift"})
             /\ PressureBurst(n) => Alerted(n, Code)
<1> DEFINE n == buildMonitorAlertEvent(m, event)
<1>1. m \in Monitor
  BY DEF Kept, Fits
<1>2. \A code \in Code :
        /\ createAlertEvent(m, code).recorded
             \in {m.recorded, Append(m.recorded, [event |-> MonitorAlert, at |-> now])}
        /\ Alerted(createAlertEvent(m, code), {code})
  BY CreateAlertFields
<1>3. /\ "preload-integrity-drift" \in Code /\ "blocked-event-burst" \in Code
      /\ "runtime-pressure-burst" \in Code
  BY DEF Code
<1>4. CASE isIntegrityDriftEvent(event)
  <2>1. n = createAlertEvent(m, "preload-integrity-drift")
    BY <1>4 DEF buildMonitorAlertEvent
  <2>2. Alerted(n, {"preload-integrity-drift"})
    BY <1>2, <1>3, <2>1
  <2> QED
    BY <1>3, <2>2, AlertedMore
<1>5. CASE ~ isIntegrityDriftEvent(event) /\ BlockedBurst(m)
  <2>1. n = createAlertEvent(m, "blocked-event-burst")
    BY <1>5 DEF buildMonitorAlertEvent
  <2>2. Alerted(n, {"blocked-event-burst"})
    BY <1>2, <1>3, <2>1
  <2> QED
    BY <1>3, <2>2, AlertedMore
<1>6. CASE ~ isIntegrityDriftEvent(event) /\ ~ BlockedBurst(m) /\ PressureBurst(m)
  <2>1. n = createAlertEvent(m, "runtime-pressure-burst")
    BY <1>6 DEF buildMonitorAlertEvent
  <2>2. Alerted(n, {"runtime-pressure-burst"})
    BY <1>2, <1>3, <2>1
  <2>3. n.recorded \in {m.recorded,
                        Append(m.recorded, [event |-> MonitorAlert, at |-> now])}
    BY <1>2, <1>3, <2>1
  <2> HIDE DEF n
  <2>4. ~ BlockedBurst(n)
    BY <1>1, <1>6, <2>3, SameWindow
  <2>5. Alerted(n, Code)
    BY <1>3, <2>2, AlertedMore
  <2>6. /\ BlockedBurst(n) =>
             Alerted(n, {"blocked-event-burst", "preload-integrity-drift"})
        /\ PressureBurst(n) => Alerted(n, Code)
    BY <2>4, <2>5
  <2> QED
    BY <2>6 DEF n
<1>7. CASE ~ isIntegrityDriftEvent(event) /\ ~ BlockedBurst(m) /\ ~ PressureBurst(m)
  BY <1>7 DEF buildMonitorAlertEvent
<1> QED
  BY <1>4, <1>5, <1>6, <1>7

\* What a step that records leaves behind.
BurstsNow ==
  mon'.recorded # mon.recorded =>
    /\ BlockedBurst(mon') =>
         Alerted(mon', {"blocked-event-burst", "preload-integrity-drift"})
    /\ PressureBurst(mon') => Alerted(mon', Code)

LEMMA BurstsStep == IInv /\ [Next]_vars => [BurstsNow]_vars
<1> SUFFICES ASSUME IInv, Next PROVE BurstsNow
  OBVIOUS
<1>1. /\ Kept(mon) /\ mon \in Monitor /\ now \in Name
      /\ disk \in [made : BOOLEAN, logs : [Name -> SUBSET Nat]]
  BY ToParts DEF Around
<1>2. ASSUME NEW event \in Offered, NEW sampled \in BOOLEAN,
             HandleEvent(event, sampled)
      PROVE  BurstsNow
  <2> DEFINE m == IF sampled THEN recordEvent(mon, event) ELSE mon
  <2>1. mon' = buildMonitorAlertEvent(m, event)
    BY <1>2 DEF HandleEvent
  <2>2. event \in Offered \cup {MonitorAlert}
    OBVIOUS
  <2>3. Kept(m)
    BY <1>1, <2>2, RecordEventKept
  <2> HIDE DEF m
  <2> QED
    BY <1>1, <2>1, <2>3, BuildAlertAlerts DEF BurstsNow
<1>3. CASE mon' = flushBuffer(mon)
  BY <1>1, <1>3, FlushBufferFields DEF BurstsNow
<1>4. ASSUME NEW f \in mon.flushes,
             DirectoryMade(f) \/ WriteDone(f) \/ FlushFails(f)
      PROVE  BurstsNow
  <2> DEFINE e == [mon EXCEPT !.flushes = @ \ {f}]
  <2>1. e \in Monitor /\ e.recorded = mon.recorded
    BY <1>1, TakenFields
  <2>2. f.events \in SUBSET Nat
    BY <1>1 DEF Monitor, Flush
  <2>3. CASE DirectoryMade(f)
    <3>1. mon' = named(e, f.events)
      BY <2>3 DEF DirectoryMade
    <3> HIDE DEF e
    <3>2. named(e, f.events).recorded = e.recorded
      BY <1>1, <2>1, <2>2, NamedFields
    <3> QED
      BY <2>1, <3>1, <3>2 DEF BurstsNow
  <2>4. CASE WriteDone(f)
    BY <2>1, <2>4 DEF WriteDone, BurstsNow
  <2>5. CASE FlushFails(f)
    BY <1>1, <2>5 DEF FlushFails, BurstsNow, Monitor
  <2> QED
    BY <1>4, <2>3, <2>4, <2>5
<1>5. CASE mon' = mon
  BY <1>5 DEF BurstsNow
<1> QED
  BY <1>2, <1>3, <1>4, <1>5
     DEF Next, TimerFlush, BeginStart, Activated, BeginStop, Restored, Tick

\* Whenever something has been recorded, a burst of blocked events within the
\* window has an alert that is not older than the window, and so has one of
\* risky events: no other alert and no forgotten one hides it.
THEOREM NoBurstIsMissed == Spec => BurstsAreAlerted
<1>1. [][BurstsNow]_vars => BurstsAreAlerted
  BY DEF BurstsNow, BurstsAreAlerted
<1> QED
  BY <1>1, MonitorInvariance, BurstsStep, PTL DEF Spec
-----------------------------------------------------------------------------
(***************************************************************************)
(* Calls of start and stop one at a time leave nothing behind.              *)
(***************************************************************************)

LEMMA ApartNow ==
  ASSUME History, ~ overlap', OneAtATime \/ overlap
  PROVE  OneAtATime /\ Alone'
<1>1. ~ overlap /\ OneAtATime
  BY DEF History
<1>2. \A c, d \in Caller : ~ (c # d /\ calls'[c] # Idle /\ calls'[d] # Idle)
  BY Zenon DEF History
<1> QED
  BY <1>1, <1>2 DEF Alone

\* A step that leaves starting and stopping alone.
LEMMA OneStays ==
  ASSUME OneAtATime, UNCHANGED <<running, patches, calls>>
  PROVE  OneAtATime'
BY DEF OneAtATime, Alone, Bare, Worn

\* A stop that has ended leaves nothing, because its restoring did.
LEMMA OneStopEnds ==
  ASSUME OneAtATime, running \in BOOLEAN, Alone', NEW f, NEW written \in BOOLEAN,
         StopEnds(f, written), UNCHANGED patches
  PROVE  OneAtATime'
<1> DEFINE awaiting == {c \in Caller : calls[c].phase = "flushing"
                                         /\ calls[c].events = f.events}
<1>1. /\ \A c \in Caller : calls'[c] = IF c \in awaiting THEN Idle ELSE calls[c]
      /\ running' = (running /\ (awaiting = {} \/ ~ written))
  BY DEF StopEnds
<1>2. Idle.phase = "idle"
  BY DEF Idle
<1>3. CASE awaiting = {}
  <2>1. \A c \in Caller : calls'[c] = calls[c]
    BY <1>1, <1>3
  <2>2. running' = running
    BY <1>1, <1>3
  <2>3. \A k : Worn(k) => Worn(k)'
    BY <2>2 DEF Worn
  <2>4. Bare <=> Bare'
    BY DEF Bare
  <2>5. Bare' \/ Worn(patches.collector)'
    BY <2>3, <2>4 DEF OneAtATime
  <2>6. \A c \in Caller :
          /\ calls'[c].phase = "activating" =>
               ~ running' /\ calls'[c].start = patches'.collector
          /\ calls'[c].phase = "restoring" =>
               \/ Worn(patches.collector)' /\ calls'[c].start = patches'.collector
               \/ Bare'
          /\ calls'[c].phase = "flushing" => Bare'
    BY <2>1, <2>2, <2>3, <2>4 DEF OneAtATime
  <2> QED
    BY <2>5, <2>6 DEF OneAtATime
<1>4. CASE awaiting # {}
  <2>1. PICK c \in Caller : calls[c].phase = "flushing"
    BY <1>4
  <2>2. Bare
    BY <2>1 DEF OneAtATime
  <2>3. Bare'
    BY <2>2 DEF Bare
  <2>4. \A d \in Caller : calls'[d].phase # "activating"
    BY <1>1, <1>2, <2>1 DEF OneAtATime, Alone
  <2> QED
    BY <2>3, <2>4 DEF OneAtATime
<1> QED
  BY <1>3, <1>4

LEMMA OneBeginStart ==
  ASSUME IInv, OneAtATime, Alone', NEW c \in Caller, BeginStart(c)
  PROVE  OneAtATime'
<1>1. /\ ~ running /\ starts' = starts + 1 /\ calls[c] = Idle
      /\ calls' = [calls EXCEPT ![c] = [phase |-> "activating", start |-> starts + 1]]
      /\ patches' = [patches EXCEPT !.collector = starts + 1]
      /\ UNCHANGED <<now, mon, disk, running>>
  BY DEF BeginStart, Begin
<1>2. patches \in Patches /\ calls \in [Caller -> Call(1 .. Len(mon.recorded))]
  BY ToParts DEF Around, CallsFit
<1>3. Bare
  BY <1>1 DEF OneAtATime, Worn
<1>4. Bare' /\ patches'.collector = starts + 1
  BY <1>1, <1>2, <1>3 DEF Bare, Patches
<1>5. \A d \in Caller : d # c => calls'[d] = Idle
  BY <1>1, <1>2 DEF Alone, Idle
<1>6. calls'[c] = [phase |-> "activating", start |-> starts + 1]
  BY <1>1, <1>2
<1>7. Idle.phase = "idle"
  BY DEF Idle
<1>8. \A d \in Caller :
        /\ calls'[d].phase = "activating" =>
             ~ running' /\ calls'[d].start = patches'.collector
        /\ calls'[d].phase \in {"activating", "idle"}
  BY <1>1, <1>4, <1>5, <1>6, <1>7
<1> QED
  BY <1>4, <1>8 DEF OneAtATime

LEMMA OneActivated ==
  ASSUME IInv, OneAtATime, Alone', NEW c \in Caller, Activated(c)
  PROVE  OneAtATime'
<1> DEFINE k == calls[c].start
<1>1. /\ calls[c].phase = "activating"
      /\ patches' = [patches EXCEPT !.stack = Append(@, k),
                                    !.originals[k] = patches.stack,
                                    !.active = @ \cup {k},
                                    !.timers = @ \cup {k},
                                    !.flushInterval = k]
      /\ running' = TRUE /\ calls' = [calls EXCEPT ![c] = Idle]
  BY DEF Activated
<1>2. patches \in Patches /\ calls \in [Caller -> Call(1 .. Len(mon.recorded))]
  BY ToParts DEF Around, CallsFit
<1>3. k \in Start /\ k = patches.collector /\ ~ running
  BY <1>1, <1>2 DEF OneAtATime, Call, Idle
<1>4. Bare
  BY <1>3 DEF OneAtATime, Worn
<1> HIDE DEF k
<1>5. /\ patches'.stack = Append(patches.stack, k)
      /\ patches'.originals[k] = patches.stack
      /\ patches'.active = patches.active \cup {k}
      /\ patches'.timers = patches.timers \cup {k}
      /\ patches'.flushInterval = k /\ patches'.collector = patches.collector
  BY <1>1, <1>2, <1>3 DEF Patches
<1>6. Append(<< >>, k) = <<k>>
  OBVIOUS
<1>7. Worn(patches.collector)'
  BY <1>1, <1>3, <1>4, <1>5, <1>6 DEF Worn, Bare
<1>8. calls[c] # Idle
  BY <1>1 DEF Idle
<1>9. \A d \in Caller : calls'[d] = Idle
  BY <1>1, <1>2, <1>8 DEF OneAtATime, Alone
<1>10. Idle.phase = "idle"
  BY DEF Idle
<1>11. \A d \in Caller : calls'[d].phase = "idle"
  BY <1>9, <1>10
<1> QED
  BY <1>7, <1>11 DEF OneAtATime

LEMMA OneBeginStop ==
  ASSUME IInv, OneAtATime, Alone', NEW c \in Caller, BeginStop(c)
  PROVE  OneAtATime'
<1> DEFINE k == IF patches.collector \in patches.active
                THEN patches.collector ELSE 0
<1>1. /\ running /\ calls' = [calls EXCEPT ![c] = [phase |-> "restoring", start |-> k]]
      /\ UNCHANGED <<running, patches>>
  BY DEF BeginStop, Begin
<1>2. calls \in [Caller -> Call(1 .. Len(mon.recorded))]
  BY ToParts DEF CallsFit
<1>3. Bare' \/ Worn(patches.collector)'
  BY <1>1 DEF OneAtATime, Bare, Worn
<1>4. Worn(patches.collector)' => k = patches'.collector
  BY <1>1 DEF Worn
<1> HIDE DEF k
<1>5. calls'[c] = [phase |-> "restoring", start |-> k]
      /\ calls'[c] # Idle
  BY <1>1, <1>2 DEF Idle
<1>6. \A d \in Caller : d # c => calls'[d] = Idle
  BY <1>5 DEF Alone
<1>7. Idle.phase = "idle"
  BY DEF Idle
<1>8. \A d \in Caller :
        \/ calls'[d].phase = "idle"
        \/ calls'[d].phase = "restoring" /\ calls'[d].start = k
  BY <1>5, <1>6, <1>7
<1> QED
  BY <1>3, <1>4, <1>8 DEF OneAtATime

LEMMA OneRestored ==
  ASSUME IInv, OneAtATime, Alone', NEW c \in Caller, Restored(c)
  PROVE  OneAtATime'
<1> DEFINE k == calls[c].start
           cleared == [patches EXCEPT !.timers = @ \ {patches.flushInterval},
                                      !.flushInterval = 0]
           stopped == [cleared EXCEPT !.stack = patches.originals[k],
                                      !.active = @ \ {k}]
<1>1. /\ calls[c].phase = "restoring"
      /\ patches' = IF k \in patches.active THEN stopped ELSE cleared
      /\ \A d \in Caller : d # c => calls'[d] = calls[d]
      /\ calls'[c].phase \in {"idle", "flushing"}
  <2>1. calls \in [Caller -> Call(1 .. Len(mon.recorded))]
    BY ToParts DEF CallsFit
  <2> QED
    BY <2>1 DEF Restored, Idle
<1>2. patches \in Patches /\ calls \in [Caller -> Call(1 .. Len(mon.recorded))]
  BY ToParts DEF Around, CallsFit
<1>3. k \in {0} \cup Start
  BY <1>1, <1>2 DEF Call, Idle
<1>4. /\ cleared \in Patches
      /\ cleared.stack = patches.stack /\ cleared.active = patches.active
      /\ cleared.timers = patches.timers \ {patches.flushInterval}
      /\ cleared.flushInterval = 0
  BY <1>2, <1>3, RestoredPatches
<1>5. Bare'
  <2>1. CASE Bare
    <3>1. k \notin patches.active
      BY <2>1 DEF Bare
    <3> QED
      BY <2>1, <3>1, <1>1, <1>4 DEF Bare
  <2>2. CASE Worn(patches.collector) /\ k = patches.collector
    <3>1. k \in patches.active /\ patches.originals[k] = << >>
          /\ patches.active = {k} /\ patches.timers = {k}
          /\ patches.flushInterval = k
      BY <2>2 DEF Worn
    <3> HIDE DEF cleared, k
    <3>2. /\ stopped.stack = patches.originals[k]
          /\ stopped.active = cleared.active \ {k}
          /\ stopped.timers = cleared.timers
          /\ stopped.flushInterval = cleared.flushInterval
      BY <1>4 DEF Patches
    <3> HIDE DEF stopped
    <3>3. patches' = stopped
      BY <1>1, <3>1
    <3> QED
      BY <3>1, <3>2, <3>3, <1>4 DEF Bare
  <2> QED
    BY <2>1, <2>2, <1>1 DEF OneAtATime
<1>6. Idle.phase = "idle" /\ calls[c] # Idle
  BY <1>1 DEF Idle
<1>7. \A d \in Caller : calls'[d].phase \in {"idle", "flushing"}
  BY <1>1, <1>6 DEF OneAtATime, Alone
<1> QED
  BY <1>5, <1>7 DEF OneAtATime

LEMMA OneInitially == Init => PInv
<1> SUFFICES ASSUME Init PROVE PInv
  OBVIOUS
<1>1. \A c \in Caller : calls[c] = Idle
  BY DEF Init
<1>2. Idle.phase = "idle"
  BY DEF Idle
<1>3. Bare
  BY DEF Init, Bare
<1>4. OneAtATime
  BY <1>1, <1>2, <1>3 DEF OneAtATime, Alone
<1> QED
  BY <1>4, KeptInitially DEF PInv

LEMMA OneStep == PInv /\ [Next]_vars => PInv'
<1> SUFFICES ASSUME PInv, [Next]_vars PROVE PInv'
  OBVIOUS
<1>1. IInv /\ IInv' /\ running \in BOOLEAN
  BY KeptStep, ToParts DEF PInv, Around
<1>2. CASE UNCHANGED vars
  BY <1>1, <1>2, OneStays DEF PInv, vars
<1>3. CASE Next
  <2> SUFFICES ASSUME ~ overlap' PROVE OneAtATime'
    BY <1>1 DEF PInv
  <2>1. OneAtATime /\ Alone'
    BY <1>3, ApartNow DEF PInv, Next
  <2>2. CASE UNCHANGED <<running, patches, calls>>
    BY <2>1, <2>2, OneStays
  <2>3. ASSUME NEW f \in mon.flushes, WriteDone(f) \/ FlushFails(f)
        PROVE  OneAtATime'
    <3>1. \E written \in BOOLEAN : StopEnds(f, written) /\ UNCHANGED patches
      BY <2>3 DEF WriteDone, FlushFails
    <3> QED
      BY <1>1, <2>1, <3>1, OneStopEnds
  <2>4. ASSUME NEW c \in Caller,
               BeginStart(c) \/ Activated(c) \/ BeginStop(c) \/ Restored(c)
        PROVE  OneAtATime'
    BY <1>1, <2>1, <2>4, OneBeginStart, OneActivated, OneBeginStop, OneRestored
  <2> QED
    BY <1>3, <2>2, <2>3, <2>4 DEF Next, HandleEvent, TimerFlush, DirectoryMade, Tick
<1> QED
  BY <1>2, <1>3

\* A monitor that was stopped, by calls of start and stop that do not overlap,
\* leaves neither a patched function nor a timer, also after a stop whose last
\* flush failed and that was called again.
THEOREM StoppedIsClean == Spec => []NothingIsLeftBehind
<1>1. PInv => NothingIsLeftBehind
  <2> SUFFICES ASSUME PInv, ~ overlap, ~ running
               PROVE  patches.stack = << >> /\ patches.timers = {}
    BY DEF NothingIsLeftBehind
  <2>1. Bare
    BY DEF PInv, OneAtATime, Worn
  <2> QED
    BY <2>1 DEF Bare
<1> QED
  BY <1>1, OneInitially, OneStep, PTL DEF Spec
-----------------------------------------------------------------------------
(***************************************************************************)
(* The session: zones are sealed by what was counted.                       *)
(***************************************************************************)

Zones == [Zone -> ProtectedZone]

\* as LevelsFollowAnomalies says of the zones in memory
Follows(zone) ==
  ~ zone.byHand =>
    zone.level = IF AtLeast(zone.base, Called(zone.anomalyCount))
                 THEN zone.base ELSE Called(zone.anomalyCount)

Good(snapshot) == snapshot \in Zones /\ \A z \in Zone : Follows(snapshot[z])

\* no score reaches the threshold of the condition on scores
Doing ==
  {IdleTask}
    \cup [phase : {"scored"}, resource : Resource, score : 0 .. 84]
    \cup [phase : {"open", "write"}, zones : Zones]
    \cup [phase : {"init", "read"}]

\* wherever zones are kept or on their way, they follow what was counted
Levels ==
  /\ zones = NoZones \/ Good(zones)
  /\ file.state = "whole" => Good(file.zones)
  /\ tasks \in [Task -> Doing]
  /\ \A t \in Task :
       /\ tasks[t].phase = "scored" => Good(zones)
       /\ tasks[t].phase \in {"open", "write"} =>
            Good(zones) /\ Good(tasks[t].zones)
  /\ session.started => Good(zones)
  /\ session \in [started : BOOLEAN, listeners : Nat]
  /\ used \in [events : Nat, starts : Nat, byHand : Nat]

\* The four levels and their order.
LEMMA Order ==
  /\ SealLevel = {"OPEN", "OBSERVED", "RESTRICTED", "SEALED"}
  /\ SEAL_ORDER["OPEN"] = 0 /\ SEAL_ORDER["OBSERVED"] = 1
  /\ SEAL_ORDER["RESTRICTED"] = 2 /\ SEAL_ORDER["SEALED"] = 3
BY DEF SealLevel, SEAL_ORDER

LEMMA Escalation ==
  /\ DOMAIN DEFAULT_ESCALATION = 1 .. 4
  /\ DEFAULT_ESCALATION[1]
       = [trigger |-> "count", threshold |-> ObservedAfter, target |-> "OBSERVED"]
  /\ DEFAULT_ESCALATION[2]
       = [trigger |-> "count", threshold |-> RestrictedAfter, target |-> "RESTRICTED"]
  /\ DEFAULT_ESCALATION[3]
       = [trigger |-> "count", threshold |-> SealedAfter, target |-> "SEALED"]
  /\ DEFAULT_ESCALATION[4]
       = [trigger |-> "score", threshold |-> 85, target |-> "SEALED"]
BY DEF DEFAULT_ESCALATION

LEMMA Thresholds ==
  /\ ObservedAfter \in Nat /\ RestrictedAfter \in Nat /\ SealedAfter \in Nat
  /\ 0 < ObservedAfter /\ ObservedAfter < RestrictedAfter
  /\ RestrictedAfter < SealedAfter
BY SessionAssumption

\* The conditions that raise a zone, one by one.
LEMMA RaisingIs ==
  ASSUME NEW zone \in ProtectedZone, NEW anomalyScore \in 0 .. 84,
         NEW i
  PROVE  i \in Raising(zone, anomalyScore) <=>
           \/ /\ i = 1 /\ zone.anomalyCount >= ObservedAfter
              /\ 1 > SEAL_ORDER[zone.level]
           \/ /\ i = 2 /\ zone.anomalyCount >= RestrictedAfter
              /\ 2 > SEAL_ORDER[zone.level]
           \/ /\ i = 3 /\ zone.anomalyCount >= SealedAfter
              /\ 3 > SEAL_ORDER[zone.level]
<1> DEFINE condition(j) == DEFAULT_ESCALATION[j]
<1>1. i \in Raising(zone, anomalyScore) <=>
        /\ i \in 1 .. 4
        /\ checkEscalation(zone, condition(i), anomalyScore)
        /\ SEAL_ORDER[condition(i).target] > SEAL_ORDER[zone.level]
  BY Escalation DEF Raising
<1>2. i \in 1 .. 4 <=> i = 1 \/ i = 2 \/ i = 3 \/ i = 4
  OBVIOUS
<1>3. ~ checkEscalation(zone, condition(4), anomalyScore)
  BY Escalation DEF checkEscalation
<1>4. /\ checkEscalation(zone, condition(1), anomalyScore)
           <=> zone.anomalyCount >= ObservedAfter
      /\ checkEscalation(zone, condition(2), anomalyScore)
           <=> zone.anomalyCount >= RestrictedAfter
      /\ checkEscalation(zone, condition(3), anomalyScore)
           <=> zone.anomalyCount >= SealedAfter
  BY Escalation DEF checkEscalation
<1>5. /\ condition(1).target = "OBSERVED" /\ condition(2).target = "RESTRICTED"
      /\ condition(3).target = "SEALED"
  BY Escalation
<1> HIDE DEF condition
<1> QED
  BY <1>1, <1>2, <1>3, <1>4, <1>5, Order

LEMMA CountedType ==
  ASSUME NEW zone \in ProtectedZone
  PROVE  /\ counted(zone) \in ProtectedZone
         /\ counted(zone).anomalyCount = zone.anomalyCount + 1
         /\ counted(zone).level = zone.level
         /\ counted(zone).base = zone.base
         /\ counted(zone).byHand = zone.byHand
         /\ zone.anomalyCount \in Nat
BY DEF counted, ProtectedZone

\* The least of the conditions that raise a zone.
LEMMA LeastOf ==
  ASSUME NEW S \in SUBSET (1 .. 3), NEW m \in S, \A n \in S : m <= n
  PROVE  Min(S) = m
<1> DEFINE least == CHOOSE x \in S : \A y \in S : x =< y
<1>1. least \in S /\ \A y \in S : least =< y
  OBVIOUS
<1>2. Min(S) = least
  BY DEF Min
<1> HIDE DEF least
<1>3. least <= m /\ m <= least /\ least \in 1 .. 3 /\ m \in 1 .. 3
  BY <1>1
<1> QED
  BY <1>2, <1>3

\* What escalating does: the zone is counted, and keeps its level or gets that
\* of the least condition that raises it.
LEMMA EscalatedIs ==
  ASSUME NEW zone \in ProtectedZone, NEW anomalyScore \in 0 .. 84
  PROVE  LET raising == Raising(counted(zone), anomalyScore)
             e == escalated(zone, anomalyScore)
         IN  /\ raising \in SUBSET (1 .. 3)
             /\ e \in ProtectedZone
             /\ e.anomalyCount = zone.anomalyCount + 1
             /\ e.base = zone.base /\ e.byHand = zone.byHand
             /\ raising = {} => e.level = zone.level
             /\ \A m \in raising :
                  (\A n \in raising : m <= n) =>
                    e.level = DEFAULT_ESCALATION[m].target
<1> DEFINE c == counted(zone)
           raising == Raising(c, anomalyScore)
           target == DEFAULT_ESCALATION[Min(raising)].target
           e == escalated(zone, anomalyScore)
<1>1. /\ c \in ProtectedZone /\ c.anomalyCount = zone.anomalyCount + 1
      /\ c.level = zone.level /\ c.base = zone.base /\ c.byHand = zone.byHand
  BY CountedType
<1>2. e = IF raising = {} THEN c ELSE [c EXCEPT !.level = target]
  BY DEF escalated
<1> HIDE DEF c, e
<1>3. raising \in SUBSET (1 .. 3)
  BY <1>1, RaisingIs
<1> HIDE DEF raising
<1>4. CASE raising = {}
  BY <1>1, <1>2, <1>3, <1>4 DEF c, e, raising
<1>5. CASE raising # {}
  <2>1. \E m \in raising : \A n \in raising : m <= n
    <3>1. \A m \in raising : m = 1 \/ m = 2 \/ m = 3
      BY <1>3
    <3>2. CASE 1 \in raising
      BY <3>1, <3>2
    <3>3. CASE 1 \notin raising /\ 2 \in raising
      BY <3>1, <3>3
    <3>4. CASE 1 \notin raising /\ 2 \notin raising
      BY <1>5, <3>1, <3>4
    <3> QED
      BY <3>2, <3>3, <3>4
  <2>2. PICK m \in raising : \A n \in raising : m <= n
    BY <2>1
  <2>3. Min(raising) = m
    BY <1>3, <2>2, LeastOf
  <2>4. m = 1 \/ m = 2 \/ m = 3
    BY <1>3
  <2>5. target = DEFAULT_ESCALATION[m].target /\ target \in SealLevel
    BY <2>3, <2>4, Escalation, Order
  <2> HIDE DEF target
  <2>6. /\ e \in ProtectedZone /\ e.level = target
        /\ e.anomalyCount = c.anomalyCount /\ e.base = c.base /\ e.byHand = c.byHand
    BY <1>1, <1>2, <1>5, <2>5 DEF ProtectedZone
  <2>7. \A k \in raising : (\A n \in raising : k <= n) => k = m
    BY <1>3, <2>2
  <2> QED
    BY <1>1, <1>3, <1>5, <2>5, <2>6, <2>7 DEF c, e, raising
<1> QED
  BY <1>4, <1>5

\* Counting one more anomaly takes a zone to the level that is called for, and
\* never lowers one.
LEMMA EscalatedFollows ==
  ASSUME NEW zone \in ProtectedZone, NEW anomalyScore \in 0 .. 84
  PROVE  LET e == escalated(zone, anomalyScore)
         IN  /\ e \in ProtectedZone
             /\ Follows(zone) => Follows(e)
             /\ AtLeast(e.level, zone.level)
<1> DEFINE c == counted(zone)
           raising == Raising(c, anomalyScore)
           e == escalated(zone, anomalyScore)
           n == zone.anomalyCount
           order(level) == SEAL_ORDER[level]
<1>1. /\ c \in ProtectedZone /\ c.anomalyCount = n + 1
      /\ c.level = zone.level /\ n \in Nat
  BY CountedType
<1>2. /\ raising \in SUBSET (1 .. 3)
      /\ e \in ProtectedZone
      /\ e.anomalyCount = n + 1
      /\ e.base = zone.base /\ e.byHand = zone.byHand
      /\ raising = {} => e.level = zone.level
      /\ \A m \in raising :
           (\A k \in raising : m <= k) =>
             e.level = DEFAULT_ESCALATION[m].target
  BY EscalatedIs
<1>3. /\ 1 \in raising <=> n + 1 >= ObservedAfter /\ 1 > order(zone.level)
      /\ 2 \in raising <=> n + 1 >= RestrictedAfter /\ 2 > order(zone.level)
      /\ 3 \in raising <=> n + 1 >= SealedAfter /\ 3 > order(zone.level)
  BY <1>1, RaisingIs
<1>4. zone.level \in SealLevel /\ zone.base \in SealLevel
      /\ zone.byHand \in BOOLEAN
  BY DEF ProtectedZone
<1> HIDE DEF e, raising, c
<1>5. \/ raising = {} /\ e.level = zone.level
      \/ 1 \in raising /\ e.level = "OBSERVED"
      \/ 1 \notin raising /\ 2 \in raising /\ e.level = "RESTRICTED"
      \/ 1 \notin raising /\ 2 \notin raising /\ 3 \in raising /\ e.level = "SEALED"
  <2>1. \A k \in raising : k = 1 \/ k = 2 \/ k = 3
    BY <1>2
  <2>2. 1 \in raising => \A k \in raising : 1 <= k
    BY <2>1
  <2>3. 1 \notin raising => \A k \in raising : 2 <= k
    BY <2>1
  <2>4. 1 \notin raising /\ 2 \notin raising => \A k \in raising : 3 <= k
    BY <2>1
  <2>5. raising # {} => 1 \in raising \/ 2 \in raising \/ 3 \in raising
    BY <2>1
  <2> QED
    BY <1>2, <2>2, <2>3, <2>4, <2>5, Escalation
<1> HIDE DEF n
<1>6. AtLeast(e.level, zone.level)
  BY <1>3, <1>4, <1>5, Order DEF AtLeast
<1>7. ASSUME Follows(zone)
      PROVE  Follows(e)
  <2>1. CASE zone.byHand
    BY <1>2, <2>1 DEF Follows
  <2>2. CASE ~ zone.byHand
    <3> DEFINE was == Called(n)
               called == Called(n + 1)
    <3>1. zone.level = IF order(zone.base) >= order(was) THEN zone.base ELSE was
      BY <1>7, <2>2 DEF Follows, AtLeast, n
    <3>2. e.level = IF order(zone.base) >= order(called) THEN zone.base ELSE called
      <4>1. /\ was = IF n >= SealedAfter THEN "SEALED"
                     ELSE IF n >= RestrictedAfter THEN "RESTRICTED"
                     ELSE IF n >= ObservedAfter THEN "OBSERVED" ELSE "OPEN"
            /\ called = IF n + 1 >= SealedAfter THEN "SEALED"
                        ELSE IF n + 1 >= RestrictedAfter THEN "RESTRICTED"
                        ELSE IF n + 1 >= ObservedAfter THEN "OBSERVED" ELSE "OPEN"
        BY DEF Called
      <4> HIDE DEF was, called
      <4>2. /\ ObservedAfter \in Nat /\ RestrictedAfter \in Nat /\ SealedAfter \in Nat
            /\ 0 < ObservedAfter /\ ObservedAfter < RestrictedAfter
            /\ RestrictedAfter < SealedAfter
        BY Thresholds
      <4>3. CASE zone.base = "OPEN"
        BY <1>1, <1>3, <1>5, <3>1, <4>1, <4>2, <4>3, Order
      <4>4. CASE zone.base = "OBSERVED"
        BY <1>1, <1>3, <1>5, <3>1, <4>1, <4>2, <4>4, Order
      <4>5. CASE zone.base = "RESTRICTED"
        BY <1>1, <1>3, <1>5, <3>1, <4>1, <4>2, <4>5, Order
      <4>6. CASE zone.base = "SEALED"
        BY <1>1, <1>3, <1>5, <3>1, <4>1, <4>2, <4>6, Order
      <4> QED
        BY <1>4, <4>3, <4>4, <4>5, <4>6, Order
    <3> QED
      BY <1>2, <3>2 DEF Follows, AtLeast
  <2> QED
    BY <1>4, <2>1, <2>2
<1> QED
  BY <1>2, <1>6, <1>7 DEF e

\* What an anomaly does to the zones: all are still good, none is lowered, and
\* none has changed its level if none escalates.
LEMMA RecordAnomalyIs ==
  ASSUME Good(zones), NEW resource,
         NEW anomalyScore \in 0 .. 84
  PROVE  LET r == recordAnomaly(resource, anomalyScore)
         IN  /\ Good(r)
             /\ \A z \in Zone :
                  AtLeast(r[z].level, zones[z].level)
             /\ EscalatingZones(resource, anomalyScore) = {} =>
                  \A z \in Zone : r[z].level = zones[z].level
<1> DEFINE r == recordAnomaly(resource, anomalyScore)
           e(z) == escalated(zones[z], anomalyScore)
<1>1. \A z \in Zone :
        /\ zones[z] \in ProtectedZone /\ Follows(zones[z])
        /\ zones[z].level \in SealLevel
  BY DEF Good, Zones, ProtectedZone
<1>2. \A z \in Zone :
        /\ e(z) \in ProtectedZone
        /\ Follows(e(z))
        /\ AtLeast(e(z).level, zones[z].level)
  BY <1>1, EscalatedFollows
<1>3. \A z \in Zone : AtLeast(zones[z].level, zones[z].level)
  BY <1>1, Order DEF AtLeast
<1>4. /\ r = [z \in Zone |-> r[z]]
      /\ \A z \in Zone :
           \/ r[z] = zones[z]
           \/ r[z] = e(z) /\ z \in Reached(resource, anomalyScore)
                          /\ z \in ZonesOf[resource]
  BY DEF recordAnomaly
<1> HIDE DEF r, e
<1>5. Good(r)
  <2>1. \A z \in Zone : r[z] \in ProtectedZone /\ Follows(r[z])
    BY <1>1, <1>2, <1>4
  <2> QED
    BY <1>4, <2>1 DEF Good, Zones
<1>6. \A z \in Zone : AtLeast(r[z].level, zones[z].level)
  BY <1>2, <1>3, <1>4
<1>7. ASSUME EscalatingZones(resource, anomalyScore) = {},
             NEW z \in Zone
      PROVE  r[z].level = zones[z].level
  <2>1. CASE r[z] = zones[z]
    BY <2>1
  <2>2. CASE r[z] = e(z) /\ z \in ZonesOf[resource]
    <3>1. PICK i \in DOMAIN ZoneOrder : ZoneOrder[i] = z
      BY DEF Zone
    <3>2. ~ Escalates(zones[z], anomalyScore)
      BY <1>7, <2>2, <3>1 DEF EscalatingZones
    <3> QED
      BY <2>2, <3>2 DEF Escalates, e
  <2> QED
    BY <1>4, <2>1, <2>2
<1> QED
  BY <1>5, <1>6, <1>7 DEF r

\* A factor of at most some score, if it applies.
Factor(f, most) ==
  \/ f = {}
  \/ \E worth \in 0 .. most : f = {worth}

LEMMA FactorWorth ==
  ASSUME NEW f, NEW most \in Nat, Factor(f, most)
  PROVE  /\ Worth(f) \in Nat /\ Cardinality(f) \in {0, 1}
         /\ Worth(f) <= most * Cardinality(f)
         /\ f = {} => Cardinality(f) = 0
         /\ f # {} => Cardinality(f) = 1
<1>1. CASE f = {}
  <2>1. Worth(f) = 0
    BY <1>1 DEF Worth
  <2>2. Cardinality(f) = 0
    BY <1>1, FS_EmptySet
  <2> QED
    BY <1>1, <2>1, <2>2
<1>2. ASSUME NEW worth \in 0 .. most, f = {worth}
      PROVE  /\ Worth(f) \in Nat /\ Cardinality(f) = 1 /\ f # {}
             /\ Worth(f) <= most
  <2>1. Cardinality(f) = 1
    BY <1>2, FS_Singleton
  <2>2. f # {} /\ (CHOOSE any \in f : TRUE) = worth
    BY <1>2
  <2>3. Worth(f) = worth
    BY <2>2 DEF Worth
  <2> QED
    BY <2>1, <2>2, <2>3
<1>3. CASE f # {}
  <2>1. PICK worth \in 0 .. most : f = {worth}
    BY <1>3 DEF Factor
  <2>2. /\ Worth(f) \in Nat /\ Cardinality(f) = 1
        /\ Worth(f) <= most
    BY <1>2, <2>1
  <2>3. most * 1 = most
    OBVIOUS
  <2> QED
    BY <1>3, <2>2, <2>3
<1> QED
  BY <1>1, <1>3

\* An average of factors of which one is low is below 85.
LEMMA AverageIsLow ==
  ASSUME NEW T \in Nat, NEW C \in 1 .. 6, T <= 84 * C
  PROVE  (2 * T + C) \div (2 * C) \in 0 .. 84
<1>1. CASE C = 1
  BY <1>1
<1>2. CASE C = 2
  BY <1>2
<1>3. CASE C = 3
  BY <1>3
<1>4. CASE C = 4
  BY <1>4
<1>5. CASE C = 5
  BY <1>5
<1>6. CASE C = 6
  BY <1>6
<1> QED
  BY <1>1, <1>2, <1>3, <1>4, <1>5, <1>6

\* No access is scored 85 or more.
LEMMA ScoreIsLow ==
  ASSUME NEW profile, NEW actor, NEW n \in Nat,
         NEW resource \in Resource, NEW spike \in durationSpikes(profile)
  PROVE  detect(profile, actor, WeightsOf[resource], n, spike) \in 0 .. 84
<1> DEFINE unknown == unknownActor(profile, actor)
           frequency == unusualFrequency(profile)
           sensitive == sensitiveResource(WeightsOf[resource])
           burst == checkBurst(n)
           first == noProfile(profile)
           f == [unknown |-> unknown, frequency |-> frequency, duration |-> spike,
                 sensitive |-> sensitive, burst |-> burst, first |-> first]
<1>1. Factor(unknown, 70)
  BY DEF Factor, unknownActor
<1>2. Factor(frequency, 40)
  BY DEF Factor, unusualFrequency
<1>3. Factor(spike, 80)
  BY DEF Factor, durationSpikes
<1>4. Factor(sensitive, 95)
  <2>1. WeightsOf[resource] \in Seq(Weight)
    BY SessionAssumption
  <2>2. WeightsOf[resource] # << >> => Head(WeightsOf[resource]) \in Weight
    BY <2>1
  <2>3. Weight \subseteq 0 .. 95
    BY DEF Weight
  <2>4. sensitive = IF WeightsOf[resource] = << >> THEN {} ELSE {Head(WeightsOf[resource])}
    BY DEF sensitiveResource
  <2> HIDE DEF sensitive
  <2>5. WeightsOf[resource] # << >> => Head(WeightsOf[resource]) \in 0 .. 95
    BY <2>2, <2>3
  <2> QED
    BY <2>4, <2>5 DEF Factor
<1>5. Factor(burst, 70)
  <2> DEFINE ratio == (30 * n) \div BURST_THRESHOLD
  <2>1. BURST_THRESHOLD \in Nat \ {0}
    BY BehaviorAssumption
  <2>2. 30 * n \in Nat
    OBVIOUS
  <2>3. ratio \in Nat
    BY <2>1, <2>2
  <2>4. burst = IF n > BURST_THRESHOLD THEN {IF ratio < 70 THEN ratio ELSE 70} ELSE {}
    BY DEF checkBurst
  <2> HIDE DEF ratio, burst
  <2> QED
    BY <2>3, <2>4 DEF Factor
<1>6. Factor(first, 30)
  BY DEF Factor, noProfile
<1>7. \/ frequency # {} /\ first = {}
      \/ frequency = {} /\ first # {}
  BY DEF unusualFrequency, noProfile
<1>8. detect(profile, actor, WeightsOf[resource], n, spike)
        = (2 * Total(f) + Count(f)) \div (2 * Count(f))
  BY DEF detect, score
<1> HIDE DEF unknown, frequency, sensitive, burst, first
<1>9. /\ Total(f) = Worth(unknown) + Worth(frequency)
                              + Worth(spike) + Worth(sensitive)
                              + Worth(burst) + Worth(first)
      /\ Count(f) = Cardinality(unknown) + Cardinality(frequency)
                              + Cardinality(spike) + Cardinality(sensitive)
                              + Cardinality(burst) + Cardinality(first)
  <2>1. /\ f.unknown = unknown /\ f.frequency = frequency /\ f.duration = spike
        /\ f.sensitive = sensitive /\ f.burst = burst /\ f.first = first
    OBVIOUS
  <2> HIDE DEF f
  <2> QED
    BY <2>1 DEF Total, Count
<1> HIDE DEF f
<1>10. /\ Worth(unknown) \in Nat /\ Cardinality(unknown) \in {0, 1}
       /\ Worth(unknown) <= 70 * Cardinality(unknown)
  BY <1>1, FactorWorth
<1>11. /\ Worth(frequency) \in Nat /\ Cardinality(frequency) \in {0, 1}
       /\ Worth(frequency) <= 40 * Cardinality(frequency)
       /\ frequency = {} => Cardinality(frequency) = 0
       /\ frequency # {} => Cardinality(frequency) = 1
  BY <1>2, FactorWorth
<1>12. /\ Worth(spike) \in Nat /\ Cardinality(spike) \in {0, 1}
       /\ Worth(spike) <= 80 * Cardinality(spike)
  BY <1>3, FactorWorth
<1>13. /\ Worth(sensitive) \in Nat /\ Cardinality(sensitive) \in {0, 1}
       /\ Worth(sensitive) <= 95 * Cardinality(sensitive)
  BY <1>4, FactorWorth
<1>14. /\ Worth(burst) \in Nat /\ Cardinality(burst) \in {0, 1}
       /\ Worth(burst) <= 70 * Cardinality(burst)
  BY <1>5, FactorWorth
<1>15. /\ Worth(first) \in Nat /\ Cardinality(first) \in {0, 1}
       /\ Worth(first) <= 30 * Cardinality(first)
       /\ first = {} => Cardinality(first) = 0
       /\ first # {} => Cardinality(first) = 1
  BY <1>6, FactorWorth
<1>16. Cardinality(frequency) + Cardinality(first) = 1
  BY <1>7, <1>11, <1>15
<1>17. /\ Total(f) \in Nat /\ Count(f) \in 1 .. 6
       /\ Total(f) <= 84 * Count(f)
  BY <1>9, <1>10, <1>11, <1>12, <1>13, <1>14, <1>15, <1>16
<1> QED
  BY <1>8, <1>17, AverageIsLow

\* What a task in a phase is, and what it may become.
LEMMA DoingIs ==
  ASSUME NEW task \in Doing
  PROVE  /\ task.phase \in {"idle", "scored", "open", "write", "init", "read"}
         /\ task.phase = "idle" <=> task = IdleTask
         /\ task.phase = "scored" => /\ task.resource \in Resource
                                     /\ task.score \in 0 .. 84
         /\ task.phase \in {"open", "write"} => task.zones \in Zones
         /\ task.phase = "open" => [task EXCEPT !.phase = "write"] \in Doing
         /\ task.phase = "init" => [task EXCEPT !.phase = "read"] \in Doing
<1>1. CASE task = IdleTask
  BY <1>1 DEF IdleTask
<1>2. CASE task \in [phase : {"scored"}, resource : Resource, score : 0 .. 84]
  BY <1>2 DEF IdleTask
<1>3. CASE task \in [phase : {"open", "write"}, zones : Zones]
  <2>1. task.phase = "open" =>
          [task EXCEPT !.phase = "write"] \in [phase : {"open", "write"}, zones : Zones]
    BY <1>3
  <2> QED
    BY <1>3, <2>1 DEF IdleTask, Doing
<1>4. CASE task \in [phase : {"init", "read"}]
  <2>1. task.phase = "init" =>
          [task EXCEPT !.phase = "read"] \in [phase : {"init", "read"}]
    BY <1>4
  <2> QED
    BY <1>4, <2>1 DEF IdleTask, Doing
<1> QED
  BY <1>1, <1>2, <1>3, <1>4 DEF Doing

LEMMA ZonesInMemory ==
  ASSUME Levels, zones # NoZones
  PROVE  Good(zones)
BY DEF Levels

\* An event gives every idle task that listens a score.
LEMMA AnalyzeTasks ==
  ASSUME Levels, NEW r \in Resource, NEW a \in Actor,
         Analyze(r, a)
  PROVE  /\ tasks' = [t \in Task |-> tasks'[t]]
         /\ \A t \in Task :
              \/ tasks'[t] = tasks[t]
              \/ /\ tasks[t] = IdleTask /\ tasks'[t].phase = "scored"
                 /\ tasks'[t] \in Doing
         /\ session.started
         /\ used' \in [events : Nat, starts : Nat, byHand : Nat]
         /\ UNCHANGED <<zones, file, session>>
<1>1. PICK listening \in kSubset(session.listeners,
                                         {t \in Task : tasks[t] = IdleTask}),
           n \in 1 .. used.events + 1,
           spike \in durationSpikes(profiles[r]) :
             \E turn \in Bijection(listening, 1 .. session.listeners) :
             tasks' = [t \in Task |->
               IF t \notin listening THEN tasks[t]
               ELSE [phase |-> "scored", resource |-> r,
                     score |-> detect(profiles[r], a, WeightsOf[r],
                                 (n - 1) * session.listeners + turn[t], spike)]]
  BY DEF Analyze
<1>1a. PICK turn \in Bijection(listening, 1 .. session.listeners) :
             tasks' = [t \in Task |->
               IF t \notin listening THEN tasks[t]
               ELSE [phase |-> "scored", resource |-> r,
                     score |-> detect(profiles[r], a, WeightsOf[r],
                                 (n - 1) * session.listeners + turn[t], spike)]]
  BY <1>1
<1>2. listening \subseteq {t \in Task : tasks[t] = IdleTask}
  BY DEF kSubset
<1>3. turn \in [listening -> 1 .. session.listeners]
  BY DEF Bijection, Injection, Surjection
<1>4. session.listeners \in Nat /\ used.events \in Nat
  BY DEF Levels
<1>5. n - 1 \in Nat
  BY <1>4
<1>6. (n - 1) * session.listeners \in Nat
  BY <1>4, <1>5
<1>7. ASSUME NEW t \in listening
      PROVE  [phase |-> "scored", resource |-> r,
              score |-> detect(profiles[r], a, WeightsOf[r],
                          (n - 1) * session.listeners + turn[t], spike)]
               \in [phase : {"scored"}, resource : Resource, score : 0 .. 84]
  <2>1. turn[t] \in 1 .. session.listeners
    BY <1>3
  <2>2. (n - 1) * session.listeners + turn[t] \in Nat
    BY <1>4, <1>6, <2>1
  <2>3. detect(profiles[r], a, WeightsOf[r],
          (n - 1) * session.listeners + turn[t], spike) \in 0 .. 84
    BY <2>2, ScoreIsLow
  <2> QED
    BY <2>3
<1>8. ASSUME NEW t \in Task
      PROVE  \/ tasks'[t] = tasks[t]
             \/ /\ tasks[t] = IdleTask /\ tasks'[t].phase = "scored"
                /\ tasks'[t] \in Doing
  <2>1. CASE t \notin listening
    BY <1>1a, <2>1
  <2>2. CASE t \in listening
    <3>1. tasks'[t] \in [phase : {"scored"}, resource : Resource, score : 0 .. 84]
      BY <1>1a, <1>7, <2>2
    <3> QED
      BY <1>2, <2>2, <3>1 DEF Doing
  <2> QED
    BY <2>1, <2>2
<1>9. tasks' = [t \in Task |-> tasks'[t]]
  BY <1>1a
<1>10. used' = [used EXCEPT !.events = @ + 1] /\ session.started
       /\ UNCHANGED <<zones, file, session>>
  BY DEF Analyze
<1>12. used' \in [events : Nat, starts : Nat, byHand : Nat]
  BY <1>10 DEF Levels
<1> QED
  BY <1>8, <1>9, <1>10, <1>12

LEMMA EventLevels ==
  ASSUME Levels, NEW r \in Resource, NEW a \in Actor,
         Analyze(r, a)
  PROVE  Levels'
<1>1. /\ tasks' = [t \in Task |-> tasks'[t]]
      /\ \A t \in Task :
           \/ tasks'[t] = tasks[t]
           \/ /\ tasks[t] = IdleTask /\ tasks'[t].phase = "scored"
              /\ tasks'[t] \in Doing
      /\ session.started
      /\ used' \in [events : Nat, starts : Nat, byHand : Nat]
      /\ UNCHANGED <<zones, file, session>>
  BY AnalyzeTasks
<1>2. Good(zones) /\ tasks \in [Task -> Doing]
  BY <1>1 DEF Levels
<1>3. \A t \in Task : tasks'[t] \in Doing
  BY <1>1, <1>2
<1>4. tasks' \in [Task -> Doing]
  BY <1>1, <1>3
<1>5. \A t \in Task :
        /\ tasks'[t].phase = "scored" => Good(zones)
        /\ tasks'[t].phase \in {"open", "write"} =>
             Good(zones) /\ Good(tasks'[t].zones)
  BY <1>1, <1>2 DEF Levels
<1> QED
  BY <1>1, <1>2, <1>4, <1>5 DEF Levels, Good, Zones

\* A step of one task.
LEMMA TaskLevels ==
  ASSUME Levels, NEW t \in Task, NEW task \in Doing,
         tasks' = [tasks EXCEPT ![t] = task],
         zones' = zones \/ Good(zones'),
         file' = file \/ (file'.state = "whole" => Good(file'.zones)),
         task.phase = "scored" => Good(zones'),
         task.phase \in {"open", "write"} => Good(zones') /\ Good(task.zones),
         session' = session \/ (/\ Good(zones')
                                /\ session' \in [started : BOOLEAN, listeners : Nat]),
         used' \in [events : Nat, starts : Nat, byHand : Nat]
  PROVE  Levels'
<1>1. tasks' \in [Task -> Doing]
      /\ \A u \in Task : tasks'[u] = IF u = t THEN task ELSE tasks[u]
  BY DEF Levels
<1>2. Good(zones) => Good(zones')
  OBVIOUS
<1>3. zones' = NoZones \/ Good(zones')
  BY DEF Levels
<1>4. \A u \in Task :
        /\ tasks'[u].phase = "scored" => Good(zones')
        /\ tasks'[u].phase \in {"open", "write"} =>
             Good(zones') /\ Good(tasks'[u].zones)
  BY <1>1, <1>2 DEF Levels
<1>5. file'.state = "whole" => Good(file'.zones)
  BY DEF Levels
<1>6. session'.started => Good(zones')
  BY <1>2 DEF Levels
<1>7. session' \in [started : BOOLEAN, listeners : Nat]
  BY DEF Levels
<1>8. Levels' <=>
        /\ zones' = NoZones \/ Good(zones')
        /\ file'.state = "whole" => Good(file'.zones)
        /\ tasks' \in [Task -> Doing]
        /\ \A u \in Task :
             /\ tasks'[u].phase = "scored" => Good(zones')
             /\ tasks'[u].phase \in {"open", "write"} =>
                  Good(zones') /\ Good(tasks'[u].zones)
        /\ session'.started => Good(zones')
        /\ session' \in [started : BOOLEAN, listeners : Nat]
        /\ used' \in [events : Nat, starts : Nat, byHand : Nat]
  BY DEF Levels, Good, Zones
<1> QED
  BY <1>1, <1>3, <1>4, <1>5, <1>6, <1>7, <1>8

LEMMA JudgeLevels ==
  ASSUME Levels, NEW t \in Task, Judge(t)
  PROVE  Levels'
<1> DEFINE r == tasks[t].resource
           s == tasks[t].score
           open == [phase |-> "open", zones |-> zones']
<1>1. tasks[t].phase = "scored" /\ Good(zones) /\ tasks[t] \in Doing
      /\ used \in [events : Nat, starts : Nat, byHand : Nat]
  BY DEF Judge, Levels
<1>2. s \in 0 .. 84
  BY <1>1, DoingIs
<1>3. IdleTask \in Doing /\ IdleTask.phase = "idle"
  BY DEF Doing, IdleTask
<1>4. UNCHANGED <<file, session, used>>
  BY DEF Judge
<1>5. CASE s < ANOMALY
  <2>1. tasks' = [tasks EXCEPT ![t] = IdleTask] /\ zones' = zones
    BY <1>5 DEF Judge
  <2> QED
    BY <1>1, <1>3, <1>4, <2>1, TaskLevels
<1>6. CASE ~ s < ANOMALY
  <2>1. zones' = recordAnomaly(r, s)
        /\ tasks' = [tasks EXCEPT ![t] =
                       IF EscalatingZones(r, s) = {} THEN IdleTask
                       ELSE open]
    BY <1>6 DEF Judge
  <2>2. Good(recordAnomaly(r, s))
    BY <1>1, <1>2, RecordAnomalyIs
  <2>3. Good(zones')
    BY <2>1, <2>2
  <2>4. open \in Doing /\ open.phase = "open" /\ open.zones = zones'
    BY <2>3 DEF Doing, Good
  <2> HIDE DEF open
  <2>5. CASE EscalatingZones(r, s) = {}
    <3>1. tasks' = [tasks EXCEPT ![t] = IdleTask]
      BY <2>1, <2>5
    <3> QED
      BY <1>1, <1>3, <1>4, <2>3, <3>1, TaskLevels
  <2>6. CASE EscalatingZones(r, s) # {}
    <3>1. tasks' = [tasks EXCEPT ![t] = open]
      BY <2>1, <2>6
    <3> QED
      BY <1>1, <1>4, <2>3, <2>4, <3>1, TaskLevels
  <2> QED
    BY <2>5, <2>6
<1> QED
  BY <1>5, <1>6

\* Defaults follow, and so does a zone that is new or set by hand.
LEMMA NewZoneFollows ==
  ASSUME NEW level \in SealLevel
  PROVE  /\ newZone(level) \in ProtectedZone
         /\ Follows(newZone(level))
<1>1. /\ newZone(level) \in ProtectedZone
      /\ newZone(level).level = level /\ newZone(level).base = level
      /\ newZone(level).anomalyCount = 0
  BY DEF newZone, ProtectedZone
<1>2. Called(0) = "OPEN"
  BY Thresholds DEF Called
<1>3. AtLeast(level, "OPEN")
  BY Order DEF AtLeast
<1> QED
  BY <1>1, <1>2, <1>3 DEF Follows

LEMMA DefaultsFollow == Good(createDefaultZones)
<1>1. \A z \in Zone : DefaultLevel[z] \in SealLevel
  BY SessionAssumption
<1>2. \A z \in Zone :
        /\ newZone(DefaultLevel[z]) \in ProtectedZone
        /\ Follows(newZone(DefaultLevel[z]))
  BY <1>1, NewZoneFollows
<1> QED
  BY <1>2 DEF Good, Zones, createDefaultZones

LEMMA ChangeLevels ==
  ASSUME Levels, NEW t \in Task, NEW z \in Zone,
         NEW zone \in ProtectedZone, Follows(zone),
         ChangeByHand(t, z, zone)
  PROVE  Levels' /\ Good(zones) /\ zones' = [zones EXCEPT ![z] = zone]
<1> DEFINE open == [phase |-> "open", zones |-> zones']
<1>1. /\ zones # NoZones
      /\ zones' = [zones EXCEPT ![z] = zone]
      /\ tasks' = [tasks EXCEPT ![t] = open]
      /\ used' = [used EXCEPT !.byHand = @ + 1]
      /\ UNCHANGED <<file, session>>
  BY DEF ChangeByHand
<1>2. Good(zones)
  BY <1>1, ZonesInMemory
<1>3. Good(zones')
  BY <1>1, <1>2 DEF Good, Zones
<1>4. open \in Doing /\ open.phase = "open" /\ open.zones = zones'
  BY <1>3 DEF Doing, Good
<1>5. used' \in [events : Nat, starts : Nat, byHand : Nat]
  BY <1>1 DEF Levels
<1> HIDE DEF open
<1>6. Levels'
  BY <1>1, <1>3, <1>4, <1>5, TaskLevels
<1> QED
  BY <1>1, <1>2, <1>6

LEMMA ByHandLevels ==
  ASSUME Levels, NEW t \in Task, NEW z \in Zone,
         NEW level \in SealLevel,
         setSealLevel(t, z, level) \/ addZone(t, z, level)
  PROVE  /\ Levels' /\ Good(zones)
         /\ \E zone \in ProtectedZone : zones' = [zones EXCEPT ![z] = zone]
<1>1. CASE setSealLevel(t, z, level)
  <2> DEFINE zone == [zones[z] EXCEPT !.level = level, !.byHand = TRUE]
  <2>1. ChangeByHand(t, z, zone)
    BY <1>1 DEF setSealLevel
  <2>2. Good(zones)
    BY <2>1, ZonesInMemory DEF ChangeByHand
  <2>3. zones[z] \in ProtectedZone
    BY <2>2 DEF Good, Zones
  <2>4. zone \in ProtectedZone /\ zone.byHand
    BY <2>3 DEF ProtectedZone
  <2> HIDE DEF zone
  <2>5. Follows(zone)
    BY <2>4 DEF Follows
  <2> QED
    BY <2>1, <2>4, <2>5, ChangeLevels
<1>2. CASE addZone(t, z, level)
  BY <1>2, NewZoneFollows, ChangeLevels DEF addZone
<1> QED
  BY <1>1, <1>2

LEMMA WritingLevels ==
  ASSUME Levels, NEW t \in Task,
         OpenFile(t) \/ WriteFile(t) \/ WriteFails(t)
  PROVE  Levels'
<1>1. /\ tasks[t] \in Doing /\ tasks[t].phase \in {"open", "write"}
      /\ Good(zones) /\ Good(tasks[t].zones)
      /\ used \in [events : Nat, starts : Nat, byHand : Nat]
      /\ UNCHANGED <<zones, session, used>>
  BY DEF Levels, OpenFile, WriteFile, WriteFails
<1>2. IdleTask \in Doing /\ IdleTask.phase = "idle"
  BY DEF Doing, IdleTask
<1>3. CASE OpenFile(t)
  <2> DEFINE task == [tasks[t] EXCEPT !.phase = "write"]
  <2>1. tasks[t].phase = "open" /\ tasks' = [tasks EXCEPT ![t] = task]
        /\ file'.state = "truncated"
    BY <1>3 DEF OpenFile, Levels
  <2>2. task \in Doing
    BY <1>1, <2>1, DoingIs
  <2>3. task.phase = "write" /\ task.zones = tasks[t].zones
    <3>1. tasks[t] \in [phase : {"open", "write"}, zones : Zones]
      BY <1>1 DEF Doing, IdleTask
    <3> QED
      BY <3>1
  <2> HIDE DEF task
  <2> QED
    BY <1>1, <2>1, <2>2, <2>3, TaskLevels
<1>4. CASE WriteFile(t)
  <2>1. /\ tasks' = [tasks EXCEPT ![t] = IdleTask]
        /\ file'.state = "whole" => Good(file'.zones)
    BY <1>1, <1>4 DEF WriteFile
  <2> QED
    BY <1>1, <1>2, <2>1, TaskLevels
<1>5. CASE WriteFails(t)
  <2>1. tasks' = [tasks EXCEPT ![t] = IdleTask] /\ file' = file
    BY <1>5 DEF WriteFails
  <2> QED
    BY <1>1, <1>2, <2>1, TaskLevels
<1> QED
  BY <1>3, <1>4, <1>5

\* What a start would find.
Found(kept) == IF kept.state = "whole" THEN kept.zones ELSE createDefaultZones

Loaded == Found(file)

LEMMA StartingLevels ==
  ASSUME Levels, NEW t \in Task,
         \/ BeginSession(t) \/ FindFile(t)
         \/ CreateZones(t) \/ LoadZones(t)
  PROVE  /\ Levels'
         /\ CreateZones(t) \/ LoadZones(t) =>
              zones' = Loaded /\ Good(Loaded)
<1>1. /\ tasks[t] \in Doing
      /\ used \in [events : Nat, starts : Nat, byHand : Nat]
      /\ session \in [started : BOOLEAN, listeners : Nat]
  BY DEF Levels
<1>2. IdleTask \in Doing /\ IdleTask.phase = "idle"
  BY DEF Doing, IdleTask
<1>3. Good(Loaded)
  BY DefaultsFollow DEF Levels, Loaded, Found
<1>4. CASE BeginSession(t)
  <2> DEFINE task == [phase |-> "init"]
  <2>1. /\ tasks' = [tasks EXCEPT ![t] = task]
        /\ used' = [used EXCEPT !.starts = @ + 1]
        /\ UNCHANGED <<zones, file, session>> /\ tasks[t] = IdleTask
    BY <1>4 DEF BeginSession
  <2>2. task \in Doing /\ task.phase = "init"
    BY DEF Doing
  <2>3. used' \in [events : Nat, starts : Nat, byHand : Nat]
    BY <1>1, <2>1
  <2> HIDE DEF task
  <2>4. Levels'
    BY <2>1, <2>2, <2>3, TaskLevels
  <2>5. ~ (CreateZones(t) \/ LoadZones(t))
    BY <1>2, <2>1 DEF CreateZones, LoadZones
  <2> QED
    BY <2>4, <2>5
<1>5. CASE FindFile(t)
  <2> DEFINE task == [tasks[t] EXCEPT !.phase = "read"]
  <2>1. /\ tasks' = [tasks EXCEPT ![t] = task] /\ tasks[t].phase = "init"
        /\ UNCHANGED <<zones, file, session, used>> /\ file.state # "none"
    BY <1>5 DEF FindFile, Levels
  <2>2. task \in Doing
    BY <1>1, <2>1, DoingIs
  <2>3. task.phase = "read"
    <3>1. tasks[t] \in [phase : {"init", "read"}]
      BY <1>1, <2>1 DEF Doing, IdleTask
    <3> QED
      BY <3>1
  <2> HIDE DEF task
  <2>4. Levels'
    BY <1>1, <2>1, <2>2, <2>3, TaskLevels
  <2>5. ~ (CreateZones(t) \/ LoadZones(t))
    BY <2>1 DEF CreateZones, LoadZones
  <2> QED
    BY <2>4, <2>5
<1>6. CASE CreateZones(t) \/ LoadZones(t)
  <2>1. /\ zones' = Loaded
        /\ session' = [started |-> TRUE, listeners |-> session.listeners + 1]
        /\ tasks' = [tasks EXCEPT ![t] = IdleTask]
        /\ UNCHANGED <<file, used>>
    BY <1>6 DEF CreateZones, LoadZones, Listening, Loaded, Found
  <2>2. Good(zones')
    BY <1>3, <2>1
  <2>3. session' \in [started : BOOLEAN, listeners : Nat]
    BY <1>1, <2>1
  <2>4. Levels'
    BY <1>1, <1>2, <2>1, <2>2, <2>3, TaskLevels
  <2> QED
    BY <1>3, <2>1, <2>4
<1> QED
  BY <1>4, <1>5, <1>6

LEMMA StopLevels ==
  ASSUME Levels, Stop
  PROVE  Levels'
<1>1. /\ session' = [session EXCEPT !.started = FALSE]
      /\ UNCHANGED <<zones, file, tasks, used>>
  BY DEF Stop
<1>2. session' \in [started : BOOLEAN, listeners : Nat] /\ ~ session'.started
  BY <1>1 DEF Levels
<1> QED
  BY <1>1, <1>2 DEF Levels, Good, Zones

LEMMA CrashLevels ==
  ASSUME Levels, Crash
  PROVE  Levels' /\ zones' = NoZones
         /\ \A t \in Task : tasks'[t].phase = "idle"
<1>1. /\ zones' = NoZones
      /\ tasks' = [t \in Task |-> IdleTask]
      /\ session' = [started |-> FALSE, listeners |-> 0]
      /\ UNCHANGED <<file, used>>
  BY DEF Crash
<1>2. session' \in [started : BOOLEAN, listeners : Nat] /\ ~ session'.started
  BY <1>1
<1>3. IdleTask \in Doing /\ IdleTask.phase = "idle"
  BY DEF Doing, IdleTask
<1>4. tasks' \in [Task -> Doing] /\ \A t \in Task : tasks'[t].phase = "idle"
  BY <1>1, <1>3
<1> QED
  BY <1>1, <1>2, <1>4 DEF Levels, Good, Zones

LEMMA LevelsInitially == SessionInit => Levels
<1> SUFFICES ASSUME SessionInit PROVE Levels
  OBVIOUS
<1>1. IdleTask \in Doing /\ IdleTask.phase = "idle"
  BY DEF Doing, IdleTask
<1>2. tasks \in [Task -> Doing] /\ \A t \in Task : tasks[t].phase = "idle"
  BY <1>1 DEF SessionInit
<1>3. zones = NoZones /\ file.state = "none" /\ ~ session.started
  BY DEF SessionInit
<1>4. /\ session \in [started : BOOLEAN, listeners : Nat]
      /\ used \in [events : Nat, starts : Nat, byHand : Nat]
  BY DEF SessionInit
<1> QED
  BY <1>2, <1>3, <1>4 DEF Levels

LEMMA LevelsStep ==
  ASSUME Levels, [SessionNext]_sessionVars
  PROVE  Levels'
<1>1. CASE UNCHANGED sessionVars
  BY <1>1 DEF Levels, Good, Zones, sessionVars
<1>2. ASSUME NEW r \in Resource, NEW a \in Actor, Analyze(r, a)
      PROVE  Levels'
  BY <1>2, EventLevels
<1>3. ASSUME NEW t \in Task,
             \/ Judge(t) \/ OpenFile(t) \/ WriteFile(t)
             \/ WriteFails(t)
             \/ BeginSession(t) \/ FindFile(t)
             \/ CreateZones(t) \/ LoadZones(t)
      PROVE  Levels'
  BY <1>3, JudgeLevels, WritingLevels, StartingLevels
<1>4. ASSUME NEW t \in Task, NEW z \in Zone,
             NEW level \in SealLevel,
             setSealLevel(t, z, level) \/ addZone(t, z, level)
      PROVE  Levels'
  BY <1>4, ByHandLevels
<1>5. CASE Stop
  BY <1>5, StopLevels
<1>6. CASE Crash
  BY <1>6, CrashLevels
<1> QED
  BY <1>1, <1>2, <1>3, <1>4, <1>5, <1>6 DEF SessionNext

\* However analyses, restarts, deaths and reloads interleave: zones in memory,
\* on file and on their way there are as sealed as what was counted for them
\* calls for, unless they were set by hand, and no score seals one.
THEOREM LevelsInvariance == SessionSpec => []Levels
<1>1. Levels /\ [SessionNext]_sessionVars => Levels'
  BY LevelsStep
<1> QED
  BY <1>1, LevelsInitially, PTL DEF SessionSpec

\* A zone nobody has set by hand is exactly as sealed as its anomalies call for
\* and as it was created.
THEOREM ZonesFollowAnomalies == SessionSpec => []LevelsFollowAnomalies
<1>1. Levels => LevelsFollowAnomalies
  BY DEF Levels, Good, Follows, LevelsFollowAnomalies
<1> QED
  BY <1>1, LevelsInvariance, PTL
-----------------------------------------------------------------------------
(***************************************************************************)
(* The session: what was settled survives.                                  *)
(***************************************************************************)

Same(one, other) == \A z \in Zone : one[z].level = other[z].level

Promised(snapshot, settled) ==
  \A z \in Zone : AtLeast(snapshot[z].level, settled[z])

Writing(doing) == \E t \in Task : doing[t].phase = "write"

Saving(doing) == \E t \in Task : doing[t].phase \in {"open", "write"}

\* What keeps the promise: memory and file agree whenever nobody is saving, and
\* what is being saved is what is in memory; a file is truncated only while it
\* is written.
Steady(memory, kept, doing, settled) ==
  /\ Good(memory) => Promised(memory, settled)
  /\ \A t \in Task :
       doing[t].phase \in {"open", "write"} => Same(doing[t].zones, memory)
  /\ Writing(doing) => kept.state = "truncated"
  /\ ~ Writing(doing) => Promised(Found(kept), settled)
  /\ ~ Saving(doing) /\ Good(memory) => Same(Found(kept), memory)

OneBusy == \A t, u \in Busy : t = u

Settling ==
  /\ history \in [settled : [Zone -> SealLevel], disturbed : BOOLEAN]
  /\ ~ history.disturbed => OneBusy /\ Steady(zones, file, tasks, history.settled)

SessionInv == Levels /\ Settling

LEMMA FoundIsGood ==
  ASSUME Levels
  PROVE  Good(Found(file))
BY DefaultsFollow DEF Levels, Found

\* Before the first start there is nothing that could break a promise.
LEMMA NothingYet ==
  ASSUME Good(NoZones), NEW z \in Zone
  PROVE  FALSE
BY DEF Good, Zones, NoZones

\* Every level is at least what it is and at least open.
LEMMA LevelOrder ==
  ASSUME NEW one \in SealLevel
  PROVE  /\ AtLeast(one, one)
         /\ AtLeast(one, "OPEN")
         /\ \A two, three \in SealLevel :
              AtLeast(one, two) /\ AtLeast(two, three) =>
                AtLeast(one, three)
BY Order DEF AtLeast

LEMMA GoodLevels ==
  ASSUME NEW snapshot, Good(snapshot), NEW z \in Zone
  PROVE  snapshot[z].level \in SealLevel
BY DEF Good, Zones, ProtectedZone

\* Nothing is promised of a history that promises nothing.
LEMMA NoPromise ==
  ASSUME NEW snapshot, Good(snapshot)
  PROVE  Promised(snapshot, NoLevels)
BY GoodLevels, LevelOrder DEF Promised, NoLevels

LEMMA BusyIs ==
  /\ \A t : t \in Busy <=>
       t \in Task /\ tasks[t].phase \in {"open", "write", "read"}
  /\ \A t : t \in Busy' <=>
       t \in Task /\ tasks'[t].phase \in {"open", "write", "read"}
BY DEF Busy

\* What is remembered after a step that keeps what was settled before it.
LEMMA Remembering ==
  ASSUME Levels', Settling, NEW fault \in BOOLEAN, Remember(fault),
         ~ history'.disturbed /\ OneBusy' =>
           Steady(zones', file', tasks', history.settled)
  PROVE  Settling'
<1> DEFINE levels == [z \in Zone |-> zones'[z].level]
           settles == Busy' = {} /\ zones' # NoZones
<1>1. history' = [settled   |-> IF settles THEN levels ELSE history.settled,
                  disturbed |-> \/ history.disturbed \/ fault
                                \/ \E t, u \in Busy' : t # u]
  BY DEF Remember
<1>2. zones' # NoZones => Good(zones')
  BY DEF Levels, Good, Zones
<1>3. settles => levels \in [Zone -> SealLevel]
  BY <1>2, GoodLevels
<1> HIDE DEF levels, settles
<1>4. history' \in [settled : [Zone -> SealLevel], disturbed : BOOLEAN]
  <2>1. history \in [settled : [Zone -> SealLevel], disturbed : BOOLEAN]
    BY DEF Settling
  <2>2. (IF settles THEN levels ELSE history.settled)
          \in [Zone -> SealLevel]
    BY <1>3, <2>1
  <2>3. (\/ history.disturbed \/ fault
         \/ \E t, u \in Busy' : t # u) \in BOOLEAN
    OBVIOUS
  <2> QED
    BY <1>1, <2>2, <2>3
<1>5. ASSUME ~ history'.disturbed
      PROVE  OneBusy' /\ Steady(zones', file', tasks', history'.settled)
  <2>1. OneBusy'
    BY <1>1, <1>5 DEF OneBusy
  <2>2. Steady(zones', file', tasks', history.settled)
    BY <1>5, <2>1
  <2>3. CASE ~ settles
    BY <1>1, <2>1, <2>2, <2>3
  <2>4. CASE settles
    <3>1. history'.settled = levels
      BY <1>1, <2>4
    <3>2. Good(zones') /\ ~ Saving(tasks') /\ ~ Writing(tasks')
      BY <1>2, <2>4, BusyIs DEF settles, Saving, Writing
    <3>3. Same(Found(file'), zones')
      BY <2>2, <3>2 DEF Steady
    <3>4. Promised(zones', levels)
      BY <3>2, GoodLevels, LevelOrder DEF Promised, levels
    <3>5. Promised(Found(file'), levels)
      BY <3>3, <3>4 DEF Promised, Same
    <3> QED
      BY <2>1, <2>2, <3>1, <3>4, <3>5 DEF Steady
  <2> QED
    BY <2>3, <2>4
<1> QED
  BY <1>4, <1>5 DEF Settling

\* A step that neither saves nor touches zones or file.
LEMMA SteadyFrame ==
  ASSUME NEW settled, Steady(zones, file, tasks, settled),
         UNCHANGED <<zones, file>>,
         \A t \in Task :
           \/ tasks'[t] = tasks[t]
           \/ /\ tasks[t].phase \notin {"open", "write"}
              /\ tasks'[t].phase \notin {"open", "write"}
  PROVE  Steady(zones', file', tasks', settled)
<1>1. Writing(tasks') <=> Writing(tasks)
  BY DEF Writing
<1>2. Saving(tasks') <=> Saving(tasks)
  BY DEF Saving
<1>3. \A t \in Task :
        tasks'[t].phase \in {"open", "write"} => Same(tasks'[t].zones, zones)
  BY DEF Steady
<1> QED
  BY <1>1, <1>2, <1>3 DEF Steady

LEMMA QuietSteps ==
  ASSUME Levels, Steady(zones, file, tasks, history.settled),
         \/ \E r \in Resource, a \in Actor : Analyze(r, a)
         \/ \E t \in Task : BeginSession(t) \/ FindFile(t)
         \/ Stop
  PROVE  Steady(zones', file', tasks', history.settled)
<1>1. tasks \in [Task -> Doing] /\ IdleTask.phase = "idle"
  BY DEF Levels, IdleTask
<1>2. ASSUME NEW r \in Resource, NEW a \in Actor, Analyze(r, a)
      PROVE  Steady(zones', file', tasks', history.settled)
  <2>1. /\ \A t \in Task :
             \/ tasks'[t] = tasks[t]
             \/ tasks[t] = IdleTask /\ tasks'[t].phase = "scored"
        /\ UNCHANGED <<zones, file>>
    BY <1>2, AnalyzeTasks
  <2>2. \A t \in Task :
          \/ tasks'[t] = tasks[t]
          \/ /\ tasks[t].phase \notin {"open", "write"}
             /\ tasks'[t].phase \notin {"open", "write"}
    BY <1>1, <2>1
  <2> QED
    BY <2>1, <2>2, SteadyFrame
<1>3. ASSUME NEW t \in Task, BeginSession(t) \/ FindFile(t)
      PROVE  Steady(zones', file', tasks', history.settled)
  <2>1. tasks[t] \in Doing
    BY <1>1
  <2>2. CASE BeginSession(t)
    <3>1. /\ UNCHANGED <<zones, file>> /\ tasks[t].phase = "idle"
          /\ \A u \in Task : u # t => tasks'[u] = tasks[u]
          /\ tasks'[t].phase = "init"
      BY <1>1, <2>2 DEF BeginSession
    <3> QED
      BY <3>1, SteadyFrame
  <2>3. CASE FindFile(t)
    <3>1. /\ UNCHANGED <<zones, file>> /\ tasks[t].phase = "init"
          /\ tasks' = [tasks EXCEPT ![t].phase = "read"]
      BY <2>3 DEF FindFile
    <3>2. tasks[t] \in [phase : {"init", "read"}]
      BY <2>1, <3>1 DEF Doing, IdleTask
    <3>3. tasks'[t].phase = "read" /\ \A u \in Task : u # t => tasks'[u] = tasks[u]
      BY <1>1, <3>1, <3>2
    <3> QED
      BY <3>1, <3>3, SteadyFrame
  <2> QED
    BY <1>3, <2>2, <2>3
<1>4. CASE Stop
  BY <1>4, SteadyFrame DEF Stop
<1> QED
  BY <1>2, <1>3, <1>4

\* What is at least as sealed keeps a promise.
LEMMA PromiseKept ==
  ASSUME NEW one, NEW other, Good(one), Good(other),
         NEW settled \in [Zone -> SealLevel],
         Promised(other, settled),
         \A z \in Zone : AtLeast(one[z].level, other[z].level)
  PROVE  Promised(one, settled)
<1> SUFFICES ASSUME NEW z \in Zone
             PROVE  AtLeast(one[z].level, settled[z])
  BY DEF Promised
<1>1. /\ one[z].level \in SealLevel /\ other[z].level \in SealLevel
      /\ settled[z] \in SealLevel
  BY GoodLevels
<1>2. AtLeast(other[z].level, settled[z])
  BY DEF Promised
<1> QED
  BY <1>1, <1>2, LevelOrder

\* An analysis that raises a zone saves it, and nobody else is saving: that is
\* where the file has to be used by one task at a time.
LEMMA JudgeKeeps ==
  ASSUME Levels,
         history.settled \in [Zone -> SealLevel],
         Steady(zones, file, tasks, history.settled),
         NEW t \in Task, Judge(t), OneBusy'
  PROVE  Steady(zones', file', tasks', history.settled)
<1> DEFINE r == tasks[t].resource
           s == tasks[t].score
           open == [phase |-> "open", zones |-> zones']
<1>1. tasks[t].phase = "scored" /\ Good(zones) /\ tasks[t] \in Doing
      /\ tasks \in [Task -> Doing]
  BY DEF Judge, Levels
<1>2. s \in 0 .. 84
  BY <1>1, DoingIs
<1>3. IdleTask.phase = "idle"
  BY DEF IdleTask
<1>4. file' = file
  BY DEF Judge
<1>5. CASE s < ANOMALY
  <2>1. tasks' = [tasks EXCEPT ![t] = IdleTask] /\ zones' = zones
    BY <1>5 DEF Judge
  <2>2. /\ tasks'[t].phase = "idle"
        /\ \A u \in Task : u # t => tasks'[u] = tasks[u]
    BY <1>1, <1>3, <2>1
  <2> QED
    BY <1>1, <1>4, <2>1, <2>2, SteadyFrame
<1>6. CASE ~ s < ANOMALY
  <2>1. zones' = recordAnomaly(r, s)
        /\ tasks' = [tasks EXCEPT ![t] =
                       IF EscalatingZones(r, s) = {} THEN IdleTask
                       ELSE open]
    BY <1>6 DEF Judge
  <2>2. /\ Good(zones')
        /\ \A z \in Zone : AtLeast(zones'[z].level, zones[z].level)
        /\ EscalatingZones(r, s) = {} => Same(zones', zones)
    BY <1>1, <1>2, <2>1, RecordAnomalyIs DEF Same
  <2>3. Promised(zones', history.settled)
    BY <1>1, <2>2, PromiseKept DEF Steady
  <2>4. open.phase = "open" /\ open.zones = zones'
    OBVIOUS
  <2> HIDE DEF open
  <2>5. \A u \in Task : u # t => tasks'[u] = tasks[u]
    BY <2>1
  <2>6. CASE EscalatingZones(r, s) = {}
    <3>1. tasks'[t].phase = "idle"
      BY <1>1, <1>3, <2>1, <2>6
    <3>2. /\ Writing(tasks') <=> Writing(tasks)
          /\ Saving(tasks') <=> Saving(tasks)
      BY <1>1, <2>5, <3>1 DEF Writing, Saving
    <3>3. Same(zones', zones)
      BY <2>2, <2>6
    <3>4. ASSUME NEW u \in Task, tasks'[u].phase \in {"open", "write"}
          PROVE  Same(tasks'[u].zones, zones')
      <4>1. tasks'[u] = tasks[u] /\ Same(tasks[u].zones, zones)
        BY <2>5, <3>1, <3>4 DEF Steady
      <4> QED
        BY <3>3, <4>1 DEF Same
    <3>5. ~ Saving(tasks) => Same(Found(file), zones')
      <4> SUFFICES ASSUME ~ Saving(tasks) PROVE Same(Found(file), zones')
        OBVIOUS
      <4>1. Same(Found(file), zones)
        BY <1>1 DEF Steady
      <4> QED
        BY <3>3, <4>1 DEF Same
    <3> QED
      BY <1>4, <2>3, <3>2, <3>4, <3>5 DEF Steady
  <2>7. CASE EscalatingZones(r, s) # {}
    <3>1. tasks'[t] = open
      BY <1>1, <2>1, <2>7
    <3>2. ASSUME NEW u \in Task, tasks'[u].phase \in {"open", "write"}
          PROVE  u = t
      BY <2>4, <3>1, <3>2, BusyIs DEF OneBusy
    <3>3. \A u \in Task :
            tasks'[u].phase \in {"open", "write"} => Same(tasks'[u].zones, zones')
      BY <2>4, <3>1, <3>2 DEF Same
    <3>4. Saving(tasks') /\ (Writing(tasks') <=> Writing(tasks))
      BY <1>1, <2>4, <2>5, <3>1 DEF Saving, Writing
    <3> QED
      BY <1>4, <2>3, <3>3, <3>4 DEF Steady
  <2> QED
    BY <2>6, <2>7
<1> QED
  BY <1>5, <1>6

\* A task that opens the file or writes it, no other being busy, leaves there
\* what is in memory.
LEMMA WritingKeeps ==
  ASSUME Levels, OneBusy, history.settled \in [Zone -> SealLevel],
         Steady(zones, file, tasks, history.settled),
         NEW t \in Task, OpenFile(t) \/ WriteFile(t)
  PROVE  Steady(zones', file', tasks', history.settled)
<1>1. /\ tasks \in [Task -> Doing] /\ tasks[t].phase \in {"open", "write"}
      /\ Good(zones) /\ zones' = zones
  BY DEF Levels, OpenFile, WriteFile
<1>2. Same(tasks[t].zones, zones) /\ Promised(zones, history.settled)
  BY <1>1 DEF Steady
<1>3. CASE OpenFile(t)
  <2>1. /\ file'.state = "truncated"
        /\ tasks' = [tasks EXCEPT ![t].phase = "write"]
    BY <1>3 DEF OpenFile
  <2>2. tasks[t] \in [phase : {"open", "write"}, zones : Zones]
    BY <1>1 DEF Doing, IdleTask
  <2>3. /\ tasks'[t].phase = "write" /\ tasks'[t].zones = tasks[t].zones
        /\ \A u \in Task : u # t => tasks'[u] = tasks[u]
    BY <1>1, <2>1, <2>2
  <2>4. \A u \in Task :
          tasks'[u].phase \in {"open", "write"} => Same(tasks'[u].zones, zones)
    BY <1>2, <2>3 DEF Steady
  <2>5. Writing(tasks') /\ Saving(tasks')
    BY <2>3 DEF Writing, Saving
  <2> QED
    BY <1>1, <1>2, <2>1, <2>4, <2>5 DEF Steady
<1>4. CASE WriteFile(t)
  <2>1. tasks[t].phase = "write" /\ tasks' = [tasks EXCEPT ![t] = IdleTask]
    BY <1>4 DEF WriteFile
  <2>2. file.state = "truncated"
    BY <2>1 DEF Steady, Writing
  <2>3. file' = [state |-> "whole", zones |-> tasks[t].zones]
    BY <1>4, <2>2 DEF WriteFile
  <2>4. Found(file') = tasks[t].zones
    BY <2>3 DEF Found
  <2>5. \A u \in Task : tasks'[u].phase \notin {"open", "write"}
    BY <1>1, <2>1, BusyIs DEF OneBusy, IdleTask
  <2>6. ~ Writing(tasks') /\ ~ Saving(tasks')
    BY <2>5 DEF Writing, Saving
  <2>7. Promised(Found(file'), history.settled)
    BY <1>2, <2>4 DEF Promised, Same
  <2> QED
    BY <1>1, <1>2, <2>4, <2>5, <2>6, <2>7 DEF Steady
<1> QED
  BY <1>3, <1>4

\* A level changed by hand while nobody is busy; what it was is not promised.
LEMMA ByHandKeeps ==
  ASSUME SessionInv, NEW t \in Task, NEW z \in Zone,
         NEW level \in SealLevel,
         setSealLevel(t, z, level) \/ addZone(t, z, level),
         Retract(z)
  PROVE  Settling'
<1> DEFINE settled == [history.settled EXCEPT ![z] = "OPEN"]
           busy == Busy # {}
<1>1. history' = [settled |-> settled, disturbed |-> history.disturbed \/ busy]
  BY DEF Retract
<1>2. /\ history \in [settled : [Zone -> SealLevel], disturbed : BOOLEAN]
      /\ Levels
  BY DEF SessionInv, Settling
<1>3. settled \in [Zone -> SealLevel]
      /\ settled[z] = "OPEN"
      /\ \A y \in Zone : y # z => settled[y] = history.settled[y]
  BY <1>2, Order
<1>4. busy \in BOOLEAN
  OBVIOUS
<1>5. history' \in [settled : [Zone -> SealLevel], disturbed : BOOLEAN]
  BY <1>1, <1>2, <1>3, <1>4
<1>6. /\ Levels' /\ Good(zones)
      /\ \E zone \in ProtectedZone : zones' = [zones EXCEPT ![z] = zone]
  BY <1>2, ByHandLevels
<1>7. PICK zone \in ProtectedZone : zones' = [zones EXCEPT ![z] = zone]
  BY <1>6
<1>8. /\ tasks' = [tasks EXCEPT ![t] = [phase |-> "open", zones |-> zones']]
      /\ file' = file
  BY DEF setSealLevel, addZone, ChangeByHand
<1> HIDE DEF settled, busy
<1>9. ASSUME ~ history'.disturbed
      PROVE  OneBusy' /\ Steady(zones', file', tasks', history'.settled)
  <2>1. /\ ~ history.disturbed /\ history'.settled = settled
        /\ Busy = {}
    BY <1>1, <1>9 DEF busy
  <2>2. Steady(zones, file, tasks, history.settled)
    BY <2>1 DEF SessionInv, Settling
  <2>3. tasks \in [Task -> Doing] /\ zones \in Zones
    BY <1>2, <1>6 DEF Levels, Good
  <2>4. /\ tasks'[t].phase = "open" /\ tasks'[t].zones = zones'
        /\ \A u \in Task : u # t => tasks'[u] = tasks[u]
    BY <1>8, <2>3
  <2>5. \A u \in Task : tasks[u].phase \notin {"open", "write", "read"}
    BY <2>1, BusyIs
  <2>6. ~ Writing(tasks) /\ ~ Writing(tasks') /\ Saving(tasks')
    BY <2>4, <2>5 DEF Writing, Saving
  <2>7. OneBusy'
    BY <2>4, <2>5, BusyIs DEF OneBusy
  <2>8. \A u \in Task :
          tasks'[u].phase \in {"open", "write"} => Same(tasks'[u].zones, zones')
    BY <2>4, <2>5 DEF Same
  <2>9. Good(Found(file)) /\ Promised(Found(file), history.settled)
    BY <1>2, <2>2, <2>6, FoundIsGood DEF Steady
  <2>10. ASSUME NEW y \in Zone
         PROVE  AtLeast(Found(file)[y].level, settled[y])
    BY <1>3, <2>9, GoodLevels, LevelOrder DEF Promised
  <2>11. Promised(zones, history.settled)
    BY <1>6, <2>2 DEF Steady
  <2>12. ASSUME NEW y \in Zone
         PROVE  AtLeast(zones'[y].level, settled[y])
    <3>1. CASE y = z
      <4>1. zones'[y].level \in SealLevel
        BY <1>7, <2>3, <3>1 DEF Zones, ProtectedZone
      <4> QED
        BY <1>3, <3>1, <4>1, LevelOrder
    <3>2. CASE y # z
      BY <1>3, <1>7, <2>3, <2>11, <3>2 DEF Promised, Zones
    <3> QED
      BY <3>1, <3>2
  <2> QED
    BY <1>8, <2>1, <2>6, <2>7, <2>8, <2>10, <2>12 DEF Steady, Promised
<1> QED
  BY <1>5, <1>9 DEF Settling

\* A start that finds zones, or creates them, while nobody else is busy.
LEMMA StartKeeps ==
  ASSUME SessionInv, NEW t \in Task,
         \/ CreateZones(t) /\ Compare(Busy # {})
         \/ LoadZones(t) /\ Compare(FALSE)
  PROVE  Settling'
<1>1. /\ history \in [settled : [Zone -> SealLevel], disturbed : BOOLEAN]
      /\ Levels
  BY DEF SessionInv, Settling
<1>2. history' \in [settled : [Zone -> SealLevel], disturbed : BOOLEAN]
      /\ history'.settled = history.settled
  BY <1>1 DEF Compare
<1>2a. ASSUME ~ history'.disturbed
       PROVE  /\ ~ history.disturbed
              /\ \/ LoadZones(t)
                 \/ CreateZones(t) /\ Busy = {}
  <2>1. ASSUME NEW fault \in BOOLEAN, Compare(fault)
        PROVE  ~ history.disturbed /\ ~ fault
    <3>1. history'.disturbed = (history.disturbed \/ fault)
      BY <1>1, <2>1 DEF Compare
    <3> QED
      BY <1>2a, <3>1
  <2> DEFINE busy == Busy # {}
  <2>2. busy \in BOOLEAN
    OBVIOUS
  <2>3. CASE CreateZones(t) /\ Compare(busy)
    <3>1. ~ history.disturbed /\ ~ busy
      BY <2>1, <2>2, <2>3
    <3> QED
      BY <2>3, <3>1
  <2>4. CASE LoadZones(t) /\ Compare(FALSE)
    BY <2>1, <2>4
  <2> QED
    BY <2>3, <2>4
<1>3. zones' = Found(file) /\ Good(Found(file))
  BY <1>1, StartingLevels DEF Loaded
<1>4. /\ tasks' = [tasks EXCEPT ![t] = IdleTask] /\ file' = file
      /\ CreateZones(t) => tasks[t].phase = "init"
      /\ LoadZones(t) => tasks[t].phase = "read"
  BY DEF CreateZones, LoadZones, Listening
<1>5. tasks \in [Task -> Doing] /\ IdleTask.phase = "idle"
  BY <1>1 DEF Levels, IdleTask
<1>6. ASSUME ~ history'.disturbed
      PROVE  OneBusy' /\ Steady(zones', file', tasks', history'.settled)
  <2>1. OneBusy /\ Steady(zones, file, tasks, history.settled)
    BY <1>2a, <1>6 DEF SessionInv, Settling
  <2>2. \A u \in Busy : u = t
    BY <1>2a, <1>4, <1>6, <2>1, BusyIs DEF OneBusy
  <2>3. tasks[t].phase \notin {"open", "write"}
    BY <1>4
  <2>4. /\ \A u \in Task : tasks[u].phase \notin {"open", "write"}
        /\ \A u \in Task : tasks'[u].phase \notin {"open", "write", "read"}
    BY <1>4, <1>5, <2>2, <2>3, BusyIs
  <2>5. ~ Writing(tasks) /\ ~ Writing(tasks')
    BY <2>4 DEF Writing
  <2>6. OneBusy'
    BY <2>4, BusyIs DEF OneBusy
  <2>7. Promised(Found(file), history.settled)
    BY <2>1, <2>5 DEF Steady
  <2>8. Same(Found(file), zones')
    BY <1>3 DEF Same
  <2> QED
    BY <1>2, <1>3, <1>4, <2>4, <2>5, <2>6, <2>7, <2>8 DEF Steady
<1> QED
  BY <1>2, <1>6 DEF Settling

\* The next process finds what was settled, unless it was left in disorder.
LEMMA CrashKeeps ==
  ASSUME SessionInv, Crash, StartAfresh
  PROVE  Settling'
<1>1. /\ history \in [settled : [Zone -> SealLevel], disturbed : BOOLEAN]
      /\ Levels
  BY DEF SessionInv, Settling
<1>2. /\ zones' = NoZones /\ file' = file
      /\ \A t \in Task : tasks'[t].phase = "idle"
  BY <1>1, CrashLevels DEF Crash
<1>3. NoLevels \in [Zone -> SealLevel]
  BY Order DEF NoLevels
<1>4. /\ history'.disturbed = FALSE
      /\ history'.settled = IF history.disturbed \/ file.state = "truncated"
                            THEN NoLevels ELSE history.settled
      /\ history' \in [settled : [Zone -> SealLevel], disturbed : BOOLEAN]
  BY <1>1, <1>3 DEF StartAfresh
<1>5. Promised(Found(file), history'.settled)
  <2>1. CASE history.disturbed \/ file.state = "truncated"
    BY <1>1, <1>4, <2>1, FoundIsGood, NoPromise
  <2>2. CASE ~ (history.disturbed \/ file.state = "truncated")
    BY <1>4, <2>2 DEF SessionInv, Settling, Steady
  <2> QED
    BY <2>1, <2>2
<1>6. /\ Good(zones') => Promised(zones', history'.settled)
      /\ Good(zones') => Same(Found(file), zones')
  BY <1>2, NothingYet DEF Promised, Same
<1>7. ~ Writing(tasks')
  BY <1>2 DEF Writing
<1>8. OneBusy'
  BY <1>2, BusyIs DEF OneBusy
<1>9. Steady(zones', file', tasks', history'.settled)
  BY <1>2, <1>5, <1>6, <1>7 DEF Steady
<1> QED
  BY <1>4, <1>8, <1>9 DEF Settling

LEMMA SettlingInitially ==
  ASSUME SessionInit
  PROVE  SessionInv
<1>1. Levels
  BY LevelsInitially
<1>2. /\ zones = NoZones /\ history.settled = NoLevels
      /\ history = [settled |-> NoLevels, disturbed |-> FALSE]
      /\ \A t \in Task : tasks[t].phase = "idle"
  BY DEF SessionInit, IdleTask
<1>3. NoLevels \in [Zone -> SealLevel]
  BY Order DEF NoLevels
<1>4. Promised(Found(file), NoLevels)
  BY <1>1, FoundIsGood, NoPromise
<1>5. /\ Good(zones) => Promised(zones, history.settled)
      /\ Good(zones) => Same(Found(file), zones)
  BY <1>2, NothingYet DEF Promised, Same
<1>6. ~ Writing(tasks)
  BY <1>2 DEF Writing
<1>7. OneBusy
  BY <1>2, BusyIs DEF OneBusy
<1>8. Steady(zones, file, tasks, history.settled)
  BY <1>2, <1>4, <1>5, <1>6 DEF Steady
<1> QED
  BY <1>1, <1>2, <1>3, <1>7, <1>8 DEF SessionInv, Settling

LEMMA SessionStep ==
  ASSUME SessionInv, [SessionNext]_sessionVars
  PROVE  SessionInv'
<1>1. Levels /\ Levels' /\ Settling
  BY LevelsStep DEF SessionInv
<1>2. CASE UNCHANGED sessionVars
  <2>1. Settling'
    BY <1>1, <1>2 DEF Settling, OneBusy, Busy, sessionVars
  <2> QED
    BY <1>1, <2>1 DEF SessionInv
<1>3. ~ history.disturbed =>
        OneBusy /\ Steady(zones, file, tasks, history.settled)
  BY <1>1 DEF Settling
<1>4. history.settled \in [Zone -> SealLevel]
  BY <1>1 DEF Settling
<1>5. ASSUME NEW fault \in BOOLEAN, Remember(fault), ~ history'.disturbed
      PROVE  ~ history.disturbed /\ ~ fault
  BY <1>1, <1>5 DEF Remember, Settling
<1>6. ASSUME \/ \E r \in Resource, a \in Actor : Analyze(r, a)
             \/ \E t \in Task : BeginSession(t) \/ FindFile(t)
             \/ Stop,
             Remember(FALSE)
      PROVE  Settling'
  BY <1>1, <1>3, <1>5, <1>6, QuietSteps, Remembering
<1>7. ASSUME NEW t \in Task, Judge(t), Remember(FALSE)
      PROVE  Settling'
  BY <1>1, <1>3, <1>4, <1>5, <1>7, JudgeKeeps, Remembering
<1>8. ASSUME NEW t \in Task, OpenFile(t) \/ WriteFile(t),
             Remember(FALSE)
      PROVE  Settling'
  BY <1>1, <1>3, <1>4, <1>5, <1>8, WritingKeeps, Remembering
<1>9. ASSUME NEW t \in Task, WriteFails(t), Remember(TRUE)
      PROVE  Settling'
  BY <1>1, <1>5, <1>9, Remembering
<1>10. ASSUME NEW t \in Task, NEW z \in Zone, NEW level \in SealLevel,
              setSealLevel(t, z, level) \/ addZone(t, z, level),
              Retract(z)
       PROVE  Settling'
  BY <1>10, ByHandKeeps
<1>11. ASSUME NEW t \in Task,
              \/ CreateZones(t) /\ Compare(Busy # {})
              \/ LoadZones(t) /\ Compare(FALSE)
       PROVE  Settling'
  BY <1>11, StartKeeps
<1>12. ASSUME Crash, StartAfresh
       PROVE  Settling'
  BY <1>12, CrashKeeps
<1>13. SessionNext => Settling'
  BY <1>6, <1>7, <1>8, <1>9, <1>10, <1>11, <1>12 DEF SessionNext
<1> QED
  BY <1>1, <1>2, <1>13 DEF SessionInv

\* As long as one task uses the file at a time and writes succeed, memory and
\* file agree whenever nobody is saving, also over restarts and deaths.
THEOREM SettlingInvariance == SessionSpec => []SessionInv
<1>1. SessionInit => SessionInv
  BY SettlingInitially
<1>2. SessionInv /\ [SessionNext]_sessionVars => SessionInv'
  BY SessionStep
<1> QED
  BY <1>1, <1>2, PTL DEF SessionSpec

\* Then no level is lost that a zone had while nobody was using the file.
THEOREM LevelsSurvive == SessionSpec => []EscalationsSurvive
<1>1. SessionInv => EscalationsSurvive
  <2> SUFFICES ASSUME SessionInv, ~ history.disturbed, zones # NoZones
               PROVE  Promised(zones, history.settled)
    BY DEF EscalationsSurvive, Promised
  <2>1. Good(zones)
    BY ZonesInMemory DEF SessionInv
  <2> QED
    BY <2>1 DEF SessionInv, Settling, Steady
<1> QED
  BY <1>1, SettlingInvariance, PTL
-----------------------------------------------------------------------------
(***************************************************************************)
(* The session: types.                                                      *)
(***************************************************************************)

\* the starts under way; each adds a listener when it ends
Starters == {t \in Task : tasks[t].phase \in {"init", "read"}}

Started == session.listeners + Cardinality(Starters) <= used.starts

Bounded ==
  /\ file \in [state : {"none", "whole", "truncated", "garbled"}, zones : Snapshot]
  /\ patterns \in [Resource -> AccessPatterns]
  /\ profiles \in [Resource -> Profile]
  /\ \A r \in Resource : profiles[r].typicalActors \subseteq patterns[r].actors
  /\ used.events <= MaxAnalyzed /\ used.starts <= MaxSessions /\ used.byHand <= MaxByHand
  /\ IsFiniteSet(Starters) /\ Started
  /\ session.listeners > 0 => Good(zones)

LEMMA StartersIs ==
  /\ \A t : t \in Starters <=> t \in Task /\ tasks[t].phase \in {"init", "read"}
  /\ \A t : t \in Starters' <=> t \in Task /\ tasks'[t].phase \in {"init", "read"}
BY DEF Starters

LEMMA SessionBounds ==
  /\ MaxAnalyzed \in Nat /\ MaxSessions \in Nat /\ MaxByHand \in Nat
  /\ ~ Good(NoZones)
BY NothingYet, SessionAssumption

\* Which phase a step of a task ends.
LEMMA PhaseChanges ==
  ASSUME Levels, NEW t \in Task,
         \/ Judge(t) \/ OpenFile(t) \/ WriteFile(t)
         \/ WriteFails(t) \/ FindFile(t)
  PROVE  Starters' = Starters /\ UNCHANGED <<session, used, patterns, profiles>>
<1>1. tasks \in [Task -> Doing] /\ tasks[t] \in Doing /\ IdleTask.phase = "idle"
  BY DEF Levels, IdleTask
<1>2. UNCHANGED <<session, used, patterns, profiles>>
  BY DEF Judge, OpenFile, WriteFile, WriteFails,
         FindFile
<1>3. /\ \A u \in Task : u # t => tasks'[u] = tasks[u]
      /\ tasks'[t].phase \in {"init", "read"} <=> tasks[t].phase \in {"init", "read"}
  <2>1. CASE Judge(t)
    <3> DEFINE open == [phase |-> "open", zones |-> zones']
    <3>1. /\ tasks[t].phase = "scored"
          /\ \/ tasks' = [tasks EXCEPT ![t] = IdleTask]
             \/ tasks' = [tasks EXCEPT ![t] = open]
      BY <2>1 DEF Judge
    <3>2. open.phase = "open"
      OBVIOUS
    <3> HIDE DEF open
    <3> QED
      BY <1>1, <3>1, <3>2
  <2>2. CASE OpenFile(t)
    <3>1. tasks[t].phase = "open" /\ tasks' = [tasks EXCEPT ![t].phase = "write"]
      BY <2>2 DEF OpenFile
    <3>2. tasks[t] \in [phase : {"open", "write"}, zones : Zones]
      BY <1>1, <3>1 DEF Doing, IdleTask
    <3> QED
      BY <1>1, <3>1, <3>2
  <2>3. CASE WriteFile(t) \/ WriteFails(t)
    <3>1. tasks[t].phase \in {"open", "write"}
          /\ tasks' = [tasks EXCEPT ![t] = IdleTask]
      BY <2>3 DEF WriteFile, WriteFails
    <3> QED
      BY <1>1, <3>1
  <2>4. CASE FindFile(t)
    <3>1. tasks[t].phase = "init" /\ tasks' = [tasks EXCEPT ![t].phase = "read"]
      BY <2>4 DEF FindFile
    <3>2. tasks[t] \in [phase : {"init", "read"}]
      BY <1>1, <3>1 DEF Doing, IdleTask
    <3> QED
      BY <1>1, <3>1, <3>2
  <2> QED
    BY <2>1, <2>2, <2>3, <2>4
<1>4. Starters' = Starters
  BY <1>3, StartersIs
<1> QED
  BY <1>2, <1>4

\* The file has one of four states.
LEMMA FileStep ==
  ASSUME Levels, Bounded, SessionNext
  PROVE  file' \in [state : {"none", "whole", "truncated", "garbled"},
                    zones : Snapshot]
<1>1. NoZones \in Snapshot /\ Zones \subseteq Snapshot
  BY DEF Snapshot, Zones
<1>2. ASSUME NEW t \in Task, OpenFile(t) \/ WriteFile(t)
      PROVE  \/ /\ file'.state \in {"truncated", "garbled"}
                /\ file' = [state |-> file'.state, zones |-> NoZones]
             \/ file' = [state |-> "whole", zones |-> tasks[t].zones]
                /\ tasks[t].zones \in Zones
  <2>1. tasks[t].phase \in {"open", "write"} => tasks[t].zones \in Zones
    BY DoingIs DEF Levels
  <2> QED
    BY <1>2, <2>1 DEF OpenFile, WriteFile
<1>3. ASSUME NEW t \in Task, OpenFile(t) \/ WriteFile(t)
      PROVE  file' \in [state : {"none", "whole", "truncated", "garbled"},
                        zones : Snapshot]
  BY <1>1, <1>2, <1>3
<1>4. \/ \E t \in Task : OpenFile(t) \/ WriteFile(t)
      \/ file' = file
  BY DEF SessionNext, Analyze, Judge, BeginSession,
         FindFile, Stop, setSealLevel, addZone,
         ChangeByHand, CreateZones, LoadZones,
         Listening, WriteFails, Crash
<1> QED
  BY <1>3, <1>4 DEF Bounded

\* Profiles are built from what was recorded.
LEMMA ProfileStep ==
  ASSUME Levels, Bounded, SessionNext
  PROVE  /\ patterns' \in [Resource -> AccessPatterns]
         /\ profiles' \in [Resource -> Profile]
         /\ \A r \in Resource : profiles'[r].typicalActors \subseteq patterns'[r].actors
<1>1. ASSUME NEW r \in Resource, NEW a \in Actor, Analyze(r, a)
      PROVE  /\ patterns' \in [Resource -> AccessPatterns]
             /\ profiles' \in [Resource -> Profile]
             /\ \A q \in Resource :
                  profiles'[q].typicalActors \subseteq patterns'[q].actors
  <2> DEFINE recorded == record(patterns[r], a, session.listeners)
  <2>1. patterns' = [patterns EXCEPT ![r] = recorded] /\ profiles' = profiles
    BY <1>1 DEF Analyze
  <2>2. /\ patterns[r].actors \subseteq Actor /\ patterns[r].count \in Nat
        /\ session.listeners \in Nat
    BY DEF Bounded, Levels, AccessPatterns
  <2>3. /\ recorded \in AccessPatterns
        /\ patterns[r].actors \subseteq recorded.actors
    BY <2>2 DEF record, AccessPatterns
  <2> HIDE DEF recorded
  <2> QED
    BY <2>1, <2>3 DEF Bounded
<1>2. CASE Stop
  <2>1. /\ patterns' = patterns
        /\ profiles' = [r \in Resource |-> buildProfile(patterns[r])]
    BY <1>2 DEF Stop
  <2>2. \A r \in Resource :
          /\ buildProfile(patterns[r]) \in Profile
          /\ buildProfile(patterns[r]).typicalActors = patterns[r].actors
    BY DEF Bounded, buildProfile, Profile, AccessPatterns
  <2> QED
    BY <2>1, <2>2 DEF Bounded
<1>3. CASE Crash
  <2>1. /\ NoPatterns \in AccessPatterns
        /\ NoProfile \in Profile
        /\ NoProfile.typicalActors = NoPatterns.actors
    BY DEF NoPatterns, NoProfile, buildProfile,
           AccessPatterns, Profile
  <2> QED
    BY <1>3, <2>1 DEF Crash
<1>4. CASE UNCHANGED <<patterns, profiles>>
  BY <1>4 DEF Bounded
<1>5. \/ \E r \in Resource, a \in Actor : Analyze(r, a)
      \/ Stop \/ Crash
      \/ UNCHANGED <<patterns, profiles>>
  BY PhaseChanges
     DEF SessionNext, BeginSession, setSealLevel, addZone,
         ChangeByHand, CreateZones, LoadZones,
         Listening
<1> QED
  BY <1>1, <1>2, <1>3, <1>4, <1>5

\* Steps that begin or end no start.
LEMMA SameStarts ==
  ASSUME Levels, Levels', Bounded,
         Starters' = Starters,
         session'.listeners = session.listeners,
         used'.starts = used.starts,
         Good(zones) => Good(zones')
  PROVE  /\ IsFiniteSet(Starters') /\ Started'
         /\ session'.listeners > 0 => Good(zones')
         /\ used'.starts <= MaxSessions
BY DEF Bounded, Started

\* A start adds itself to those under way, and a listener when it ends.
LEMMA StartsStep ==
  ASSUME Levels, Levels', Bounded, SessionNext
  PROVE  /\ IsFiniteSet(Starters') /\ Started'
         /\ session'.listeners > 0 => Good(zones')
         /\ used'.starts <= MaxSessions
<1> DEFINE goal == /\ IsFiniteSet(Starters') /\ Started'
                   /\ session'.listeners > 0 => Good(zones')
                   /\ used'.starts <= MaxSessions
<1>1. /\ tasks \in [Task -> Doing] /\ IdleTask.phase = "idle"
      /\ session \in [started : BOOLEAN, listeners : Nat]
      /\ used \in [events : Nat, starts : Nat, byHand : Nat]
      /\ IsFiniteSet(Starters) /\ Cardinality(Starters) \in Nat /\ Started
      /\ MaxSessions \in Nat
  BY FS_CardinalityType, SessionBounds DEF Levels, IdleTask, Bounded
<1>2. Good(zones) => zones # NoZones
  BY SessionBounds
<1>3. zones' # NoZones => Good(zones')
  BY DEF Levels, Good, Zones
<1>4. ASSUME NEW r \in Resource, NEW a \in Actor, Analyze(r, a)
      PROVE  goal
  <2>1. /\ \A t \in Task :
             \/ tasks'[t] = tasks[t]
             \/ tasks[t] = IdleTask /\ tasks'[t].phase = "scored"
        /\ UNCHANGED <<zones, session>>
    BY <1>4, AnalyzeTasks
  <2>2. Starters' = Starters
    BY <1>1, <2>1, StartersIs
  <2>3. used'.starts = used.starts
    BY <1>1, <1>4 DEF Analyze
  <2> QED
    BY <2>1, <2>2, <2>3, SameStarts
<1>5. ASSUME NEW t \in Task,
             \/ Judge(t) \/ OpenFile(t) \/ WriteFile(t)
             \/ WriteFails(t) \/ FindFile(t)
      PROVE  goal
  <2>1. Starters' = Starters /\ UNCHANGED <<session, used>>
    BY <1>5, PhaseChanges
  <2>2. Good(zones) => Good(zones')
    <3>1. CASE Judge(t)
      <4>1. zones' = zones \/ zones' = recordAnomaly(tasks[t].resource, tasks[t].score)
        BY <3>1 DEF Judge
      <4>2. tasks[t].score \in 0 .. 84
        BY <1>1, <3>1, DoingIs DEF Judge
      <4> QED
        BY <4>1, <4>2, RecordAnomalyIs
    <3>2. CASE ~ Judge(t)
      <4>1. zones' = zones
        BY <1>5, <3>2 DEF OpenFile, WriteFile,
                          WriteFails, FindFile
      <4> QED
        BY <4>1
    <3> QED
      BY <3>1, <3>2
  <2> QED
    BY <2>1, <2>2, SameStarts
<1>6. ASSUME NEW t \in Task, NEW z \in Zone, NEW level \in SealLevel,
             setSealLevel(t, z, level) \/ addZone(t, z, level)
      PROVE  goal
  <2>1. PICK zone : ChangeByHand(t, z, zone)
    BY <1>6 DEF setSealLevel, addZone
  <2>2. /\ zones # NoZones /\ tasks[t] = IdleTask
        /\ tasks' = [tasks EXCEPT ![t] = [phase |-> "open", zones |-> zones']]
        /\ used' = [used EXCEPT !.byHand = @ + 1] /\ session' = session
    BY <2>1 DEF ChangeByHand
  <2>3. Starters' = Starters
    BY <1>1, <2>2, StartersIs
  <2>4. PICK any \in ProtectedZone : zones' = [zones EXCEPT ![z] = any]
    BY <1>6, ByHandLevels
  <2>5. Good(zones')
    <3>1. tasks'[t].phase = "open"
      BY <1>1, <2>2
    <3> QED
      BY <3>1 DEF Levels, Good, Zones
  <2> QED
    BY <1>1, <2>2, <2>3, <2>5, SameStarts
<1>7. ASSUME NEW t \in Task, BeginSession(t)
      PROVE  goal
  <2>1. /\ used.starts < MaxSessions /\ tasks[t] = IdleTask
        /\ tasks' = [tasks EXCEPT ![t] = [phase |-> "init"]]
        /\ used' = [used EXCEPT !.starts = @ + 1]
        /\ UNCHANGED <<zones, session>>
    BY <1>7 DEF BeginSession
  <2>2. t \notin Starters /\ Starters' = Starters \cup {t}
    BY <1>1, <2>1, StartersIs
  <2>3. IsFiniteSet(Starters') /\ Cardinality(Starters') = Cardinality(Starters) + 1
    BY <1>1, <2>2, FS_AddElement
  <2>4. used'.starts = used.starts + 1
    BY <1>1, <2>1
  <2>5. Started'
    BY <1>1, <2>1, <2>3, <2>4 DEF Started
  <2>6. used'.starts <= MaxSessions
    BY <1>1, <2>1, <2>4
  <2> QED
    BY <2>1, <2>3, <2>5, <2>6 DEF Bounded
<1>8. ASSUME NEW t \in Task, CreateZones(t) \/ LoadZones(t)
      PROVE  goal
  <2>1. /\ tasks[t].phase \in {"init", "read"}
        /\ tasks' = [tasks EXCEPT ![t] = IdleTask]
        /\ session' = [started |-> TRUE, listeners |-> session.listeners + 1]
        /\ used' = used
    BY <1>8 DEF CreateZones, LoadZones, Listening
  <2>2. t \in Starters /\ Starters' = Starters \ {t}
    BY <1>1, <2>1, StartersIs
  <2>3. IsFiniteSet(Starters') /\ Cardinality(Starters') = Cardinality(Starters) - 1
    BY <1>1, <2>2, FS_RemoveElement
  <2>4. session'.listeners = session.listeners + 1
    BY <2>1
  <2>5. Started'
    BY <1>1, <2>1, <2>3, <2>4 DEF Started
  <2>6. Good(zones')
    BY <1>8, StartingLevels
  <2> QED
    BY <2>1, <2>3, <2>5, <2>6 DEF Bounded
<1>9. ASSUME Stop
      PROVE  goal
  <2>1. /\ session' = [session EXCEPT !.started = FALSE]
        /\ UNCHANGED <<zones, tasks, used>>
    BY <1>9 DEF Stop
  <2>2. Starters' = Starters /\ session'.listeners = session.listeners
    BY <1>1, <2>1, StartersIs
  <2> QED
    BY <2>1, <2>2, SameStarts
<1>10. ASSUME Crash
       PROVE  goal
  <2>1. /\ session'.listeners = 0 /\ used' = used
        /\ \A t \in Task : tasks'[t].phase = "idle"
    BY <1>10, CrashLevels DEF Crash
  <2>2. Starters' = {}
    BY <2>1, StartersIs
  <2>3. IsFiniteSet(Starters') /\ Cardinality(Starters') = 0
    BY <2>2, FS_EmptySet
  <2>4. Started'
    BY <1>1, <2>1, <2>3 DEF Started
  <2> QED
    BY <2>1, <2>3, <2>4 DEF Bounded
<1> HIDE DEF goal
<1>11. goal
  BY <1>4, <1>5, <1>6, <1>7, <1>8, <1>9, <1>10 DEF SessionNext
<1> QED
  BY <1>11 DEF goal

\* Events, starts and changes by hand are bounded by their guards.
LEMMA UsedStep ==
  ASSUME Levels, Bounded, SessionNext
  PROVE  used'.events <= MaxAnalyzed /\ used'.byHand <= MaxByHand
<1>1. /\ used \in [events : Nat, starts : Nat, byHand : Nat]
      /\ used.events <= MaxAnalyzed /\ used.byHand <= MaxByHand
      /\ MaxAnalyzed \in Nat /\ MaxByHand \in Nat
  BY SessionBounds DEF Levels, Bounded
<1>2. \/ used' = used
      \/ used' = [used EXCEPT !.starts = @ + 1]
      \/ used' = [used EXCEPT !.events = @ + 1] /\ used.events < MaxAnalyzed
      \/ used' = [used EXCEPT !.byHand = @ + 1] /\ used.byHand < MaxByHand
  BY PhaseChanges
     DEF SessionNext, Analyze, BeginSession, Stop,
         setSealLevel, addZone, ChangeByHand,
         CreateZones, LoadZones, Listening, Crash
<1> QED
  BY <1>1, <1>2

LEMMA BoundedStep ==
  ASSUME SessionInv, Bounded, [SessionNext]_sessionVars
  PROVE  Bounded'
<1>1. Levels /\ Levels'
  BY LevelsStep DEF SessionInv
<1>2. CASE UNCHANGED sessionVars
  BY <1>2 DEF Bounded, Started, Starters, Good, Zones, sessionVars
<1>3. CASE SessionNext
  BY <1>1, <1>3, FileStep, ProfileStep, StartsStep, UsedStep
     DEF Bounded, Good, Zones
<1> QED
  BY <1>2, <1>3

LEMMA BoundedInitially ==
  ASSUME SessionInit
  PROVE  Bounded
<1>1. /\ session.listeners = 0 /\ used.starts = 0 /\ used.events = 0 /\ used.byHand = 0
      /\ \A t \in Task : tasks[t].phase = "idle"
      /\ file = [state |-> "none", zones |-> NoZones]
      /\ MaxAnalyzed \in Nat /\ MaxSessions \in Nat /\ MaxByHand \in Nat
  BY SessionBounds DEF SessionInit, IdleTask
<1>2. Starters = {}
  BY <1>1, StartersIs
<1>3. IsFiniteSet(Starters) /\ Started
  BY <1>1, <1>2, FS_EmptySet DEF Started
<1>4. /\ patterns \in [Resource -> AccessPatterns]
      /\ profiles \in [Resource -> Profile]
      /\ \A r \in Resource : profiles[r].typicalActors \subseteq patterns[r].actors
  BY DEF SessionInit, NoPatterns, NoProfile, buildProfile,
         AccessPatterns, Profile
<1>5. file \in [state : {"none", "whole", "truncated", "garbled"},
                zones : Snapshot]
  BY <1>1 DEF Snapshot
<1> QED
  BY <1>1, <1>3, <1>4, <1>5 DEF Bounded

\* Type correctness of the session: zones, their file, profiles, what each call
\* holds, and no more listeners than starts.
THEOREM SessionTypeCorrect == SessionSpec => []SessionTypeOK
<1>1. SessionInit => SessionInv /\ Bounded
  BY SettlingInitially, BoundedInitially
<1>2. SessionInv /\ Bounded /\ [SessionNext]_sessionVars => SessionInv' /\ Bounded'
  BY SessionStep, BoundedStep
<1>3. SessionInv /\ Bounded => SessionTypeOK
  <2> SUFFICES ASSUME SessionInv, Bounded PROVE SessionTypeOK
    OBVIOUS
  <2>1. Levels /\ Settling /\ ~ Good(NoZones)
    BY SessionBounds DEF SessionInv
  <2>2. /\ zones \in Snapshot
        /\ file.state = "whole" => file.zones # NoZones
        /\ session.listeners > 0 => zones # NoZones
    BY <2>1 DEF Levels, Bounded, Good, Zones, Snapshot
  <2>3. \A r \in Resource : profiles[r].typicalActors \subseteq
                              buildProfile(patterns[r]).typicalActors
    BY DEF Bounded, buildProfile
  <2>4. \A t \in Task :
          tasks[t] \in {IdleTask}
            \cup [phase : {"scored"}, resource : Resource, score : 0 .. 100]
            \cup [phase : {"open", "write"},
                  zones : Snapshot \ {NoZones}]
            \cup [phase : {"init", "read"}]
    <3> SUFFICES ASSUME NEW t \in Task
                 PROVE  tasks[t] \in {IdleTask}
                          \cup [phase : {"scored"}, resource : Resource, score : 0 .. 100]
                          \cup [phase : {"open", "write"},
                                zones : Snapshot \ {NoZones}]
                          \cup [phase : {"init", "read"}]
      OBVIOUS
    <3>1. tasks[t] \in Doing /\ IdleTask.phase = "idle"
      BY <2>1 DEF Levels, IdleTask
    <3>2. CASE tasks[t] \in [phase : {"open", "write"}, zones : Zones]
      <4>1. Good(tasks[t].zones)
        BY <2>1, <3>2 DEF Levels
      <4>2. tasks[t].zones \in Snapshot \ {NoZones}
        BY <2>1, <4>1 DEF Good, Zones, Snapshot
      <4> QED
        BY <3>2, <4>2
    <3>3. CASE tasks[t] \in [phase : {"scored"}, resource : Resource, score : 0 .. 84]
      BY <3>3
    <3> QED
      BY <3>1, <3>2, <3>3 DEF Doing
  <2>5. session \in [started : BOOLEAN, listeners : 0 .. MaxSessions]
    <3>1. /\ session \in [started : BOOLEAN, listeners : Nat]
          /\ used \in [events : Nat, starts : Nat, byHand : Nat]
          /\ used.starts <= MaxSessions /\ MaxSessions \in Nat
          /\ Cardinality(Starters) \in Nat
          /\ session.listeners + Cardinality(Starters) <= used.starts
      BY <2>1, FS_CardinalityType, SessionBounds DEF Levels, Bounded, Started
    <3>2. session.listeners \in 0 .. MaxSessions
      BY <3>1
    <3> QED
      BY <3>1, <3>2
  <2>6. used \in [events : 0 .. MaxAnalyzed, starts : 0 .. MaxSessions,
                  byHand : 0 .. MaxByHand]
    BY <2>1, SessionBounds DEF Levels, Bounded
  <2>7. tasks \in [Task -> {IdleTask}
            \cup [phase : {"scored"}, resource : Resource, score : 0 .. 100]
            \cup [phase : {"open", "write"},
                  zones : Snapshot \ {NoZones}]
            \cup [phase : {"init", "read"}]]
    BY <2>1, <2>4 DEF Levels
  <2> QED
    BY <2>1, <2>2, <2>3, <2>5, <2>6, <2>7 DEF SessionTypeOK, Settling, Bounded
<1> QED
  BY <1>1, <1>2, <1>3, PTL DEF SessionSpec
=============================================================================
