-------------------------- MODULE MCSidecarControl --------------------------
(***************************************************************************)
(* Small instances of SidecarControl for TLC.                               *)
(***************************************************************************)
EXTENDS SidecarControl, TLC, FiniteSetsExt

CONSTANTS p1, v1, v2

Event(category, blocked, pattern, status) ==
  [category |-> category, blocked |-> blocked, pattern |-> pattern,
   dangerous |-> FALSE, status |-> status]

\* an allowed spawn, a blocked read, and the integrity reports
MCEvents ==
  {Event("PROCESS_SPAWN", FALSE, p1, "unknown"),
   Event("FILE_READ", TRUE, NoPattern, "unknown"),
   Event("PRELOAD_INTEGRITY", FALSE, NoPattern, "healthy"),
   Event("PRELOAD_INTEGRITY", TRUE, NoPattern, "drifted")}

\* blame on one capability, and on all of them
MCInheritedEvents ==
  {event \in MCEvents :
     event.blocked /\ event.category \in {"FILE_READ", "PRELOAD_INTEGRITY"}}

\* A single session is followed without restriction.  Of two, the second is
\* followed if it was bootstrapped as a child of the first: while no time has
\* passed since either was last heard of, and as long as it adds to the
\* evidence against it, one request at a time and until there are two events or
\* drifted fields in all.
AddsToChild(request) ==
  \/ request = Idle
  \/ /\ request \in Pending /\ request.route \in {"heartbeat", "runtime-event"}
     /\ ctl[request.session].inheritedFrom # None

Lineage ==
  Cardinality(created) > 1 =>
    /\ \E s \in created : ctl[s].inheritedFrom # None
    /\ \A s \in created : ctl[s].ttl = SessionTtl
    /\ \A c \in Conn : AddsToChild(conn[c])
    /\ Cardinality({c \in Conn : conn[c] # Idle}) <= 1
    /\ occurrences = createEmptyState
    /\ FoldSet(LAMBDA s, n : n + ctl[s].runtimeEvents + ctl[s].driftCount,
               0, created) <= 2

Symmetry == Permutations(Session) \cup Permutations(Conn)
              \cup Permutations(Value)
=============================================================================
