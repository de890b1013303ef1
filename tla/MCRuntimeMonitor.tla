--------------------------- MODULE MCRuntimeMonitor ---------------------------
(***************************************************************************)
(* Small instances of RuntimeMonitor for TLC.                               *)
(***************************************************************************)
EXTENDS RuntimeMonitor, TLC

\* a blocked access, and drift
MCOffered ==
  {[blocked |-> TRUE, risk |-> "none", drifted |-> FALSE],
   [blocked |-> FALSE, risk |-> "integrity", drifted |-> TRUE]}

Symmetry == Permutations(Caller)
=============================================================================
