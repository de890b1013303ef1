------------------------- MODULE MCSidecarLifecycle -------------------------
(***************************************************************************)
(* Small instances of SidecarLifecycle for TLC.                             *)
(***************************************************************************)
EXTENDS SidecarLifecycle, TLC

CONSTANTS hosting, scanning, t1, t2, t3, u, r1, r2

\* a process with a sidecar, and another one
MCHome ==
  (t1 :> hosting) @@ (t2 :> hosting) @@ (t3 :> hosting) @@ (u :> scanning)

Does(kinds1, kinds2, kinds3, kindsU, ephemeral) ==
  [does |-> (t1 :> kinds1) @@ (t2 :> kinds2) @@ (t3 :> kinds3) @@ (u :> kindsU),
   ephemeral |-> ephemeral]

\* starts, stops and interrupts that overlap, over handlers; the same with a
\* port that is given; an engine that is used while it is being initialised,
\* beside a scan; a sidecar beside a scan; a scan beside an init of the same
\* process
MCWorkloads ==
  {Does({"start", "stop"}, {"start", "interrupt"}, {"event", "surface"}, {}, TRUE),
   Does({"start", "stop"}, {"start"}, {}, {}, FALSE),
   Does({"init"}, {"resolve", "observe"}, {}, {"scan"}, TRUE),
   Does({"start", "stop"}, {}, {}, {"scan"}, TRUE),
   Does({"scan"}, {"init"}, {}, {}, TRUE)}
=============================================================================
