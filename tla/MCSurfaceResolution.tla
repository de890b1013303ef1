------------------------ MODULE MCSurfaceResolution ------------------------
(***************************************************************************)
(* Small instances of SurfaceResolution for TLC.                            *)
(***************************************************************************)
EXTENDS SurfaceResolution, TLC

CONSTANTS a1, env, guide, console

\* .env is sealed by its name; docs/guide.md is harmless, but shares a word
\* with /admin/guide, the console, whose name carries the tag admin
MCInferredTags == (env :> {}) @@ (guide :> {}) @@ (console :> {"admin"})

MCNamedZone ==
  (env :> "SEALED") @@ (guide :> "OBSERVED") @@ (console :> "RESTRICTED")

MCSimilar ==
  (env :> {env}) @@ (guide :> {guide, console}) @@ (console :> {guide, console})

\* a permissive rule that outranks an earlier refusal of the same resource
MCRules ==
  << [resources |-> {guide}, actors |-> {a1}, decision |-> "QUARANTINE",
      priority |-> 20],
     [resources |-> {env, guide}, actors |-> {a1}, decision |-> "ALLOW",
      priority |-> 10] >>

NoRules == << >>

MCEventTags == {{}, {"tokens"}, {"prompt"}}

TokenEvents == {{}, {"tokens"}}

Request(resource, action, real, zone, trust, known, score) ==
  [actor |-> a1, resource |-> resource, action |-> action, real |-> real,
   riskTags |-> {}, zoneLevel |-> zone, trustState |-> trust,
   isKnownActor |-> known, anomalyScore |-> score]

\* what wrapped processes send, clients that bring a real answer or say that
\* they are known, a runtime mantle session and users of the engine
MCPayloads ==
  { Request(env, "read", TRUE, Undefined, Undefined, Undefined, 0),
    Request(env, "read", FALSE, Undefined, Undefined, "known", 0),
    Request(env, "TRACE", FALSE, Undefined, Undefined, "known", 0),
    Request(guide, "POST", TRUE, Undefined, Undefined, Undefined, 0),
    Request(guide, "search", TRUE, Undefined, "trusted", Undefined, 95),
    Request(console, "GET", TRUE, Undefined, Undefined, "known", 0),
    Request(console, "search", TRUE, Undefined, "trusted", Undefined, 0),
    Request(console, "TRACE", FALSE, "RESTRICTED", Undefined, Undefined, 60) }

Symmetry == Permutations(Conn)
=============================================================================
