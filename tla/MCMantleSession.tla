---------------------------- MODULE MCMantleSession ----------------------------
(***************************************************************************)
(* Two zones, and a resource in both of them: a key file under a login path. *)
(***************************************************************************)
EXTENDS MantleSession, TLC

CONSTANTS auth, files, keyfile, login

MCZoneOrder == <<auth, files>>

MCDefaultLevel == auth :> "OBSERVED" @@ files :> "RESTRICTED"

MCZonesOf == keyfile :> {auth, files} @@ login :> {auth}

MCWeightsOf == keyfile :> <<90>> @@ login :> <<60>>

TaskSymmetry == Permutations(Task)
=============================================================================
