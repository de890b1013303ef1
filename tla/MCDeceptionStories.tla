------------------------- MODULE MCDeceptionStories -------------------------
(***************************************************************************)
(* Small instances of DeceptionStories for TLC.                             *)
(***************************************************************************)
EXTENDS DeceptionStories, TLC

CONSTANTS a1, a2, s1, s2

\* an actor with two sessions, one of which it shares with another actor
MCClients ==
  {[actor |-> a1, session |-> s1], [actor |-> a1, session |-> s2],
   [actor |-> a2, session |-> s2]}

Symmetry == Permutations(Conn)
=============================================================================
