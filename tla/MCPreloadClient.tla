--------------------------- MODULE MCPreloadClient ---------------------------
(***************************************************************************)
(* Small instances of PreloadClient for TLC.  With two calls, at most three *)
(* sessions are held at a time and a call that bootstraps holds none, so    *)
(* three sessions are enough for one to be free whenever one is issued.     *)
(***************************************************************************)
EXTENDS PreloadClient
=============================================================================
