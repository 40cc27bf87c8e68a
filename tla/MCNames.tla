------------------------------- MODULE MCNames -------------------------------
(***************************************************************************)
(* Small instances of NameCache.                                           *)
(***************************************************************************)
EXTENDS NameCache

CONSTANTS k1, k2, k3, game, render

\* The drawing thread looks up one of the names the game's thread does.
OneShared == (game :> {k1, k2, k3}) @@ (render :> {k3})
=============================================================================
