------------------------------ MODULE MCPlayers ------------------------------
(***************************************************************************)
(* Small instances of ClosestPlayers.                                      *)
(***************************************************************************)
EXTENDS ClosestPlayers

CONSTANTS a1, a2, a3, p1, p2, p3

\* Each agent id belongs to a player.
Residents == (a1 :> p1) @@ (a2 :> p2) @@ (a3 :> p3)
=============================================================================
