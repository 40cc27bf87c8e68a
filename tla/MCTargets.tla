------------------------------ MODULE MCTargets ------------------------------
(***************************************************************************)
(* Small instances of Targets.                                             *)
(***************************************************************************)
EXTENDS Targets

CONSTANTS a1, a2, a3, m1, m2

\* No agent id is used on two maps.
OnOneMap == (a1 :> {m1}) @@ (a2 :> {m1}) @@ (a3 :> {m1})
=============================================================================
