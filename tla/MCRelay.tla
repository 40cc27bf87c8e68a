------------------------------- MODULE MCRelay -------------------------------
(***************************************************************************)
(* Small instances of DamageRelay.                                         *)
(***************************************************************************)
EXTENDS DamageRelay

\* Endpoints, names and reports are only compared for equality.
Symmetry == Permutations(Endpoint) \cup Permutations(Name) \cup Permutations(Report)
=============================================================================
