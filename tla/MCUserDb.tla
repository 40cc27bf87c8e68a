------------------------------ MODULE MCUserDb ------------------------------
(***************************************************************************)
(* A small instance of UserDb, from tables of the past of a few rows.      *)
(***************************************************************************)
EXTENDS UserDb, TLC

\* Accounts, addresses and names are only compared for equality.
Symmetry == Permutations(Account) \cup Permutations(Address) \cup Permutations(CharName)
=============================================================================
