------------------------------ MODULE Recency ------------------------------
(***************************************************************************)
(* The order of the entries of a uthash (uthash/src/uthash.h): they are    *)
(* listed as they were added, whatever bucket they are in.  The tables of  *)
(* this program delete an entry and add it again when it is used, so that  *)
(* the list has the entry used least recently at its head.                 *)
(***************************************************************************)
EXTENDS Integers, Sequences

\* HASH_DEL: what was added after s moves up.
Unlinked(q, s) ==
  LET at == CHOOSE i \in DOMAIN q : q[i] = s
  IN  [i \in 1 .. Len(q) - 1 |-> IF i < at THEN q[i] ELSE q[i + 1]]

\* HASH_DEL and HASH_ADD: s is the one used last.
SeenLast(q, s) == Append(Unlinked(q, s), s)
=============================================================================
