------------------------------ MODULE MCUpdate ------------------------------
(***************************************************************************)
(* Small instances of UpdateProtocol.                                      *)
(***************************************************************************)
EXTENDS UpdateProtocol

CONSTANTS c1, v1, v2, v3, v4

\* Two releases of the build at g_dll, one of the build at g_dll_cn.
ReleaseMain == [d \in Dll |-> IF d = "g_dll" THEN {v1, v2} ELSE {v3}]

\* Two releases of each.
ReleaseBoth == [d \in Dll |-> IF d = "g_dll" THEN {v1, v2} ELSE {v3, v4}]

\* v1 takes a full piece and a short one, the others one short piece.
Lengths == [v \in Version |-> IF v = v1 THEN UPDATE_SIZE + 2 ELSE 2]

\* v2 is one piece of the size that is neither reduced nor sent in the small datagram.
LengthsHole == [Lengths EXCEPT ![v2] = FRAG_FLOOR]
=============================================================================
