----------------------------- MODULE MCLifecycle -----------------------------
(***************************************************************************)
(* Lifecycle has no parameters: TLC checks the whole of it.                *)
(***************************************************************************)
EXTENDS Lifecycle
=============================================================================
