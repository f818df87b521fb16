---------------------------- MODULE MCFormalGuard ----------------------------
(***************************************************************************)
(* FormalGuard on small instances; the cfg files give the sizes.           *)
(***************************************************************************)
EXTENDS FormalGuard
=============================================================================
