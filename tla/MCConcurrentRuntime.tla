------------------------ MODULE MCConcurrentRuntime ------------------------
(***************************************************************************)
(* Small instances of ConcurrentRuntime for TLC.                           *)
(***************************************************************************)
EXTENDS ConcurrentRuntime

Paired == <<"primary", "shadow">>
=============================================================================
