----------------------- MODULE MCSegmentedContinuation -----------------------
(***************************************************************************)
(* SegmentedContinuation on small instances; the cfg files give the sizes. *)
(***************************************************************************)
EXTENDS SegmentedContinuation
=============================================================================
