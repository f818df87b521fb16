----------------------- MODULE MCDurablePairSettlement -----------------------
(***************************************************************************)
(* DurablePairSettlement on small instances: a schedule of two pairs, of   *)
(* which the caller may pass one or both.                                  *)
(***************************************************************************)
EXTENDS DurablePairSettlement

CONSTANTS p1, p2

Schedule == {<<p1, p2>>, <<p1>>, <<p2>>}
=============================================================================
