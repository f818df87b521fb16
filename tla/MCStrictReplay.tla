--------------------------- MODULE MCStrictReplay ---------------------------
(***************************************************************************)
(* StrictReplay on a small instance: two batches, of two pairs and of one. *)
(***************************************************************************)
EXTENDS StrictReplay

CONSTANTS p1, p2, p3

TwoBatches == <<<<p1, p2>>, <<p3>>>>
=============================================================================
