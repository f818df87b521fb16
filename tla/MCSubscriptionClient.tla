------------------------- MODULE MCSubscriptionClient -------------------------
(***************************************************************************)
(* SubscriptionClient on small instances; the cfg file gives the sizes.    *)
(***************************************************************************)
EXTENDS SubscriptionClient
=============================================================================
