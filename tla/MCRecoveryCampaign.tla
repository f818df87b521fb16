-------------------------- MODULE MCRecoveryCampaign --------------------------
(***************************************************************************)
(* RecoveryCampaign on small instances; the cfg files give the sizes.      *)
(***************************************************************************)
EXTENDS RecoveryCampaign
=============================================================================
