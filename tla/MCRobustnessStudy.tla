-------------------------- MODULE MCRobustnessStudy --------------------------
(***************************************************************************)
(* RobustnessStudy on small instances; the cfg files give the sizes.       *)
(***************************************************************************)
EXTENDS RobustnessStudy
=============================================================================
