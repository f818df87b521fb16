------------------------ MODULE MCParameterCollection ------------------------
(***************************************************************************)
(* ParameterCollection on small instances; the cfg file gives the sizes.   *)
(***************************************************************************)
EXTENDS ParameterCollection
=============================================================================
