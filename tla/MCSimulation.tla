----------------------------- MODULE MCSimulation -----------------------------
(***************************************************************************)
(* Simulation on small instances; the cfg file gives the sizes.            *)
(***************************************************************************)
EXTENDS Simulation
=============================================================================
