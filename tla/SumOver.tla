------------------------------ MODULE SumOver -------------------------------
(***************************************************************************)
(* The sum of a function's values over a finite set, for the charges and   *)
(* calls the modules add up.                                               *)
(***************************************************************************)
EXTENDS FiniteSetsExt

Sum(f, S) == MapThenSumSet(LAMBDA p : f[p], S)
=============================================================================
