--------------------------- MODULE PairSettlement ---------------------------
(***************************************************************************)
(* What the durable settlement of provider calls promises for each pair,   *)
(* with no waves, no journal and no crash: a pair is dispatched once, its  *)
(* adapter is called only while it is dispatched, and it is settled once,  *)
(* with a charge that covers the calls really made.                        *)
(***************************************************************************)
EXTENDS Integers

CONSTANTS
  Pairs,          \* the pairs to be judged
  MaxAttempts     \* maximum_attempts_per_dispatch, the reserved retry window

VARIABLES
  status,     \* "open", "dispatched" or "settled", by pair
  outcome,    \* how a pair was settled: [kind, charge]
  attempts    \* physical calls really made, by pair

vars == <<status, outcome, attempts>>

Kinds     == {"terminal", "provenance_unknown", "implementation_failed"}
Unsettled == [kind |-> "none", charge |-> 0]
Covered(calls) == IF calls <= MaxAttempts THEN calls ELSE MaxAttempts

Init ==
  /\ status = [p \in Pairs |-> "open"]
  /\ outcome = [p \in Pairs |-> Unsettled]
  /\ attempts = [p \in Pairs |-> 0]

Dispatch(p) ==
  /\ status[p] = "open"
  /\ status' = [status EXCEPT ![p] = "dispatched"]
  /\ UNCHANGED <<outcome, attempts>>

Call(p) ==
  /\ status[p] = "dispatched"
  /\ attempts' = [attempts EXCEPT ![p] = @ + 1]
  /\ UNCHANGED <<status, outcome>>

\* A result that is kept is charged exactly; one that is lost may be charged
\* more than it cost, up to the window that was reserved.
Settle(p) ==
  /\ status[p] = "dispatched"
  /\ status' = [status EXCEPT ![p] = "settled"]
  /\ \E kind \in Kinds, charge \in Covered(attempts[p]) .. MaxAttempts :
       /\ kind = "terminal" => charge = attempts[p]
       /\ outcome' = [outcome EXCEPT ![p] = [kind |-> kind, charge |-> charge]]
  /\ UNCHANGED attempts

Next == \E p \in Pairs : Dispatch(p) \/ Call(p) \/ Settle(p)

Spec == Init /\ [][Next]_vars
=============================================================================
