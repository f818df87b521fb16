---------------------------- MODULE AttemptLedger ----------------------------
(***************************************************************************)
(* What a ledger of paid provider attempts promises, whoever keeps it: an  *)
(* attempt is charged before it is called, each charge is called at most   *)
(* once, no pair is charged again while an attempt of it is unresolved or  *)
(* after it succeeded, and no pair is ever charged more than MaxAttempts   *)
(* times.  It has no processes, crashes or files: the modules that have    *)
(* them implement it.                                                      *)
(* Source: what _concurrent_recovery_progress.py and concurrent_robustness *)
(* _v2.py have in common.                                                  *)
(***************************************************************************)
EXTENDS Integers

CONSTANTS
  Pairs,        \* the pairs to be judged
  MaxAttempts   \* _V2_MAXIMUM_ATTEMPTS

VARIABLES
  charged,      \* attempts of each pair recorded ahead of their call
  called,       \* calls really made for each pair
  settled,      \* attempts of each pair whose outcome has been recorded
  succeeded     \* the pairs whose last attempt is recorded as a success

vars == <<charged, called, settled, succeeded>>

Init ==
  /\ charged = [p \in Pairs |-> 0]
  /\ called = [p \in Pairs |-> 0]
  /\ settled = [p \in Pairs |-> 0]
  /\ succeeded = {}

Charge(p) ==
  /\ p \notin succeeded
  /\ settled[p] = charged[p]
  /\ charged[p] < MaxAttempts
  /\ charged' = [charged EXCEPT ![p] = @ + 1]
  /\ UNCHANGED <<called, settled, succeeded>>

Call(p) ==
  /\ called[p] < charged[p]
  /\ called' = [called EXCEPT ![p] = @ + 1]
  /\ UNCHANGED <<charged, settled, succeeded>>

\* The outcome of an attempt is recorded after its call, or never.
Settle(p) ==
  /\ settled[p] < charged[p]
  /\ called[p] = charged[p]
  /\ settled' = [settled EXCEPT ![p] = @ + 1]
  /\ succeeded' \in {succeeded, succeeded \cup {p}}
  /\ UNCHANGED <<charged, called>>

Next == \E p \in Pairs : Charge(p) \/ Call(p) \/ Settle(p)

Spec == Init /\ [][Next]_vars
=============================================================================
