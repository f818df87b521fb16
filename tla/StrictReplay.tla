---------------------------- MODULE StrictReplay ----------------------------
(***************************************************************************)
(* The strict full-pool replay: batch after batch, every pair is settled   *)
(* through a durable pair settlement, a failed or unknown answer gets one  *)
(* reconciliation and no more, and a batch commits only when every pair    *)
(* has a final success; anything else stops the run for good.  The process *)
(* may die between any two writes and is started again with the same       *)
(* identity.  Source: full_pool_strict_replay.py.                          *)
(*                                                                         *)
(* A settlement journal is taken at the grain of PairSettlement, which     *)
(* DurablePairSettlement implements; the runtime journal and its spool at  *)
(* the grain of committed batches (ConcurrentRuntime).  Every terminal     *)
(* carries the response evidence that source-v4 needs.                     *)
(***************************************************************************)
EXTENDS Integers, Sequences, SumOver

CONSTANTS
  Schedule,         \* the batches, each a sequence of pairs
  Lanes,            \* max_concurrency
  MaxAttempts,      \* maximum_attempts_per_dispatch
  PhysicalCap,      \* physical_cap
  MaxCrashes        \* bound: how often the process dies in one behaviour

Pairs   == UNION {{Schedule[b][i] : i \in DOMAIN Schedule[b]} : b \in DOMAIN Schedule}
Batches == Len(Schedule)

ASSUME ScheduleAssumption ==
  /\ Schedule \in Seq(Seq(Pairs))
  /\ \A b, c \in DOMAIN Schedule : \A i \in DOMAIN Schedule[b], j \in DOMAIN Schedule[c] :
       Schedule[b][i] = Schedule[c][j] => b = c /\ i = j
ASSUME LanesAssumption  == Lanes \in Nat \ {0} /\ MaxAttempts \in Nat \ {0}
ASSUME BoundsAssumption == PhysicalCap \in Nat \ {0} /\ MaxCrashes \in Nat

VARIABLES
  \* --- on disk ---
  main,       \* the original settlement, by pair
  recon,      \* the reconciliation settlement of a pair, in a journal of its own
  policy,     \* the strict pair policy's ledger
  committed,  \* how many batches the runtime journal and its spool have committed
  source,     \* source-v4: "absent", "staging" or "closed"
  \* --- in the process ---
  pc,         \* what the process does next; at rest it is not running
  cursor,     \* the pair of the open batch it is at
  wave,       \* the pairs of the wave in flight
  charged,    \* the charge it has in memory (progress.accounting)
  \* --- in the world ---
  calls,      \* physical calls really made, by role and pair
  \* --- bound ---
  crashes

disk == <<main, recon, policy, committed, source>>
vars == <<disk, pc, cursor, wave, charged, calls, crashes>>

AtRest == {"down", "done", "raised"}

Open       == [state |-> "open", kind |-> "none", charge |-> 0]
InFlight   == [state |-> "dispatched", kind |-> "none", charge |-> 0]
Outcome(kind, charge) == [state |-> "settled", kind |-> kind, charge |-> charge]

\* The kinds an adapter's answer is settled as.  A provider that failed is a
\* terminal of the settlement, and provisional for the policy.
Kinds       == {"succeeded", "provider_failed", "provenance_unknown", "implementation_failed"}
Provisional == {"provider_failed", "provenance_unknown"}

\* (Mutant: any terminal of the settlement is a success.)
HasTerminal(o) == o.kind \in {"succeeded", "provider_failed"}
Succeeded(o)   == o.kind = "succeeded"

\* Every adapter counts its calls, one at least unless its code failed; another
\* count makes _validate_dispatch_accounting raise.
Countable(kind, n) == n \in 0 .. MaxAttempts /\ (kind # "implementation_failed" => n >= 1)

-----------------------------------------------------------------------------
\* The policy's ledger.

ReconciliationDispatched(p)  == [type |-> "reconciliation_dispatched", pair |-> p]
ReconciliationResolved(p, n) == [type |-> "reconciliation_resolved", pair |-> p, charge |-> n]
StrictStopped(p, status)     == [type |-> "strict_stopped", pair |-> p, status |-> status]
RuntimeCompleted(n)          == [type |-> "runtime_completed", charge |-> n]

Recorded(type)    == {policy[i] : i \in {j \in DOMAIN policy : policy[j].type = type}}
Resolved(p)       == \E e \in Recorded("reconciliation_resolved") : e.pair = p
Slots             == {e.pair : e \in Recorded("reconciliation_dispatched")}

\* A pair's one reconciliation is spent once it is dispatched.  (Mutant: once it
\* is resolved.)
SlotSpentIfResolved(p) == Resolved(p)
SlotTaken(p)           == p \in Slots

Completion == Recorded("runtime_completed")

\* (Mutant: a strict stop does not end the run.)
EndedIfCompleted == Completion # {}
Ended            == Completion \cup Recorded("strict_stopped") # {}

Final(p) == Succeeded(main[p]) \/ Resolved(p)

\* The charge the disk accounts for: what is settled, and a whole window for a
\* slot whose settlement is not there.
MainCharge == [p \in Pairs |-> main[p].charge]
SlotCharge ==
  [p \in Slots |-> IF recon[p].state = "settled" THEN recon[p].charge ELSE MaxAttempts]
Charge == Sum(MainCharge, Pairs) + Sum(SlotCharge, Slots)

-----------------------------------------------------------------------------
NoneDone == [p \in Pairs |-> Open]

Init ==
  /\ main = NoneDone /\ recon = NoneDone
  /\ policy = <<>> /\ committed = 0 /\ source = "absent"
  /\ pc = "down" /\ cursor = 1 /\ wave = {} /\ charged = 0
  /\ calls = [r \in {"main", "recon"} |-> [p \in Pairs |-> 0]]
  /\ crashes = 0

\* Opening the workspace seals the settlement journals, the main one first, a
\* dispatch at a time: what has no settlement is unknown and is charged its window.
\* (Mutant: it is charged nothing.)
SealedFree == Outcome("provenance_unknown", 0)
Sealed     == Outcome("provenance_unknown", MaxAttempts)
InFlightOf(settlement) == {p \in Pairs : settlement[p].state = "dispatched"}

Start ==
  /\ pc \in {"down", "done"}
  /\ pc' = "open"
  /\ UNCHANGED <<disk, cursor, wave, charged, calls, crashes>>

Seal ==
  /\ pc = "open"
  /\ \/ \E p \in InFlightOf(main) :
          main' = [main EXCEPT ![p] = Sealed] /\ UNCHANGED recon
     \/ InFlightOf(main) = {} /\ UNCHANGED main
          /\ \E p \in InFlightOf(recon) : recon' = [recon EXCEPT ![p] = Sealed]
  /\ UNCHANGED <<policy, committed, source, pc, cursor, wave, charged, calls, crashes>>

\* With nothing in flight the process knows the charge, and whether there is work.
Opened ==
  /\ pc = "open"
  /\ InFlightOf(main) = {} /\ InFlightOf(recon) = {}
  /\ charged' = Charge
  /\ pc' = IF Ended THEN "finish" ELSE "batch"
  /\ cursor' = 1 /\ wave' = {}
  /\ UNCHANGED <<disk, calls, crashes>>

Forget == cursor' = 1 /\ wave' = {} /\ charged' = 0

Crash ==
  /\ pc \notin AtRest
  /\ crashes < MaxCrashes
  /\ crashes' = crashes + 1
  /\ pc' = "down"
  /\ Forget
  /\ UNCHANGED <<disk, calls>>

-----------------------------------------------------------------------------
\* Walking through the open batch.

Batch   == Schedule[committed + 1]
InBatch == pc = "batch" /\ committed < Batches /\ cursor <= Len(Batch)
At      == Batch[cursor]

\* What ends the run for good; charge is what is then in memory.
Stop(p, status, charge) ==
  /\ policy' = Append(policy, StrictStopped(p, status))
  /\ pc' = "finish"
  /\ charged' = charge
  /\ UNCHANGED <<main, recon, committed, source, cursor, wave, calls, crashes>>

PassSuccess ==
  /\ InBatch
  /\ Succeeded(main[At])
  /\ cursor' = cursor + 1
  /\ UNCHANGED <<disk, pc, wave, charged, calls, crashes>>

StopOnFailure ==
  /\ InBatch
  /\ main[At].kind = "implementation_failed"
  /\ Stop(At, "implementation_failed", charged)

-----------------------------------------------------------------------------
\* Settling a wave of pairs.

\* The reservation of n dispatches fits under the cap.
Suffices(charge, n) == charge + n * MaxAttempts <= PhysicalCap

\* The next pairs of the batch that have no outcome, one lane each.
Missing ==
  {i \in cursor .. Len(Batch) :
     /\ i < cursor + Lanes
     /\ \A j \in cursor .. i : main[Batch[j]].state = "open"}

ReserveWave ==
  /\ InBatch
  /\ main[At].state = "open"
  /\ IF Suffices(charged, Cardinality(Missing))
     THEN /\ wave' = {Batch[i] : i \in Missing}
          /\ pc' = "wave"
          /\ UNCHANGED <<disk, cursor, charged, calls, crashes>>
     ELSE Stop(At, "cap", charged)

\* A wave's dispatches become durable in canonical order, each before its call.
DispatchPair ==
  /\ pc = "wave"
  /\ \E i \in DOMAIN Batch :
       /\ Batch[i] \in wave /\ main[Batch[i]].state = "open"
       /\ \A j \in 1 .. i - 1 : main[Batch[j]].state # "open"
       /\ main' = [main EXCEPT ![Batch[i]] = InFlight]
  /\ UNCHANGED <<recon, policy, committed, source, pc, cursor, wave, charged, calls, crashes>>

\* An adapter is admitted with its retries limited to the window.
Call(role, p) ==
  /\ calls[role][p] < MaxAttempts
  /\ calls' = [calls EXCEPT ![role][p] = @ + 1]

CallPair ==
  /\ pc = "wave"
  /\ \E p \in wave : main[p].state = "dispatched" /\ Call("main", p)
  /\ UNCHANGED <<disk, pc, cursor, wave, charged, crashes>>

\* Outcomes are captured in any order, once every dispatch is durable.
SettlePair ==
  /\ pc = "wave"
  /\ \A p \in wave : main[p].state # "open"
  /\ \E p \in wave, kind \in Kinds :
       /\ main[p].state = "dispatched"
       /\ Countable(kind, calls["main"][p])
       /\ main' = [main EXCEPT ![p] = Outcome(kind, calls["main"][p])]
  /\ UNCHANGED <<recon, policy, committed, source, pc, cursor, wave, charged, calls, crashes>>

CloseWave ==
  /\ pc = "wave"
  /\ \A p \in wave : main[p].state = "settled"
  /\ charged' = charged + Sum(MainCharge, wave)
  /\ pc' = "batch"
  /\ wave' = {}
  /\ UNCHANGED <<disk, cursor, calls, crashes>>

-----------------------------------------------------------------------------
\* Reconciling a pair whose outcome is provisional.

AtProvisional == InBatch /\ main[At].kind \in Provisional

PassResolved ==
  /\ AtProvisional
  /\ SlotTaken(At) /\ Resolved(At)
  /\ cursor' = cursor + 1
  /\ charged' = Charge
  /\ UNCHANGED <<disk, pc, wave, calls, crashes>>

BeginReconciliation ==
  /\ AtProvisional
  /\ ~SlotTaken(At)
  /\ IF Suffices(Charge, 1)
     THEN /\ policy' = Append(policy, ReconciliationDispatched(At))
          /\ pc' = "reconcile"
          /\ UNCHANGED <<main, recon, committed, source, cursor, wave, charged, calls, crashes>>
     ELSE Stop(At, "cap", Charge)

DispatchReconciliation ==
  /\ pc = "reconcile"
  /\ recon[At].state = "open"
  /\ recon' = [recon EXCEPT ![At] = InFlight]
  /\ UNCHANGED <<main, policy, committed, source, pc, cursor, wave, charged, calls, crashes>>

CallReconciliation ==
  /\ pc = "reconcile"
  /\ recon[At].state = "dispatched"
  /\ Call("recon", At)
  /\ UNCHANGED <<disk, pc, cursor, wave, charged, crashes>>

SettleReconciliation ==
  /\ pc = "reconcile"
  /\ recon[At].state = "dispatched"
  /\ \E kind \in Kinds :
       /\ Countable(kind, calls["recon"][At])
       /\ recon' = [recon EXCEPT ![At] = Outcome(kind, calls["recon"][At])]
  /\ UNCHANGED <<main, policy, committed, source, pc, cursor, wave, charged, calls, crashes>>

\* What a run that finds the slot taken does with it (_recover_unresolved_reconciliation):
\* it never calls again, and a slot without a settlement is unknown.
\* (Mutant: it waits for a settlement that nobody will write.)
Recovering == AtProvisional /\ SlotTaken(At) /\ ~Resolved(At)
LostOnceSealed == recon[At].state = "dispatched"
Lost           == recon[At].state # "settled"

StopOnLostReconciliation ==
  /\ Recovering
  /\ Lost
  /\ Stop(At, "provenance_unknown", Charge)

\* In the run that dispatched it or in a later one, a settled reconciliation
\* resolves the pair if it succeeded, and stops the run otherwise.
CloseReconciliation ==
  /\ pc = "reconcile" \/ Recovering
  /\ recon[At].state = "settled"
  /\ IF Succeeded(recon[At])
     THEN /\ policy' = Append(policy, ReconciliationResolved(At, recon[At].charge))
          /\ charged' = Charge
          /\ cursor' = cursor + 1
          /\ pc' = "batch"
          /\ UNCHANGED <<main, recon, committed, source, wave, calls, crashes>>
     ELSE Stop(At, recon[At].kind, Charge)

-----------------------------------------------------------------------------
\* Committing a batch and closing the run.

\* The barrier refuses a pair without a final success, and commits the batch whole.
CommitBatch ==
  /\ pc = "batch" /\ committed < Batches /\ cursor > Len(Batch)
  /\ IF \A i \in DOMAIN Batch : Final(Batch[i])
     THEN committed' = committed + 1 /\ pc' = pc
     ELSE committed' = committed /\ pc' = "raised"
  /\ cursor' = 1
  /\ UNCHANGED <<main, recon, policy, source, wave, charged, calls, crashes>>

Complete ==
  /\ pc = "batch" /\ committed = Batches
  /\ policy' = Append(policy, RuntimeCompleted(charged))
  /\ pc' = "finish"
  /\ UNCHANGED <<main, recon, committed, source, cursor, wave, charged, calls, crashes>>

\* The result's cross-checks (_build_result): the cap, and of a complete run also
\* the charge it recorded and its denominators.
ResultAgrees ==
  /\ charged <= PhysicalCap
  /\ \A e \in Completion : e.charge = charged
  /\ Completion # {} =>
       /\ \A p \in Pairs : main[p].state # "open" /\ Final(p)
       /\ committed = Batches

\* Of a complete run source-v4 is built aside, or validated if it is there; what an
\* earlier attempt left aside is discarded.  Of a stopped run there must be none.
Finish ==
  /\ pc = "finish"
  /\ IF ~ResultAgrees \/ (Completion = {} /\ source # "absent")
     THEN pc' = "raised" /\ UNCHANGED source
     ELSE IF Completion # {} /\ source # "closed"
     THEN pc' = "staged" /\ source' = "staging"
     ELSE pc' = "done" /\ UNCHANGED source
  /\ UNCHANGED <<main, recon, policy, committed, cursor, wave, charged, calls, crashes>>

CloseSource ==
  /\ pc = "staged"
  /\ source' = "closed"
  /\ pc' = "done"
  /\ UNCHANGED <<main, recon, policy, committed, cursor, wave, charged, calls, crashes>>

-----------------------------------------------------------------------------
Settle    == ReserveWave \/ DispatchPair \/ CallPair \/ SettlePair \/ CloseWave
Reconcile == PassResolved \/ BeginReconciliation \/ DispatchReconciliation
               \/ CallReconciliation \/ SettleReconciliation
               \/ StopOnLostReconciliation \/ CloseReconciliation
Close     == CommitBatch \/ Complete \/ Finish \/ CloseSource
Run       == Seal \/ Opened \/ PassSuccess \/ StopOnFailure \/ Settle \/ Reconcile \/ Close

Next == Start \/ Run \/ Crash

Spec == Init /\ [][Next]_vars

\* A dead process is started again, and a living one goes on: calls are bounded.
FairSpec == Spec /\ WF_vars(pc = "down" /\ Start) /\ WF_vars(Run)

-----------------------------------------------------------------------------
\* Properties.

Record ==
  [state : {"open", "dispatched", "settled"}, kind : Kinds \cup {"none"}, charge : 0 .. MaxAttempts]

\* Types.  What the accounting sums up to is AccountingHolds' business.
TypeOK ==
  /\ main \in [Pairs -> Record] /\ recon \in [Pairs -> Record]
  /\ committed \in 0 .. Batches
  /\ source \in {"absent", "staging", "closed"}
  /\ pc \in AtRest \cup {"open", "batch", "wave", "reconcile", "finish", "staged"}
  /\ cursor \in Nat \ {0} /\ wave \subseteq Pairs
  /\ calls \in [{"main", "recon"} -> [Pairs -> 0 .. MaxAttempts]]
  /\ crashes \in 0 .. MaxCrashes

CallsOf  == [p \in Pairs |-> calls["main"][p] + calls["recon"][p]]
CapHolds == Sum(CallsOf, Pairs) <= PhysicalCap
OneReconciliation ==
  \A i \in DOMAIN policy : policy[i].type = "reconciliation_dispatched" =>
    /\ main[policy[i].pair].kind \in {"provider_failed", "provenance_unknown"}
    /\ \A j \in DOMAIN policy : policy[j] = policy[i] => i = j
NeverRaises == pc # "raised"

\* However often the process dies and whatever answers are lost: the calls really
\* made, reconciliations included, never exceed the frozen cap; no pair is ever
\* reconciled twice, and none that did not need it; and the replay's checks of its
\* own accounting never fire, in the run that did the work or in a later one.
AccountingHolds == CapHolds /\ OneReconciliation /\ NeverRaises

BatchBarrier ==
  \A b \in DOMAIN Schedule : \A i \in DOMAIN Schedule[b] :
    LET p == Schedule[b][i]
    IN  /\ b <= committed => "succeeded" \in {main[p].kind, recon[p].kind}
        /\ b > committed + 1 => calls["main"][p] = 0 /\ calls["recon"][p] = 0

CompletionCovers ==
  /\ \A e \in Completion :
       /\ \A p \in Pairs : "succeeded" \in {main[p].kind, recon[p].kind}
       /\ e.charge = Charge
       /\ Sum(CallsOf, Pairs) <= e.charge
  /\ source # "absent" => Completion # {}

\* Every pair of a committed batch has a success behind it, its own or its
\* reconciliation's, and no pair of a batch was called before the one ahead of it
\* was committed.  A run that says it completed has them all, and recorded the charge
\* a later process finds on disk, which covers every call; only such a run has a
\* source-v4.
CompletionHolds == BatchBarrier /\ CompletionCovers

\* Once the ledger has an end, nothing is called, settled, reconciled or committed
\* again, however often the run is started.
FrozenOnceEnded ==
  [][(\E i \in DOMAIN policy : policy[i].type \in {"strict_stopped", "runtime_completed"})
       => UNCHANGED <<main, recon, policy, committed, calls>>]_vars

SettlementOf(d) == IF d[1] = "main" THEN main[d[2]] ELSE recon[d[2]]

\* The original settlement and the reconciliations, each taken as a pair of its own,
\* keep what a durable settlement promises of a pair: no dispatch is made twice.
Promise == INSTANCE PairSettlement WITH
  Pairs    <- {"main", "recon"} \X Pairs,
  status   <- [d \in {"main", "recon"} \X Pairs |-> SettlementOf(d).state],
  outcome  <- [d \in {"main", "recon"} \X Pairs |->
                 [kind   |-> IF SettlementOf(d).kind \in {"succeeded", "provider_failed"}
                             THEN "terminal" ELSE SettlementOf(d).kind,
                  charge |-> SettlementOf(d).charge]],
  attempts <- [d \in {"main", "recon"} \X Pairs |-> calls[d[1]][d[2]]]
KeepsSettlementPromise == Promise!Spec

\* Started again after every crash, a run comes to its end, and a complete one has
\* its source-v4 closed.
RunEnds == <>(pc = "done" /\ Ended /\ (Completion # {} => source = "closed"))
=============================================================================
