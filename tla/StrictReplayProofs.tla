------------------------- MODULE StrictReplayProofs -------------------------
(***************************************************************************)
(* Theorems about StrictReplay, for every schedule, number of lanes, retry *)
(* window, cap and number of crashes: the barrier between the batches, the *)
(* one reconciliation, the end, the accounts under the cap, what a         *)
(* completion covers, and the promise of the settlements.                  *)
(***************************************************************************)
EXTENDS StrictReplay, FiniteLemmas, TLAPS

\* What is settled of a dispatch, and the calls n made for it.
Covers(s, n) ==
  /\ s.state = "open" => s = Open /\ n = 0
  /\ s.state = "dispatched" => s = InFlight
  /\ s.state = "settled" => /\ s.kind \in Kinds /\ s.charge \in n .. MaxAttempts
                            /\ HasTerminal(s) => s.charge = n
Shapes ==
  \A p \in Pairs : Covers(main[p], calls["main"][p]) /\ Covers(recon[p], calls["recon"][p])

Typed == TypeOK /\ \E S : policy \in Seq(S)

Idle == InFlightOf(main) = {} /\ InFlightOf(recon) = {}
Walking == committed < Batches /\ cursor <= Len(Batch)

\* Where the process is, and what may be in flight there.
Control ==
  /\ pc \in {"batch", "finish", "staged", "done", "raised"} => Idle
  /\ pc = "wave" =>
       /\ Walking /\ wave \subseteq {Batch[i] : i \in DOMAIN Batch}
       /\ InFlightOf(main) \subseteq wave /\ InFlightOf(recon) = {}
  /\ pc = "reconcile" =>
       /\ Walking /\ main[At].kind \in Provisional
       /\ InFlightOf(main) = {} /\ InFlightOf(recon) \subseteq {At}
  /\ Ended => Idle /\ pc \in {"down", "open", "finish", "staged", "done", "raised"}

\* What the policy's ledger says of the settlements.
Ledger ==
  /\ OneReconciliation
  /\ \A i \in DOMAIN policy :
       policy[i].type = "reconciliation_dispatched" => policy[i].pair \in Pairs
  /\ \A p \in Pairs : Resolved(p) => Succeeded(recon[p])

\* The batches behind and ahead of the open one.
Behind ==
  \A b \in DOMAIN Schedule : \A i \in DOMAIN Schedule[b] :
    b <= committed => Succeeded(main[Schedule[b][i]]) \/ Succeeded(recon[Schedule[b][i]])
Ahead ==
  \A b \in DOMAIN Schedule : \A i \in DOMAIN Schedule[b] :
    b > committed + 1 =>
      main[Schedule[b][i]].state = "open" /\ recon[Schedule[b][i]].state = "open"

IInv == Typed /\ Shapes /\ Control /\ Ledger /\ Behind /\ Ahead

-----------------------------------------------------------------------------
\* What the assumptions say of the schedule.
LEMMA ScheduleTypes ==
  /\ Batches \in Nat /\ DOMAIN Schedule = 1 .. Batches /\ MaxAttempts \in Nat \ {0}
  /\ \A b \in DOMAIN Schedule :
       /\ Schedule[b] \in Seq(Pairs) /\ Len(Schedule[b]) \in Nat
       /\ DOMAIN Schedule[b] = 1 .. Len(Schedule[b])
       /\ \A i \in DOMAIN Schedule[b] : Schedule[b][i] \in Pairs
BY ScheduleAssumption, LanesAssumption DEF Batches

\* The open batch, and the pair the process is at.
LEMMA OpenBatch ==
  ASSUME TypeOK, committed < Batches
  PROVE  /\ committed + 1 \in DOMAIN Schedule /\ Batch \in Seq(Pairs) /\ Len(Batch) \in Nat
         /\ DOMAIN Batch = 1 .. Len(Batch) /\ \A i \in DOMAIN Batch : Batch[i] \in Pairs
<1>1. committed \in Nat /\ committed + 1 \in 1 .. Batches
  BY ScheduleTypes DEF TypeOK
<1> QED
  BY <1>1, ScheduleTypes DEF Batch

\* The pair the process is at is one of the open batch.
LEMMA AtPair ==
  ASSUME TypeOK, Walking
  PROVE  cursor \in DOMAIN Batch /\ At \in Pairs /\ At = Batch[cursor]
BY OpenBatch DEF TypeOK, Walking, At

\* A pair of the open batch is not one of a batch ahead of it.
LEMMA NotAhead ==
  ASSUME TypeOK, committed < Batches, NEW j \in DOMAIN Batch,
         NEW b \in DOMAIN Schedule, NEW i \in DOMAIN Schedule[b], b > committed + 1
  PROVE  Schedule[b][i] # Batch[j]
<1>1. committed + 1 \in DOMAIN Schedule /\ b # committed + 1
  BY OpenBatch, ScheduleTypes DEF TypeOK
<1> QED
  BY <1>1, ScheduleAssumption DEF Batch

\* The end of a run, read from the ledger.
LEMMA EndedMeans ==
  Ended <=> \E i \in DOMAIN policy : policy[i].type \in {"strict_stopped", "runtime_completed"}
BY DEF Ended, Completion, Recorded

\* A slot is taken by a record of its dispatch.
LEMMA SlotMeans ==
  ASSUME NEW p
  PROVE  SlotTaken(p) <=>
           \E i \in DOMAIN policy : policy[i].type = "reconciliation_dispatched" /\ policy[i].pair = p
BY DEF SlotTaken, Slots, Recorded

\* A resolution is a record of the ledger.
LEMMA ResolvedMeans ==
  ASSUME NEW p
  PROVE  Resolved(p) <=>
           \E i \in DOMAIN policy : policy[i].type = "reconciliation_resolved" /\ policy[i].pair = p
BY DEF Resolved, Recorded

\* A ledger with one record more.
LEMMA Appended ==
  ASSUME Typed, NEW e, policy' = Append(policy, e)
  PROVE  /\ \E S : policy' \in Seq(S)
         /\ Len(policy) \in Nat /\ DOMAIN policy = 1 .. Len(policy)
         /\ DOMAIN policy' = 1 .. (Len(policy) + 1)
         /\ \A i \in DOMAIN policy : policy'[i] = policy[i]
         /\ policy'[Len(policy) + 1] = e
<1>1. PICK S : policy \in Seq(S)
  BY DEF Typed
<1>2. policy \in Seq(S \cup {e})
  BY <1>1
<1>3. policy' \in Seq(S \cup {e})
  BY <1>2
<1> QED
  BY <1>2, <1>3

\* Every run begins with the invariant.
LEMMA InitInvariant == Init => IInv
<1> SUFFICES ASSUME Init PROVE IInv
  OBVIOUS
<1> USE ScheduleTypes
<1>1. TypeOK
  <2>1. Open \in Record
    BY DEF Open, Record
  <2>2. main \in [Pairs -> Record] /\ recon \in [Pairs -> Record]
    BY <2>1 DEF Init, NoneDone
  <2>3. calls \in [{"main", "recon"} -> [Pairs -> 0 .. MaxAttempts]]
    BY DEF Init
  <2> QED
    BY <2>2, <2>3, BoundsAssumption DEF Init, TypeOK, AtRest
<1>2. policy \in Seq({})
  BY DEF Init
<1>3. Shapes
  BY DEF Init, Shapes, Covers, NoneDone, Open
<1>4. policy = <<>> /\ ~Ended
  BY EndedMeans DEF Init
<1>5. Control
  BY <1>4 DEF Init, Control
<1>6. Ledger
  BY <1>4, ResolvedMeans DEF Ledger, OneReconciliation
<1>7. Behind /\ Ahead
  BY DEF Init, Behind, Ahead, NoneDone, Open
<1> QED
  BY <1>1, <1>2, <1>3, <1>5, <1>6, <1>7 DEF IInv, Typed

-----------------------------------------------------------------------------
\* Steps that leave the settlements, the ledger and the calls alone.
Books == <<main, recon, policy, committed, calls>>

\* What such a step keeps.
LEMMA BooksKept ==
  ASSUME IInv, UNCHANGED Books
  PROVE  /\ Shapes' /\ Ledger' /\ Behind' /\ Ahead' /\ (\E S : policy' \in Seq(S))
         /\ (Ended' <=> Ended) /\ (Idle' <=> Idle)
<1> USE DEF IInv, Books
<1>1. Shapes'
  BY DEF Shapes
<1>2. Ledger'
  BY DEF Ledger, OneReconciliation, Resolved, Recorded
<1>3. Behind' /\ Ahead'
  BY DEF Behind, Ahead
<1>4. \E S : policy' \in Seq(S)
  BY DEF Typed
<1>5. (Ended' <=> Ended) /\ (Idle' <=> Idle)
  BY DEF Ended, Completion, Recorded, Idle, InFlightOf
<1> QED
  BY <1>1, <1>2, <1>3, <1>4, <1>5

\* Steps of the process alone: starting, opening, passing a pair, reserving or
\* closing a wave, finishing, dying.
LEMMA QuietStep ==
  ASSUME IInv, \/ Start \/ Opened \/ Crash \/ PassSuccess \/ PassResolved
               \/ (ReserveWave /\ pc' = "wave") \/ CloseWave \/ Finish \/ CloseSource
  PROVE  IInv'
<1> USE ScheduleTypes
<1>1. UNCHANGED Books
  BY DEF Books, disk, Start, Opened, Crash, PassSuccess, PassResolved, ReserveWave, Stop,
     CloseWave, Finish, CloseSource
<1>2. /\ Shapes' /\ Ledger' /\ Behind' /\ Ahead' /\ (\E S : policy' \in Seq(S))
      /\ (Ended' <=> Ended) /\ (Idle' <=> Idle)
  BY <1>1, BooksKept
<1>3. TypeOK' /\ Control'
  <2> USE <1>1, <1>2 DEF IInv, Typed, Books
  <2>1. CASE Start
    BY <2>1 DEF Start, TypeOK, Control, AtRest, disk
  <2>2. CASE Opened
    <3>1. Idle
      BY <2>2 DEF Opened, Idle
    <3> QED
      BY <2>2, <3>1 DEF Opened, TypeOK, Control, AtRest, disk
  <2>3. CASE Crash
    BY <2>3, BoundsAssumption DEF Crash, Forget, TypeOK, Control, AtRest, disk
  <2>4. CASE PassSuccess \/ PassResolved
    BY <2>4 DEF PassSuccess, PassResolved, AtProvisional, InBatch, TypeOK, Control, AtRest, disk
  <2>5. CASE ReserveWave /\ pc' = "wave"
    <3>1. InBatch /\ wave' = {Batch[i] : i \in Missing} /\ UNCHANGED <<disk, cursor, crashes>>
      BY <2>5 DEF ReserveWave, Stop
    <3>2. Walking /\ Walking' /\ Batch' = Batch
      BY <3>1 DEF InBatch, Walking, Batch
    <3>3. Missing \subseteq DOMAIN Batch
      BY <3>2, OpenBatch DEF Missing, TypeOK, Walking
    <3>4. wave' \subseteq {Batch[i] : i \in DOMAIN Batch} /\ wave' \subseteq Pairs
      BY <3>1, <3>2, <3>3, OpenBatch DEF Walking
    <3>5. TypeOK'
      BY <2>5, <3>1, <3>4 DEF TypeOK, disk
    <3>6. Idle /\ ~Ended
      BY <3>1 DEF Control, InBatch
    <3>7. InFlightOf(main') = {} /\ InFlightOf(recon') = {}
      BY <3>6 DEF Idle
    <3> QED
      BY <2>5, <3>2, <3>4, <3>5, <3>6, <3>7 DEF Control
  <2>6. CASE CloseWave
    <3>1. Idle /\ ~Ended
      BY <2>6 DEF CloseWave, Control, Idle, InFlightOf
    <3> QED
      BY <2>6, <3>1 DEF CloseWave, TypeOK, Control, AtRest, disk
  <2>7. CASE Finish
    BY <2>7 DEF Finish, TypeOK, Control, AtRest
  <2>8. CASE CloseSource
    BY <2>8 DEF CloseSource, TypeOK, Control, AtRest
  <2> QED
    BY <2>1, <2>2, <2>3, <2>4, <2>5, <2>6, <2>7, <2>8
<1> QED
  BY <1>2, <1>3 DEF IInv, Typed
-----------------------------------------------------------------------------
\* Steps that write to the policy's ledger, or commit.

\* What a record added to the ledger means.
LEMMA LedgerAppended ==
  ASSUME Typed, Ledger, NEW e, policy' = Append(policy, e), UNCHANGED <<main, recon>>,
         e.type = "reconciliation_dispatched" =>
           e.pair \in Pairs /\ ~SlotTaken(e.pair) /\ main[e.pair].kind \in Provisional,
         e.type = "reconciliation_resolved" => Succeeded(recon[e.pair])
  PROVE  /\ Ledger' /\ (\E S : policy' \in Seq(S))
         /\ Ended' <=> Ended \/ e.type \in {"strict_stopped", "runtime_completed"}
<1> DEFINE n == Len(policy)
<1>1. /\ \E S : policy' \in Seq(S)
      /\ n \in Nat /\ DOMAIN policy = 1 .. n /\ DOMAIN policy' = 1 .. (n + 1)
      /\ \A i \in DOMAIN policy : policy'[i] = policy[i]
      /\ policy'[n + 1] = e
  BY Appended
<1> HIDE DEF n
<1>2. DOMAIN policy' = DOMAIN policy \cup {n + 1} /\ n + 1 \notin DOMAIN policy
  BY <1>1
<1>3. Ended' <=> Ended \/ e.type \in {"strict_stopped", "runtime_completed"}
  <2>1. Ended' <=> \E i \in DOMAIN policy' : policy'[i].type \in {"strict_stopped", "runtime_completed"}
    BY DEF Ended, Completion, Recorded
  <2> QED
    BY <1>1, <1>2, <2>1, EndedMeans
<1>4. \A p \in Pairs : Resolved(p)' => Succeeded(recon'[p])
  <2> SUFFICES ASSUME NEW p \in Pairs, Resolved(p)' PROVE Succeeded(recon[p])
    BY DEF Succeeded
  <2>1. PICK i \in DOMAIN policy' : policy'[i].type = "reconciliation_resolved" /\ policy'[i].pair = p
    BY DEF Resolved, Recorded
  <2>2. CASE i \in DOMAIN policy
    BY <1>1, <2>1, <2>2, ResolvedMeans DEF Ledger
  <2>3. CASE i = n + 1
    BY <1>1, <2>1, <2>3
  <2> QED
    BY <1>2, <2>2, <2>3
<1>5. OneReconciliation'
  <2>1. ASSUME NEW i \in DOMAIN policy', policy'[i].type = "reconciliation_dispatched"
        PROVE  main[policy'[i].pair].kind \in {"provider_failed", "provenance_unknown"}
    <3>1. CASE i \in DOMAIN policy
      BY <1>1, <2>1, <3>1 DEF Ledger, OneReconciliation
    <3>2. CASE i = n + 1
      BY <1>1, <2>1, <3>2 DEF Provisional
    <3> QED
      BY <1>2, <3>1, <3>2
  <2>2. ASSUME NEW i \in DOMAIN policy', policy'[i].type = "reconciliation_dispatched",
               NEW j \in DOMAIN policy', policy'[j] = policy'[i]
        PROVE  i = j
    <3>1. CASE i \in DOMAIN policy /\ j \in DOMAIN policy
      BY <1>1, <2>2, <3>1 DEF Ledger, OneReconciliation
    <3>2. CASE i = n + 1 /\ j \in DOMAIN policy
      BY <1>1, <2>2, <3>2, SlotMeans
    <3>3. CASE j = n + 1 /\ i \in DOMAIN policy
      BY <1>1, <2>2, <3>3, SlotMeans
    <3> QED
      BY <1>2, <3>1, <3>2, <3>3
  <2> QED
    BY <2>1, <2>2 DEF OneReconciliation
<1>6. \A i \in DOMAIN policy' :
        policy'[i].type = "reconciliation_dispatched" => policy'[i].pair \in Pairs
  BY <1>1, <1>2 DEF Ledger
<1>7. Ledger'
  BY <1>4, <1>5, <1>6 DEF Ledger
<1> QED
  BY <1>1, <1>3, <1>7

\* The settlements and the batches are as they were.
LEMMA SettlementsKept ==
  ASSUME Shapes, Behind, Ahead, UNCHANGED <<main, recon, committed, calls>>
  PROVE  Shapes' /\ Behind' /\ Ahead' /\ (Idle' <=> Idle)
BY DEF Shapes, Behind, Ahead, Idle, InFlightOf

\* A record that ends the run, written with nothing in flight.
LEMMA EndStep ==
  ASSUME IInv, Idle, pc' = "finish",
         NEW e, e.type \in {"strict_stopped", "runtime_completed"}, policy' = Append(policy, e),
         UNCHANGED <<main, recon, committed, source, cursor, wave, calls, crashes>>
  PROVE  IInv'
<1>1. Ledger' /\ (\E S : policy' \in Seq(S)) /\ Ended'
  BY LedgerAppended DEF IInv
<1>2. Shapes' /\ Behind' /\ Ahead' /\ Idle'
  BY SettlementsKept DEF IInv
<1>3. TypeOK'
  BY DEF IInv, Typed, TypeOK, AtRest
<1>4. Control'
  BY <1>1, <1>2 DEF Control
<1> QED
  BY <1>1, <1>2, <1>3, <1>4 DEF IInv, Typed

\* A stop, in any of the places that stop the run, and its completion.
LEMMA StopStep ==
  ASSUME IInv, Idle, NEW p, NEW s, NEW n, Stop(p, s, n)
  PROVE  IInv'
<1>1. StrictStopped(p, s).type \in {"strict_stopped", "runtime_completed"}
  BY DEF StrictStopped
<1> QED
  BY <1>1, EndStep DEF Stop

\* The pair at which the process has a settled reconciliation, and nothing in flight.
LEMMA ClosingPair ==
  ASSUME IInv, CloseReconciliation
  PROVE  Walking /\ At \in Pairs /\ Idle /\ recon[At].state = "settled" /\ ~Ended
<1>1. Walking /\ recon[At].state = "settled" /\ ~Ended
  BY DEF CloseReconciliation, Recovering, AtProvisional, InBatch, IInv, Control, Walking
<1>2. At \in Pairs
  BY <1>1, AtPair DEF IInv, Typed
<1>3. Idle
  <2>1. CASE pc = "reconcile"
    BY <1>1, <2>1 DEF IInv, Control, Idle, InFlightOf
  <2>2. CASE pc = "batch"
    BY <2>2 DEF IInv, Control
  <2> QED
    BY <2>1, <2>2 DEF CloseReconciliation, Recovering, AtProvisional, InBatch
<1> QED
  BY <1>1, <1>2, <1>3

\* Steps that end the run.
LEMMA EndingStep ==
  ASSUME IInv, \/ StopOnFailure \/ StopOnLostReconciliation \/ Complete
               \/ (ReserveWave /\ pc' # "wave")
               \/ (BeginReconciliation /\ pc' # "reconcile")
               \/ (CloseReconciliation /\ ~Succeeded(recon[At]))
  PROVE  IInv'
<1>1. CASE StopOnFailure \/ StopOnLostReconciliation
  BY <1>1, StopStep DEF StopOnFailure, StopOnLostReconciliation, Recovering, AtProvisional,
     InBatch, IInv, Control
<1>2. CASE ReserveWave /\ pc' # "wave"
  BY <1>2, StopStep DEF ReserveWave, InBatch, IInv, Control
<1>3. CASE BeginReconciliation /\ pc' # "reconcile"
  BY <1>3, StopStep DEF BeginReconciliation, AtProvisional, InBatch, IInv, Control
<1>4. CASE CloseReconciliation /\ ~Succeeded(recon[At])
  BY <1>4, StopStep, ClosingPair DEF CloseReconciliation
<1>5. CASE Complete
  <2>1. RuntimeCompleted(charged).type \in {"strict_stopped", "runtime_completed"}
    BY DEF RuntimeCompleted
  <2>2. Idle
    BY <1>5 DEF Complete, IInv, Control
  <2> QED
    BY <1>5, <2>1, <2>2, EndStep DEF Complete
<1> QED
  BY <1>1, <1>2, <1>3, <1>4, <1>5

\* A pair's slot is spent.
LEMMA BeginStep ==
  ASSUME IInv, BeginReconciliation, pc' = "reconcile"
  PROVE  IInv'
<1> DEFINE e == ReconciliationDispatched(At)
<1>1. /\ InBatch /\ ~SlotTaken(At) /\ main[At].kind \in Provisional
      /\ policy' = Append(policy, e)
      /\ UNCHANGED <<main, recon, committed, source, cursor, wave, calls, crashes>>
  BY DEF BeginReconciliation, Stop, AtProvisional
<1>2. Walking /\ Idle /\ ~Ended /\ At \in Pairs
  BY <1>1, AtPair DEF InBatch, Walking, IInv, Typed, Control
<1>3. e.type = "reconciliation_dispatched" /\ e.pair = At
  BY DEF ReconciliationDispatched
<1> HIDE DEF e
<1>4. Ledger' /\ (\E S : policy' \in Seq(S)) /\ ~Ended'
  BY <1>1, <1>2, <1>3, LedgerAppended DEF IInv
<1>5. Shapes' /\ Behind' /\ Ahead' /\ Idle'
  BY <1>1, <1>2, SettlementsKept DEF IInv
<1>6. TypeOK'
  BY <1>1 DEF IInv, Typed, TypeOK
<1>7. Walking' /\ At' = At
  BY <1>1, <1>2 DEF Walking, At, Batch
<1>8. Control'
  BY <1>1, <1>4, <1>5, <1>7 DEF Control, Idle
<1> QED
  BY <1>4, <1>5, <1>6, <1>8 DEF IInv, Typed

\* A reconciliation that succeeded resolves its pair.
LEMMA ResolveStep ==
  ASSUME IInv, CloseReconciliation, Succeeded(recon[At])
  PROVE  IInv'
<1> DEFINE e == ReconciliationResolved(At, recon[At].charge)
<1>1. /\ policy' = Append(policy, e) /\ pc' = "batch" /\ cursor' = cursor + 1
      /\ UNCHANGED <<main, recon, committed, source, wave, calls, crashes>>
  BY DEF CloseReconciliation
<1>2. Walking /\ At \in Pairs /\ Idle /\ ~Ended
  BY ClosingPair
<1>3. e.type = "reconciliation_resolved" /\ e.pair = At
  BY DEF ReconciliationResolved
<1> HIDE DEF e
<1>4. Ledger' /\ (\E S : policy' \in Seq(S)) /\ ~Ended'
  BY <1>1, <1>2, <1>3, LedgerAppended DEF IInv
<1>5. Shapes' /\ Behind' /\ Ahead' /\ Idle'
  BY <1>1, <1>2, SettlementsKept DEF IInv
<1>6. TypeOK'
  BY <1>1 DEF IInv, Typed, TypeOK
<1>7. Control'
  BY <1>1, <1>4, <1>5 DEF Control
<1> QED
  BY <1>4, <1>5, <1>6, <1>7 DEF IInv, Typed

\* The barrier commits a batch of which every pair is final.
LEMMA CommitStep ==
  ASSUME IInv, CommitBatch
  PROVE  IInv'
<1>1. committed < Batches /\ pc = "batch" /\ pc' \in {"batch", "raised"} /\ cursor' = 1
      /\ UNCHANGED <<main, recon, policy, source, wave, calls, crashes>>
  BY DEF CommitBatch
<1>2. Idle /\ ~Ended
  BY <1>1 DEF IInv, Control
<1>3. Idle' /\ ~Ended'
  BY <1>1, <1>2 DEF Idle, InFlightOf, Ended, Completion, Recorded
<1>4. committed' \in {committed, committed + 1} /\ committed \in Nat /\ Batches \in Nat
  BY ScheduleTypes DEF CommitBatch, IInv, Typed, TypeOK
<1>5. TypeOK'
  BY <1>1, <1>4 DEF IInv, Typed, TypeOK, AtRest
<1>6. Control'
  BY <1>1, <1>3 DEF Control
<1>7. Shapes' /\ Ledger' /\ \E S : policy' \in Seq(S)
  BY <1>1 DEF IInv, Typed, Shapes, Ledger, OneReconciliation, Resolved, Recorded
<1>8. Ahead'
  BY <1>1, <1>4, ScheduleTypes DEF IInv, Ahead
<1>9. Behind'
  <2>1. CASE committed' = committed
    BY <1>1, <2>1 DEF IInv, Behind
  <2>2. CASE committed' = committed + 1
    <3>1. \A i \in DOMAIN Batch : Final(Batch[i])
      BY <1>4, <2>2 DEF CommitBatch
    <3>2. \A i \in DOMAIN Batch : Succeeded(main[Batch[i]]) \/ Succeeded(recon[Batch[i]])
      BY <1>1, <3>1, OpenBatch DEF Final, IInv, Typed, Ledger
    <3> SUFFICES ASSUME NEW b \in DOMAIN Schedule, NEW i \in DOMAIN Schedule[b], b <= committed + 1
                 PROVE  Succeeded(main[Schedule[b][i]]) \/ Succeeded(recon[Schedule[b][i]])
      BY <1>1, <2>2 DEF Behind, Succeeded
    <3>3. CASE b <= committed
      BY <3>3 DEF IInv, Behind
    <3>4. CASE b = committed + 1
      BY <3>2, <3>4 DEF Batch
    <3> QED
      BY <1>4, <3>3, <3>4, ScheduleTypes
  <2> QED
    BY <1>4, <2>1, <2>2
<1> QED
  BY <1>5, <1>6, <1>7, <1>8, <1>9 DEF IInv, Typed

-----------------------------------------------------------------------------
\* Steps of the settlements.

\* A dispatch of the original settlement moves on, and nothing else does.
LEMMA MainMoves ==
  ASSUME IInv, NEW d \in Pairs, NEW o \in Record, Covers(o, calls["main"][d]),
         main[d].state # "settled", main' = [main EXCEPT ![d] = o],
         main[d].state = "dispatched"
           \/ (committed < Batches /\ \E j \in DOMAIN Batch : d = Batch[j]),
         UNCHANGED <<recon, policy, committed, calls>>
  PROVE  /\ main' \in [Pairs -> Record] /\ Shapes' /\ Ledger' /\ Behind' /\ Ahead'
         /\ (\E S : policy' \in Seq(S)) /\ (Ended' <=> Ended)
<1>1. main' \in [Pairs -> Record]
  BY DEF IInv, Typed, TypeOK
<1>2. /\ \A p \in Pairs : p # d => main'[p] = main[p]
      /\ main'[d] = o
      /\ main[d].kind = "none"
  BY DEF IInv, Typed, TypeOK, Record, Shapes, Covers, Open, InFlight
<1>3. Ledger'
  <2>1. \A p \in Pairs : Resolved(p)' => Succeeded(recon'[p])
    BY <1>2, ResolvedMeans DEF Ledger, IInv, Resolved, Recorded, Succeeded
  <2>2. OneReconciliation'
    BY <1>2 DEF IInv, Ledger, OneReconciliation, Shapes, Covers, Open, InFlight
  <2> QED
    BY <2>1, <2>2 DEF IInv, Ledger
<1>4. Shapes'
  BY <1>2 DEF IInv, Shapes
<1>5. Behind'
  BY <1>2, ScheduleTypes DEF IInv, Behind, Succeeded
<1>6. Ahead'
  <2> SUFFICES ASSUME NEW b \in DOMAIN Schedule, NEW i \in DOMAIN Schedule[b], b > committed + 1
               PROVE  Schedule[b][i] # d
    BY <1>2, ScheduleTypes DEF IInv, Ahead
  <2> QED
    BY NotAhead DEF IInv, Typed, Ahead
<1>7. (\E S : policy' \in Seq(S)) /\ (Ended' <=> Ended)
  BY DEF IInv, Typed, Ended, Completion, Recorded
<1> QED
  BY <1>1, <1>3, <1>4, <1>5, <1>6, <1>7

\* A dispatch of the reconciliations moves on, and nothing else does.
LEMMA ReconMoves ==
  ASSUME IInv, NEW d \in Pairs, NEW o \in Record, Covers(o, calls["recon"][d]),
         recon[d].state # "settled", recon' = [recon EXCEPT ![d] = o],
         recon[d].state = "dispatched"
           \/ (committed < Batches /\ \E j \in DOMAIN Batch : d = Batch[j]),
         UNCHANGED <<main, policy, committed, calls>>
  PROVE  /\ recon' \in [Pairs -> Record] /\ Shapes' /\ Ledger' /\ Behind' /\ Ahead'
         /\ (\E S : policy' \in Seq(S)) /\ (Ended' <=> Ended)
<1>1. recon' \in [Pairs -> Record]
  BY DEF IInv, Typed, TypeOK
<1>2. /\ \A p \in Pairs : p # d => recon'[p] = recon[p]
      /\ recon'[d] = o
      /\ recon[d].kind = "none"
  BY DEF IInv, Typed, TypeOK, Record, Shapes, Covers, Open, InFlight
<1>3. Ledger'
  <2>1. \A p \in Pairs : Resolved(p)' => Succeeded(recon'[p])
    BY <1>2, ResolvedMeans DEF Ledger, IInv, Resolved, Recorded, Succeeded
  <2>2. OneReconciliation'
    BY <1>2 DEF IInv, Ledger, OneReconciliation, Shapes, Covers, Open, InFlight
  <2> QED
    BY <2>1, <2>2 DEF IInv, Ledger
<1>4. Shapes'
  BY <1>2 DEF IInv, Shapes
<1>5. Behind'
  BY <1>2, ScheduleTypes DEF IInv, Behind, Succeeded
<1>6. Ahead'
  <2> SUFFICES ASSUME NEW b \in DOMAIN Schedule, NEW i \in DOMAIN Schedule[b], b > committed + 1
               PROVE  Schedule[b][i] # d
    BY <1>2, ScheduleTypes DEF IInv, Ahead
  <2> QED
    BY NotAhead DEF IInv, Typed, Ahead
<1>7. (\E S : policy' \in Seq(S)) /\ (Ended' <=> Ended)
  BY DEF IInv, Typed, Ended, Completion, Recorded
<1> QED
  BY <1>1, <1>3, <1>4, <1>5, <1>6, <1>7

\* What a seal and an answer make of a dispatch.
LEMMA Answers ==
  /\ Sealed \in Record /\ InFlight \in Record
  /\ \A n \in 0 .. MaxAttempts : Covers(Sealed, n)
  /\ \A kind \in Kinds : \A n \in 0 .. MaxAttempts :
       Outcome(kind, n) \in Record /\ Covers(Outcome(kind, n), n)
  /\ \A n : Covers(InFlight, n)
BY ScheduleTypes DEF Sealed, InFlight, Outcome, Record, Covers, HasTerminal, Kinds, Open

\* Sealing what a dead process left in flight.
LEMMA SealStep ==
  ASSUME IInv, Seal
  PROVE  IInv'
<1>1. /\ pc = "open" /\ pc' = "open"
      /\ UNCHANGED <<policy, committed, source, cursor, wave, calls, crashes>>
  BY DEF Seal
<1>2. CASE \E p \in InFlightOf(main) : main' = [main EXCEPT ![p] = Sealed] /\ UNCHANGED recon
  <2>1. PICK p \in InFlightOf(main) : main' = [main EXCEPT ![p] = Sealed] /\ UNCHANGED recon
    BY <1>2
  <2>2. p \in Pairs /\ main[p].state = "dispatched" /\ ~Ended
    BY <2>1 DEF InFlightOf, IInv, Control, Idle
  <2>3. calls["main"][p] \in 0 .. MaxAttempts
    BY <2>2 DEF IInv, Typed, TypeOK
  <2>4. /\ main' \in [Pairs -> Record] /\ Shapes' /\ Ledger' /\ Behind' /\ Ahead'
        /\ (\E S : policy' \in Seq(S)) /\ (Ended' <=> Ended)
    BY <1>1, <2>1, <2>2, <2>3, Answers, MainMoves
  <2>5. TypeOK' /\ Control'
    BY <1>1, <2>1, <2>2, <2>4 DEF IInv, Typed, TypeOK, Control
  <2> QED
    BY <2>4, <2>5 DEF IInv, Typed
<1>3. CASE \E p \in InFlightOf(recon) : recon' = [recon EXCEPT ![p] = Sealed] /\ UNCHANGED main
  <2>1. PICK p \in InFlightOf(recon) : recon' = [recon EXCEPT ![p] = Sealed] /\ UNCHANGED main
    BY <1>3
  <2>2. p \in Pairs /\ recon[p].state = "dispatched" /\ ~Ended
    BY <2>1 DEF InFlightOf, IInv, Control, Idle
  <2>3. calls["recon"][p] \in 0 .. MaxAttempts
    BY <2>2 DEF IInv, Typed, TypeOK
  <2>4. /\ recon' \in [Pairs -> Record] /\ Shapes' /\ Ledger' /\ Behind' /\ Ahead'
        /\ (\E S : policy' \in Seq(S)) /\ (Ended' <=> Ended)
    BY <1>1, <2>1, <2>2, <2>3, Answers, ReconMoves
  <2>5. TypeOK' /\ Control'
    BY <1>1, <2>1, <2>2, <2>4 DEF IInv, Typed, TypeOK, Control
  <2> QED
    BY <2>4, <2>5 DEF IInv, Typed
<1> QED
  BY <1>2, <1>3 DEF Seal

\* The frame of a step inside a wave.
LEMMA WaveFrame ==
  ASSUME IInv, pc = "wave", UNCHANGED <<policy, committed, source, pc, cursor, wave, crashes, recon>>,
         NEW p \in wave, \A q \in Pairs : q # p => main'[q] = main[q],
         main' \in [Pairs -> Record], Ended' <=> Ended
  PROVE  Control'
<1>1. ~Ended' /\ Walking' /\ Batch' = Batch
  BY DEF IInv, Control, Walking, Batch
<1>2. InFlightOf(main') \subseteq wave /\ InFlightOf(recon') = {}
  BY DEF IInv, Control, InFlightOf
<1> QED
  BY <1>1, <1>2 DEF IInv, Control

\* A dispatch of the wave becomes durable.
LEMMA DispatchStep ==
  ASSUME IInv, DispatchPair
  PROVE  IInv'
<1>1. PICK i \in DOMAIN Batch : /\ Batch[i] \in wave /\ main[Batch[i]].state = "open"
                                /\ main' = [main EXCEPT ![Batch[i]] = InFlight]
  BY DEF DispatchPair
<1>2. PICK p : p = Batch[i]
  OBVIOUS
<1>3. /\ pc = "wave" /\ committed < Batches /\ p \in wave /\ p \in Pairs
      /\ UNCHANGED <<recon, policy, committed, source, pc, cursor, wave, calls, crashes>>
  BY <1>1, <1>2 DEF DispatchPair, IInv, Control, Walking, Typed, TypeOK
<1>4. /\ main' \in [Pairs -> Record] /\ Shapes' /\ Ledger' /\ Behind' /\ Ahead'
      /\ (\E S : policy' \in Seq(S)) /\ (Ended' <=> Ended)
  BY <1>1, <1>2, <1>3, Answers, MainMoves
<1>5. Control'
  BY <1>1, <1>2, <1>3, <1>4, WaveFrame DEF IInv, Typed, TypeOK
<1>6. TypeOK'
  BY <1>3, <1>4 DEF IInv, Typed, TypeOK
<1> QED
  BY <1>4, <1>5, <1>6 DEF IInv, Typed

\* An answer of the wave is captured.
LEMMA SettleStep ==
  ASSUME IInv, SettlePair
  PROVE  IInv'
<1>1. PICK p \in wave, kind \in Kinds :
        main[p].state = "dispatched" /\ main' = [main EXCEPT ![p] = Outcome(kind, calls["main"][p])]
  BY DEF SettlePair
<1>2. /\ pc = "wave" /\ p \in Pairs
      /\ UNCHANGED <<recon, policy, committed, source, pc, cursor, wave, calls, crashes>>
  BY <1>1 DEF SettlePair, IInv, Typed, TypeOK
<1>3. calls["main"][p] \in 0 .. MaxAttempts
  BY <1>2 DEF IInv, Typed, TypeOK
<1>4. /\ main' \in [Pairs -> Record] /\ Shapes' /\ Ledger' /\ Behind' /\ Ahead'
      /\ (\E S : policy' \in Seq(S)) /\ (Ended' <=> Ended)
  BY <1>1, <1>2, <1>3, Answers, MainMoves
<1>5. Control'
  BY <1>1, <1>2, <1>4, WaveFrame DEF IInv, Typed, TypeOK
<1>6. TypeOK'
  BY <1>2, <1>4 DEF IInv, Typed, TypeOK
<1> QED
  BY <1>4, <1>5, <1>6 DEF IInv, Typed

\* The frame of a step inside a reconciliation.
LEMMA ReconcileFrame ==
  ASSUME IInv, pc = "reconcile", UNCHANGED <<policy, committed, source, pc, cursor, wave, crashes, main>>,
         \A q \in Pairs : q # At => recon'[q] = recon[q],
         recon' \in [Pairs -> Record], Ended' <=> Ended
  PROVE  Control'
<1>1. ~Ended' /\ Walking' /\ At' = At
  BY DEF IInv, Control, Walking, Batch, At
<1>2. InFlightOf(main') = {} /\ InFlightOf(recon') \subseteq {At}
  BY DEF IInv, Control, InFlightOf
<1> QED
  BY <1>1, <1>2 DEF IInv, Control

\* The reconciliation is dispatched.
LEMMA DispatchReconciliationStep ==
  ASSUME IInv, DispatchReconciliation
  PROVE  IInv'
<1>1. PICK p : p = At
  OBVIOUS
<1>2. /\ pc = "reconcile" /\ Walking /\ recon[p].state = "open"
      /\ recon' = [recon EXCEPT ![p] = InFlight]
      /\ UNCHANGED <<main, policy, committed, source, pc, cursor, wave, calls, crashes>>
  BY <1>1 DEF DispatchReconciliation, IInv, Control
<1>3. p \in Pairs /\ committed < Batches /\ \E j \in DOMAIN Batch : p = Batch[j]
  BY <1>1, <1>2, AtPair DEF IInv, Typed, Walking
<1>4. /\ recon' \in [Pairs -> Record] /\ Shapes' /\ Ledger' /\ Behind' /\ Ahead'
      /\ (\E S : policy' \in Seq(S)) /\ (Ended' <=> Ended)
  BY <1>2, <1>3, Answers, ReconMoves
<1>5. Control'
  BY <1>1, <1>2, <1>4, ReconcileFrame DEF IInv, Typed, TypeOK
<1>6. TypeOK'
  BY <1>2, <1>4 DEF IInv, Typed, TypeOK
<1> QED
  BY <1>4, <1>5, <1>6 DEF IInv, Typed

\* The answer of the reconciliation is captured.
LEMMA SettleReconciliationStep ==
  ASSUME IInv, SettleReconciliation
  PROVE  IInv'
<1>1. PICK p : p = At
  OBVIOUS
<1>2. PICK kind \in Kinds : recon' = [recon EXCEPT ![p] = Outcome(kind, calls["recon"][p])]
  BY <1>1 DEF SettleReconciliation
<1>3. /\ pc = "reconcile" /\ Walking /\ recon[p].state = "dispatched"
      /\ UNCHANGED <<main, policy, committed, source, pc, cursor, wave, calls, crashes>>
  BY <1>1 DEF SettleReconciliation, IInv, Control
<1>4. p \in Pairs
  BY <1>1, <1>3, AtPair DEF IInv, Typed
<1>5. calls["recon"][p] \in 0 .. MaxAttempts
  BY <1>4 DEF IInv, Typed, TypeOK
<1>6. /\ recon' \in [Pairs -> Record] /\ Shapes' /\ Ledger' /\ Behind' /\ Ahead'
      /\ (\E S : policy' \in Seq(S)) /\ (Ended' <=> Ended)
  BY <1>2, <1>3, <1>4, <1>5, Answers, ReconMoves
<1>7. Control'
  BY <1>1, <1>2, <1>3, <1>6, ReconcileFrame DEF IInv, Typed, TypeOK
<1>8. TypeOK'
  BY <1>3, <1>6 DEF IInv, Typed, TypeOK
<1> QED
  BY <1>6, <1>7, <1>8 DEF IInv, Typed

\* The dispatch for which a call is made.
LEMMA CallMeans ==
  ASSUME IInv, CallPair \/ CallReconciliation
  PROVE  \E r \in {"main", "recon"}, p \in Pairs :
           /\ Call(r, p) /\ SettlementOf(<<r, p>>).state = "dispatched"
           /\ UNCHANGED <<disk, pc, cursor, wave, crashes>>
<1>1. CASE CallPair
  <2>1. PICK p \in wave : main[p].state = "dispatched" /\ Call("main", p)
    BY <1>1 DEF CallPair
  <2>2. p \in Pairs
    BY <2>1 DEF IInv, Typed, TypeOK
  <2> QED
    BY <1>1, <2>1, <2>2 DEF CallPair, SettlementOf
<1>2. CASE CallReconciliation
  <2>1. At \in Pairs
    BY <1>2, AtPair DEF CallReconciliation, IInv, Typed, Control
  <2> QED
    BY <1>2, <2>1 DEF CallReconciliation, SettlementOf
<1> QED
  BY <1>1, <1>2

\* A call, made for a dispatch that is durable.
LEMMA CallStep ==
  ASSUME IInv, CallPair \/ CallReconciliation
  PROVE  IInv'
<1>1. PICK r \in {"main", "recon"}, p \in Pairs :
        /\ Call(r, p) /\ SettlementOf(<<r, p>>).state = "dispatched"
        /\ UNCHANGED <<disk, pc, cursor, wave, crashes>>
  BY CallMeans
<1>2. /\ calls' = [calls EXCEPT ![r][p] = @ + 1] /\ calls[r][p] < MaxAttempts
      /\ UNCHANGED <<main, recon, policy, committed, source, pc, cursor, wave, crashes>>
  BY <1>1 DEF Call, disk
<1>3. TypeOK'
  BY <1>2, ScheduleTypes DEF IInv, Typed, TypeOK
<1>4. Shapes'
  <2> SUFFICES ASSUME NEW q \in Pairs
               PROVE  Covers(main[q], calls'["main"][q]) /\ Covers(recon[q], calls'["recon"][q])
    BY <1>2 DEF Shapes, Covers, HasTerminal
  <2>1. \A s \in {"main", "recon"} : <<s, q>> # <<r, p>> => calls'[s][q] = calls[s][q]
    BY <1>2 DEF IInv, Typed, TypeOK
  <2>2. Covers(main[q], calls["main"][q]) /\ Covers(recon[q], calls["recon"][q])
    BY DEF IInv, Shapes
  <2>3. CASE r = "main" /\ p = q
    BY <1>1, <2>1, <2>2, <2>3 DEF SettlementOf, Covers, InFlight, Open
  <2>4. CASE r = "recon" /\ p = q
    BY <1>1, <2>1, <2>2, <2>4 DEF SettlementOf, Covers, InFlight, Open
  <2>5. CASE p # q
    BY <2>1, <2>2, <2>5
  <2> QED
    BY <2>3, <2>4, <2>5
<1>5. Ledger' /\ Behind' /\ Ahead'
  BY <1>2 DEF IInv, Ledger, OneReconciliation, Resolved, Recorded, Behind, Ahead
<1>6. Control'
  BY <1>2 DEF IInv, Control, Walking, Idle, InFlightOf, Ended, Completion, Recorded, At, Batch
<1>7. \E S : policy' \in Seq(S)
  BY <1>2 DEF IInv, Typed
<1> QED
  BY <1>3, <1>4, <1>5, <1>6, <1>7 DEF IInv, Typed

\* Every step, and a stutter, keeps the invariant.
LEMMA NextInvariant == IInv /\ [Next]_vars => IInv'
<1> SUFFICES ASSUME IInv, [Next]_vars PROVE IInv'
  OBVIOUS
<1>1. CASE Start \/ Opened \/ Crash \/ PassSuccess \/ PassResolved \/ CloseWave \/ Finish \/ CloseSource
  BY <1>1, QuietStep
<1>2. CASE ReserveWave
  BY <1>2, QuietStep, EndingStep
<1>3. CASE BeginReconciliation
  BY <1>3, BeginStep, EndingStep
<1>4. CASE CloseReconciliation
  BY <1>4, ResolveStep, EndingStep
<1>5. CASE StopOnFailure \/ StopOnLostReconciliation \/ Complete
  BY <1>5, EndingStep
<1>6. CASE CommitBatch            BY <1>6, CommitStep
<1>7. CASE Seal                   BY <1>7, SealStep
<1>8. CASE DispatchPair           BY <1>8, DispatchStep
<1>9. CASE SettlePair             BY <1>9, SettleStep
<1>10. CASE DispatchReconciliation BY <1>10, DispatchReconciliationStep
<1>11. CASE SettleReconciliation  BY <1>11, SettleReconciliationStep
<1>12. CASE CallPair \/ CallReconciliation
  BY <1>12, CallStep
<1>13. CASE UNCHANGED vars
  <2>1. UNCHANGED Books /\ UNCHANGED <<source, pc, cursor, wave, crashes>>
    BY <1>13 DEF vars, disk, Books
  <2>2. /\ Shapes' /\ Ledger' /\ Behind' /\ Ahead' /\ (\E S : policy' \in Seq(S))
        /\ (Ended' <=> Ended) /\ (Idle' <=> Idle)
    BY <2>1, BooksKept
  <2>3. TypeOK'
    BY <2>1 DEF Books, IInv, Typed, TypeOK
  <2>4. Control'
    BY <2>1, <2>2 DEF Books, IInv, Control, Walking, Idle, InFlightOf, At, Batch
  <2> QED
    BY <2>2, <2>3, <2>4 DEF IInv, Typed
<1> QED
  BY <1>1, <1>2, <1>3, <1>4, <1>5, <1>6, <1>7, <1>8, <1>9, <1>10, <1>11, <1>12, <1>13
     DEF Next, Run, Settle, Reconcile, Close

-----------------------------------------------------------------------------
\* The inductive invariant: typing, what each settlement says of its calls, what may be
\* in flight where the process is, the policy's ledger, and the batches behind and ahead.
THEOREM InvariantHolds == Spec => []IInv
<1>1. Init => IInv
  BY InitInvariant
<1>2. IInv /\ [Next]_vars => IInv'
  BY NextInvariant
<1> QED
  BY <1>1, <1>2, PTL DEF Spec

\* However often the process dies: no pair is reconciled twice, and none is whose own
\* answer was not provisional.
THEOREM ReconciledOnce == Spec => []OneReconciliation
<1>1. IInv => OneReconciliation
  BY DEF IInv, Ledger
<1> QED
  BY <1>1, InvariantHolds, PTL

\* Every pair of a committed batch has a success behind it, its own or its
\* reconciliation's, and no pair is called before the batch ahead of it is committed.
THEOREM BarrierHolds == Spec => []BatchBarrier
<1>1. IInv => BatchBarrier
  <2> SUFFICES ASSUME IInv, NEW b \in DOMAIN Schedule, NEW i \in DOMAIN Schedule[b],
                      NEW p, p = Schedule[b][i]
               PROVE  /\ b <= committed => "succeeded" \in {main[p].kind, recon[p].kind}
                      /\ b > committed + 1 => calls["main"][p] = 0 /\ calls["recon"][p] = 0
    BY DEF BatchBarrier
  <2>1. b <= committed => "succeeded" \in {main[p].kind, recon[p].kind}
    BY DEF IInv, Behind, Succeeded
  <2>2. b > committed + 1 => calls["main"][p] = 0 /\ calls["recon"][p] = 0
    BY ScheduleTypes DEF IInv, Ahead, Shapes, Covers
  <2> QED
    BY <2>1, <2>2
<1> QED
  BY <1>1, InvariantHolds, PTL

\* What the end freezes.
LEMMA EndedStep ==
  ASSUME IInv, Next, Ended
  PROVE  /\ Start \/ Opened \/ Crash \/ Finish \/ CloseSource
         /\ UNCHANGED Books
<1>1. Idle /\ pc \in {"down", "open", "finish", "staged", "done", "raised"}
  BY DEF IInv, Control
<1>2. ~Seal
  BY <1>1 DEF Seal, Idle
<1>3. Start \/ Opened \/ Crash \/ Finish \/ CloseSource
  BY <1>1, <1>2 DEF Next, Run, Settle, Reconcile, Close, PassSuccess, StopOnFailure, ReserveWave,
     DispatchPair, CallPair, SettlePair, CloseWave, PassResolved, BeginReconciliation,
     DispatchReconciliation, CallReconciliation, SettleReconciliation, StopOnLostReconciliation,
     CloseReconciliation, CommitBatch, Complete, Recovering, AtProvisional, InBatch
<1> QED
  BY <1>3 DEF Books, disk, Start, Opened, Crash, Finish, CloseSource

\* Once the ledger has an end, nothing is called, settled, reconciled or committed again,
\* however often the run is started.
THEOREM EndIsFrozen == Spec => FrozenOnceEnded
<1> DEFINE A == Ended => UNCHANGED <<main, recon, policy, committed, calls>>
<1>1. IInv /\ [Next]_vars => [A]_vars
  <2> SUFFICES ASSUME IInv, Next, Ended PROVE UNCHANGED Books
    BY DEF Books
  <2> QED
    BY EndedStep
<1>2. [A]_vars <=> [(\E i \in DOMAIN policy : policy[i].type \in {"strict_stopped", "runtime_completed"})
                      => UNCHANGED <<main, recon, policy, committed, calls>>]_vars
  BY EndedMeans
<1>3. IInv /\ [Next]_vars =>
        [(\E i \in DOMAIN policy : policy[i].type \in {"strict_stopped", "runtime_completed"})
           => UNCHANGED <<main, recon, policy, committed, calls>>]_vars
  BY <1>1, <1>2
<1> QED
  BY <1>3, InvariantHolds, PTL DEF Spec, FrozenOnceEnded

-----------------------------------------------------------------------------
\* The accounts.  A slot is there before its reconciliation is; what is committed or
\* passed is final; what is in flight or reserved is held at its whole window, under the
\* cap; the process knows the charge of the disk; and a complete run has recorded it.
Slotted ==
  /\ \A p \in Pairs : /\ ~SlotTaken(p) => recon[p] = Open
                      /\ Resolved(p) => SlotTaken(p)
  /\ pc = "reconcile" => SlotTaken(At)
Finals ==
  /\ \A b \in DOMAIN Schedule : \A i \in DOMAIN Schedule[b] :
       b <= committed => Final(Schedule[b][i])
  /\ pc \in {"batch", "wave", "reconcile"} /\ committed < Batches =>
       \A i \in DOMAIN Batch : i < cursor => Final(Batch[i])
Reserve ==
  [p \in Pairs |-> IF main[p].state = "dispatched" \/ (p \in wave /\ main[p].state = "open")
                   THEN MaxAttempts ELSE main[p].charge]
Budget == Sum(Reserve, Pairs) + Sum(SlotCharge, Slots) <= PhysicalCap
Known ==
  /\ charged \in Nat
  /\ pc \in {"batch", "finish"} => charged = Charge
  /\ pc = "wave" => charged + Sum(MainCharge, wave) = Charge
  /\ pc # "wave" => wave = {}
Completed ==
  /\ Completion # {} => committed = Batches
  /\ \A e \in Completion : e.charge = Charge
  /\ source # "absent" \/ pc = "staged" => Completion # {}

Account == Slotted /\ Finals /\ Budget /\ Known /\ Completed /\ NeverRaises

\* The pairs are finitely many.
LEMMA PairsFinite == IsFiniteSet(Pairs)
<1> DEFINE R == [b \in DOMAIN Schedule |-> {Schedule[b][i] : i \in DOMAIN Schedule[b]}]
<1>1. \A b \in DOMAIN Schedule : IsFiniteSet({Schedule[b][i] : i \in DOMAIN Schedule[b]})
  <2> TAKE b \in DOMAIN Schedule
  <2>1. IsFiniteSet(DOMAIN Schedule[b])
    BY ScheduleTypes, FS_Interval
  <2> QED
    BY <2>1, ImageFinite
<1>2. IsFiniteSet(DOMAIN Schedule)
  BY ScheduleTypes, FS_Interval
<1>3. IsFiniteSet({R[b] : b \in DOMAIN Schedule})
  BY <1>2, ImageFinite
<1>4. {R[b] : b \in DOMAIN Schedule} =
        {{Schedule[b][i] : i \in DOMAIN Schedule[b]} : b \in DOMAIN Schedule}
  OBVIOUS
<1>5. \A T \in {{Schedule[b][i] : i \in DOMAIN Schedule[b]} : b \in DOMAIN Schedule} : IsFiniteSet(T)
  BY <1>1
<1> QED
  BY <1>3, <1>4, <1>5, FS_UNION DEF Pairs

\* What is summed: naturals within the window, over finitely many pairs.
LEMMA ChargeTypes ==
  ASSUME IInv
  PROVE  /\ MaxAttempts \in Nat
         /\ Slots \subseteq Pairs /\ IsFiniteSet(Slots) /\ IsFiniteSet(Pairs) /\ IsFiniteSet(wave)
         /\ \A p \in Pairs : /\ MainCharge[p] \in 0 .. MaxAttempts
                             /\ MainCharge[p] = main[p].charge
                             /\ Reserve[p] \in 0 .. MaxAttempts /\ MainCharge[p] <= Reserve[p]
         /\ \A p \in Slots : SlotCharge[p] \in 0 .. MaxAttempts
<1>1. MaxAttempts \in Nat
  BY ScheduleTypes
<1>2. Slots \subseteq Pairs
  BY DEF IInv, Ledger, Slots, Recorded
<1>3. IsFiniteSet(Slots) /\ IsFiniteSet(Pairs) /\ IsFiniteSet(wave)
  BY <1>2, PairsFinite, FS_Subset DEF IInv, Typed, TypeOK
<1>4. \A p \in Pairs : main[p].charge \in 0 .. MaxAttempts /\ recon[p].charge \in 0 .. MaxAttempts
  BY DEF IInv, Typed, TypeOK, Record
<1>5. \A p \in Pairs : /\ MainCharge[p] \in 0 .. MaxAttempts
                       /\ MainCharge[p] = main[p].charge
                       /\ Reserve[p] \in 0 .. MaxAttempts /\ MainCharge[p] <= Reserve[p]
  BY <1>1, <1>4 DEF MainCharge, Reserve
<1>6. \A p \in Slots : SlotCharge[p] \in 0 .. MaxAttempts
  BY <1>1, <1>2, <1>4 DEF SlotCharge
<1> QED
  BY <1>1, <1>2, <1>3, <1>5, <1>6

\* The sums are numbers.
LEMMA SumsAreNumbers ==
  ASSUME IInv
  PROVE  /\ Sum(MainCharge, Pairs) \in Nat /\ Sum(Reserve, Pairs) \in Nat
         /\ Sum(SlotCharge, Slots) \in Nat /\ Sum(MainCharge, wave) \in Nat /\ Charge \in Nat
<1>1. /\ \A p \in Pairs : MainCharge[p] \in Nat /\ Reserve[p] \in Nat
      /\ \A p \in Slots : SlotCharge[p] \in Nat
      /\ IsFiniteSet(Pairs) /\ IsFiniteSet(Slots) /\ IsFiniteSet(wave) /\ wave \subseteq Pairs
  BY ChargeTypes DEF IInv, Typed, TypeOK
<1>2. Sum(MainCharge, Pairs) \in Nat
  BY <1>1, SumNat
<1>3. Sum(Reserve, Pairs) \in Nat
  BY <1>1, SumNat
<1>4. Sum(SlotCharge, Slots) \in Nat
  BY <1>1, SumNat
<1>5. Sum(MainCharge, wave) \in Nat
  BY <1>1, SumNat
<1> QED
  BY <1>2, <1>3, <1>4, <1>5 DEF Charge

-----------------------------------------------------------------------------
\* What a step does to the settlements, the ledger and what follows from them.

Moved(s, t) == s.state = "dispatched" /\ t.state = "settled"

MainStep ==
  \A p \in Pairs :
    \/ main'[p] = main[p]
    \/ main[p].state = "open" /\ main'[p] = InFlight /\ pc = "wave" /\ p \in wave
    \/ Moved(main[p], main'[p])
ReconStep ==
  \A p \in Pairs :
    \/ recon'[p] = recon[p]
    \/ recon[p].state = "open" /\ recon'[p] = InFlight /\ pc = "reconcile" /\ p = At
    \/ Moved(recon[p], recon'[p])
PolicyStep ==
  \/ policy' = policy
  \/ \E e : /\ policy' = Append(policy, e)
            /\ e.type \in {"reconciliation_dispatched", "reconciliation_resolved",
                           "strict_stopped", "runtime_completed"}

\* The settlements of a pair only move on.
LEMMA SettlementsMove ==
  ASSUME IInv, [Next]_vars
  PROVE  MainStep /\ ReconStep
<1>0. main \in [Pairs -> Record] /\ recon \in [Pairs -> Record]
  BY DEF IInv, Typed, TypeOK
<1> USE DEF MainStep, ReconStep
<1>1. CASE UNCHANGED <<main, recon>>
  BY <1>1
<1>2. CASE Seal
  BY <1>0, <1>2 DEF Seal, InFlightOf, Moved, Sealed, Outcome
<1>3. CASE DispatchPair
  BY <1>0, <1>3 DEF DispatchPair
<1>4. CASE SettlePair
  BY <1>0, <1>4 DEF SettlePair, Moved, Outcome
<1>5. CASE DispatchReconciliation
  BY <1>0, <1>5 DEF DispatchReconciliation
<1>6. CASE SettleReconciliation
  BY <1>0, <1>6 DEF SettleReconciliation, Moved, Outcome
<1> QED
  BY <1>1, <1>2, <1>3, <1>4, <1>5, <1>6 DEF Next, Run, Settle, Reconcile, Close, vars, disk,
     Start, Opened, Crash, PassSuccess, PassResolved, ReserveWave, Stop, CloseWave, Finish, CloseSource,
     StopOnFailure, StopOnLostReconciliation, Complete, CommitBatch, BeginReconciliation,
     CloseReconciliation, CallPair, CallReconciliation

\* The ledger grows by a record, or not at all.
LEMMA LedgerGrows ==
  ASSUME IInv, [Next]_vars
  PROVE  PolicyStep
<1> USE DEF PolicyStep
<1>1. CASE policy' = policy
  BY <1>1
<1>2. ASSUME NEW p, NEW s, NEW n, Stop(p, s, n)
      PROVE  PolicyStep
  BY <1>2 DEF Stop, StrictStopped
<1>3. CASE BeginReconciliation
  BY <1>2, <1>3 DEF BeginReconciliation, ReconciliationDispatched
<1>4. CASE CloseReconciliation
  BY <1>2, <1>4 DEF CloseReconciliation, ReconciliationResolved
<1>5. CASE Complete
  BY <1>5 DEF Complete, RuntimeCompleted
<1>6. CASE StopOnFailure \/ StopOnLostReconciliation \/ ReserveWave
  BY <1>1, <1>2, <1>6 DEF StopOnFailure, StopOnLostReconciliation, ReserveWave, disk
<1> QED
  BY <1>1, <1>3, <1>4, <1>5, <1>6 DEF Next, Run, Settle, Reconcile, Close, vars, disk,
     Start, Opened, Crash, PassSuccess, PassResolved, CloseWave, Finish, CloseSource,
     CommitBatch, CallPair, CallReconciliation, Seal, DispatchPair, SettlePair,
     DispatchReconciliation, SettleReconciliation

\* What a longer ledger says of slots, resolutions and completions.
LEMMA LongerLedger ==
  ASSUME IInv, NEW e, policy' = Append(policy, e)
  PROVE  /\ Slots' = IF e.type = "reconciliation_dispatched" THEN Slots \cup {e.pair} ELSE Slots
         /\ Completion' = IF e.type = "runtime_completed" THEN Completion \cup {e} ELSE Completion
         /\ \A p : Resolved(p)' <=> Resolved(p) \/ (e.type = "reconciliation_resolved" /\ e.pair = p)
<1>1. /\ DOMAIN policy' = DOMAIN policy \cup {Len(policy) + 1}
      /\ \A i \in DOMAIN policy : policy'[i] = policy[i]
      /\ policy'[Len(policy) + 1] = e
  BY Appended DEF IInv
<1>2. \A type : Recorded(type)' = IF e.type = type THEN Recorded(type) \cup {e} ELSE Recorded(type)
  <2> TAKE type
  <2>1. \A x : x \in Recorded(type)' <=> \E i \in DOMAIN policy' : policy'[i].type = type /\ policy'[i] = x
    BY DEF Recorded
  <2>2. \A x : x \in Recorded(type) <=> \E i \in DOMAIN policy : policy[i].type = type /\ policy[i] = x
    BY DEF Recorded
  <2>3. \A x : x \in Recorded(type)' <=> x \in Recorded(type) \/ (e.type = type /\ x = e)
    BY <1>1, <2>1, <2>2
  <2> QED
    BY <2>3
<1>3. Slots' = {x.pair : x \in Recorded("reconciliation_dispatched")'}
      /\ Slots = {x.pair : x \in Recorded("reconciliation_dispatched")}
  BY DEF Slots
<1>4. Completion' = Recorded("runtime_completed")' /\ Completion = Recorded("runtime_completed")
  BY DEF Completion
<1>5. \A p : /\ Resolved(p)' <=> \E x \in Recorded("reconciliation_resolved")' : x.pair = p
             /\ Resolved(p) <=> \E x \in Recorded("reconciliation_resolved") : x.pair = p
  BY DEF Resolved
<1> QED
  BY <1>2, <1>3, <1>4, <1>5

\* What is read from a ledger that has not changed.
LEMMA SameLedger ==
  ASSUME policy' = policy
  PROVE  Slots' = Slots /\ Completion' = Completion /\ \A p : Resolved(p)' <=> Resolved(p)
BY DEF Slots, Completion, Resolved, Recorded

\* What is final, resolved or taken stays so.
LEMMA FinalStays ==
  ASSUME IInv, [Next]_vars, NEW p \in Pairs
  PROVE  /\ Final(p) => Final(p)'
         /\ Resolved(p) => Resolved(p)'
         /\ SlotTaken(p) => SlotTaken(p)'
<1>1. Resolved(p) => Resolved(p)'
  BY LedgerGrows, SameLedger, LongerLedger DEF PolicyStep
<1>2. SlotTaken(p) => SlotTaken(p)'
  BY LedgerGrows, SameLedger, LongerLedger DEF PolicyStep, SlotTaken
<1>3. Succeeded(main[p]) => Succeeded(main'[p])
  <2>1. Succeeded(main[p]) => main[p].state = "settled"
    <3>1. main[p] \in Record /\ Covers(main[p], calls["main"][p])
      BY DEF IInv, Shapes, Typed, TypeOK
    <3> QED
      BY <3>1 DEF Covers, Open, InFlight, Succeeded, Record
  <2> QED
    BY <2>1, SettlementsMove DEF MainStep, Moved
<1>4. Final(p) => Final(p)'
  BY <1>1, <1>3 DEF Final, Succeeded
<1> QED
  BY <1>1, <1>2, <1>4

-----------------------------------------------------------------------------
\* A slot is there before its reconciliation is, and a resolution has one.
LEMMA SlottedKept ==
  ASSUME IInv, Slotted, [Next]_vars
  PROVE  Slotted'
<1>1. ASSUME NEW p \in Pairs, ~SlotTaken(p)' PROVE recon'[p] = Open
  <2>1. ~SlotTaken(p) /\ recon[p] = Open
    BY <1>1, FinalStays DEF Slotted
  <2>2. ~(pc = "reconcile" /\ p = At)
    BY <2>1 DEF Slotted
  <2> QED
    BY <2>1, <2>2, SettlementsMove DEF ReconStep, Moved, Open
<1>2. ASSUME CloseReconciliation PROVE SlotTaken(At) /\ At \in Pairs
  BY <1>2, ClosingPair DEF CloseReconciliation, Recovering, Slotted
<1>3. ASSUME NEW p \in Pairs, Resolved(p)' PROVE SlotTaken(p)'
  <2>1. CASE Resolved(p)
    BY <2>1, FinalStays DEF Slotted
  <2>2. CASE ~Resolved(p)
    <3>1. PICK e : policy' = Append(policy, e) /\ e.type = "reconciliation_resolved" /\ e.pair = p
      BY <1>3, <2>2, LedgerGrows, SameLedger, LongerLedger DEF PolicyStep
    <3>2. policy' # policy
      BY <3>1, Appended DEF IInv
    <3>3. policy'[Len(policy) + 1] = e
      BY <3>1, Appended DEF IInv
    <3>4. ASSUME NEW x, policy' = Append(policy, x) PROVE x = e
      BY <3>3, <3>4, Appended DEF IInv
    <3>5. CloseReconciliation /\ p = At
      <4>1. \A q, s, n : ~Stop(q, s, n)
        BY <3>1, <3>4 DEF Stop, StrictStopped
      <4>2. ~Complete
        BY <3>1, <3>4 DEF Complete, RuntimeCompleted
      <4>3. ~BeginReconciliation
        BY <3>1, <3>4, <4>1 DEF BeginReconciliation, ReconciliationDispatched
      <4>4. CloseReconciliation
        BY <3>2, <4>1, <4>2, <4>3 DEF Next, Run, Settle, Reconcile, Close, vars, disk,
           Start, Opened, Crash, PassSuccess, PassResolved, CloseWave, Finish, CloseSource,
           CommitBatch, CallPair, CallReconciliation, Seal, DispatchPair, SettlePair,
           DispatchReconciliation, SettleReconciliation, ReserveWave, StopOnFailure,
           StopOnLostReconciliation
      <4>5. policy' = Append(policy, ReconciliationResolved(At, recon[At].charge))
        BY <4>1, <4>4 DEF CloseReconciliation
      <4> QED
        BY <3>1, <3>4, <4>4, <4>5 DEF ReconciliationResolved
    <3> QED
      BY <1>2, <3>5, FinalStays
  <2> QED
    BY <2>1, <2>2
<1>4. ASSUME pc' = "reconcile" PROVE SlotTaken(At)'
  <2>1. CASE BeginReconciliation
    <3>1. policy' = Append(policy, ReconciliationDispatched(At)) /\ UNCHANGED <<committed, cursor>>
      BY <1>4, <2>1 DEF BeginReconciliation, Stop
    <3>2. At' = At
      BY <3>1 DEF At, Batch
    <3>3. At \in Slots'
      BY <3>1, LongerLedger DEF ReconciliationDispatched
    <3> QED
      BY <3>2, <3>3 DEF SlotTaken
  <2>2. CASE pc = "reconcile" /\ UNCHANGED <<committed, cursor>>
    <3>1. At' = At
      BY <2>2 DEF At, Batch
    <3>2. At \in Pairs /\ SlotTaken(At)
      BY <2>2, AtPair DEF IInv, Control, Typed, Slotted
    <3>3. PICK a : a = At
      OBVIOUS
    <3>4. SlotTaken(a)'
      BY <3>2, <3>3, FinalStays
    <3>5. a \in Slots'
      BY <3>4 DEF SlotTaken
    <3> QED
      BY <3>1, <3>3, <3>5 DEF SlotTaken
  <2>3. BeginReconciliation \/ (pc = "reconcile" /\ UNCHANGED <<committed, cursor>>)
    BY <1>4 DEF Next, Run, Settle, Reconcile, Close, vars, disk,
       Start, Opened, Crash, PassSuccess, PassResolved, CloseWave, Finish, CloseSource,
       CommitBatch, CallPair, CallReconciliation, Seal, DispatchPair, SettlePair,
       DispatchReconciliation, SettleReconciliation, ReserveWave, StopOnFailure,
       StopOnLostReconciliation, Complete, CloseReconciliation, Stop, InBatch, AtProvisional
  <2> QED
    BY <2>1, <2>2, <2>3
<1> QED
  BY <1>1, <1>3, <1>4 DEF Slotted

\* What is committed, or behind the cursor of the open batch, is final.
LEMMA FinalsKept ==
  ASSUME IInv, Finals, [Next]_vars
  PROVE  Finals'
<1>1. ASSUME NEW b \in DOMAIN Schedule, NEW i \in DOMAIN Schedule[b], b <= committed'
      PROVE  Final(Schedule[b][i])'
  <2>1. CASE b <= committed
    BY <2>1, FinalStays, ScheduleTypes DEF Finals
  <2>2. CASE ~(b <= committed)
    <3>0. committed' # committed
      BY <1>1, <2>2
    <3>4. CommitBatch
      BY <3>0 DEF Next, Run, Settle, Reconcile, Close, vars, disk,
         Start, Opened, Crash, PassSuccess, PassResolved, CloseWave, Finish, CloseSource,
         CallPair, CallReconciliation, Seal, DispatchPair, SettlePair,
         DispatchReconciliation, SettleReconciliation, ReserveWave, StopOnFailure,
         StopOnLostReconciliation, Complete, CloseReconciliation, Stop, BeginReconciliation
    <3>5. committed' = committed + 1
      BY <3>0, <3>4 DEF CommitBatch
    <3>6. b \in Nat /\ committed \in Nat
      <4>1. DOMAIN Schedule = 1 .. Batches /\ Batches \in Nat
        BY ScheduleTypes
      <4> QED
        BY <4>1 DEF IInv, Typed, TypeOK
    <3>7. b = committed + 1
      BY <1>1, <2>2, <3>5, <3>6
    <3>1. CommitBatch /\ committed' = committed + 1 /\ b = committed + 1
      BY <3>4, <3>5, <3>7
    <3>2. \A j \in DOMAIN Batch : Final(Batch[j])
      BY <3>1 DEF CommitBatch, IInv, Typed, TypeOK
    <3>3. Final(Schedule[b][i])
      BY <3>1, <3>2 DEF Batch
    <3> QED
      BY <3>3, FinalStays, ScheduleTypes
  <2> QED
    BY <2>1, <2>2
<1>2. ASSUME pc' \in {"batch", "wave", "reconcile"}, committed' < Batches,
             NEW i \in DOMAIN (Batch'), i < cursor'
      PROVE  Final(Batch[i])'
  <2>0. committed' \in Nat /\ cursor' \in Nat
    BY NextInvariant DEF IInv, Typed, TypeOK
  <2>1. cursor' # 1
    <3>1. committed' + 1 \in DOMAIN Schedule
      <4>1. committed' < Batches
        BY <1>2
      <4>2. committed' + 1 \in 1 .. Batches
        <5>1. \A c, n \in Nat : c < n => c + 1 \in 1 .. n
          OBVIOUS
        <5> QED BY <2>0, <4>1, <5>1, ScheduleTypes
      <4> QED BY <4>2, ScheduleTypes
    <3>2. i \in 1 .. Len(Schedule[committed' + 1])
      BY <1>2, <3>1, ScheduleTypes DEF Batch
    <3> QED
      BY <1>2, <2>0, <3>2
  <2>2. /\ committed' = committed /\ Batch' = Batch
        /\ pc \in {"batch", "wave", "reconcile"}
        /\ cursor' = cursor \/ (/\ cursor' = cursor + 1
                                /\ PassSuccess \/ PassResolved
                                     \/ (CloseReconciliation /\ Succeeded(recon[At])))
    BY <1>2, <2>1 DEF Batch, Next, Run, Settle, Reconcile, Close, vars, disk,
       Start, Opened, Crash, PassSuccess, PassResolved, CloseWave, Finish, CloseSource,
       CommitBatch, CallPair, CallReconciliation, Seal, DispatchPair, SettlePair,
       DispatchReconciliation, SettleReconciliation, ReserveWave, StopOnFailure,
       StopOnLostReconciliation, Complete, CloseReconciliation, Stop, BeginReconciliation,
       AtProvisional, InBatch, Forget, Recovering
  <2>3. i \in DOMAIN Batch /\ Batch[i] \in Pairs
    BY <1>2, <2>2, OpenBatch DEF IInv, Typed
  <2>4. PICK p : p = Batch[i]
    OBVIOUS
  <2>5. Final(p)'
    <3>1. CASE i < cursor
      BY <1>2, <2>2, <2>3, <2>4, <3>1, FinalStays DEF Finals
    <3>2. CASE ~(i < cursor)
      <4>1. i = cursor /\ p = At
        <5>1. cursor' = cursor + 1 /\ i < cursor' /\ committed < Batches
          BY <1>2, <2>2, <3>2
        <5>2. i \in Nat /\ cursor \in Nat
          BY <2>3, <5>1, OpenBatch DEF IInv, Typed, TypeOK
        <5>3. i = cursor
          BY <3>2, <5>1, <5>2
        <5> QED
          BY <2>4, <5>3 DEF At
      <4>2. CASE PassSuccess \/ PassResolved
        <5>1. Final(p)
          BY <4>1, <4>2 DEF PassSuccess, PassResolved, Final
        <5> QED
          BY <2>3, <2>4, <5>1, FinalStays
      <4>3. CASE CloseReconciliation /\ Succeeded(recon[At])
        <5>1. policy' = Append(policy, ReconciliationResolved(At, recon[At].charge))
          BY <4>3 DEF CloseReconciliation
        <5>2. Resolved(p)'
          BY <4>1, <5>1, LongerLedger DEF ReconciliationResolved
        <5> QED
          BY <5>2 DEF Final
      <4> QED
        BY <1>2, <2>2, <3>2, <4>2, <4>3
    <3> QED
      BY <3>1, <3>2
  <2> QED
    BY <2>2, <2>4, <2>5 DEF Final, Succeeded, Resolved, Recorded
<1> QED
  BY <1>1, <1>2 DEF Finals

-----------------------------------------------------------------------------
\* The budget.

\* What holds less is still under the cap.
LEMMA LowerBudget ==
  ASSUME IInv, IInv', Budget, Slots' = Slots,
         \A p \in Pairs : Reserve'[p] <= Reserve[p],
         \A p \in Slots : SlotCharge'[p] <= SlotCharge[p]
  PROVE  Budget'
<1>1. /\ \A p \in Pairs : Reserve[p] \in Int /\ Reserve'[p] \in Int
      /\ \A p \in Slots : SlotCharge[p] \in Int /\ SlotCharge'[p] \in Int
      /\ IsFiniteSet(Pairs) /\ IsFiniteSet(Slots)
  <2>1. /\ \A p \in Pairs : Reserve[p] \in 0 .. MaxAttempts
        /\ \A p \in Slots : SlotCharge[p] \in 0 .. MaxAttempts
        /\ IsFiniteSet(Pairs) /\ IsFiniteSet(Slots)
    BY ChargeTypes
  <2>2. \A p \in Pairs : main'[p].charge \in 0 .. MaxAttempts /\ recon'[p].charge \in 0 .. MaxAttempts
    BY DEF IInv, Typed, TypeOK, Record
  <2>3. MaxAttempts \in Nat /\ Slots' \subseteq Pairs
    BY ChargeTypes
  <2>4. \A p \in Pairs : Reserve'[p] \in 0 .. MaxAttempts
    BY <2>2, <2>3 DEF Reserve
  <2>5. \A p \in Slots' : SlotCharge'[p] \in 0 .. MaxAttempts
    BY <2>2, <2>3 DEF SlotCharge
  <2> QED
    BY <2>1, <2>3, <2>4, <2>5
<1>2. Sum(Reserve', Pairs) <= Sum(Reserve, Pairs)
  BY <1>1, SumLeq
<1>3. Sum(SlotCharge', Slots) <= Sum(SlotCharge, Slots)
  BY <1>1, SumLeq
<1>4. /\ Sum(Reserve, Pairs) \in Int /\ Sum(Reserve', Pairs) \in Int
      /\ Sum(SlotCharge, Slots) \in Int /\ Sum(SlotCharge', Slots) \in Int
  BY <1>1, SumRemove
<1>5. Sum(Reserve, Pairs) + Sum(SlotCharge, Slots) <= PhysicalCap
  BY DEF Budget
<1>6. Sum(Reserve', Pairs) + Sum(SlotCharge', Slots) <= PhysicalCap
  BY <1>2, <1>3, <1>4, <1>5, BoundsAssumption
<1>7. Sum(Reserve', Pairs) + Sum(SlotCharge', Slots') <= PhysicalCap
  BY <1>6
<1> QED
  BY <1>7 DEF Budget

\* Two sums that agree.
LEMMA ChargeStays ==
  ASSUME IInv, IInv', Slots' = Slots,
         \A p \in Pairs : main'[p].charge = main[p].charge,
         \A p \in Slots : SlotCharge'[p] = SlotCharge[p]
  PROVE  Charge' = Charge /\ \A R \in SUBSET Pairs : Sum(MainCharge', R) = Sum(MainCharge, R)
<1>1. /\ \A p \in Pairs : MainCharge[p] \in Int /\ MainCharge'[p] = MainCharge[p]
      /\ \A p \in Slots : SlotCharge[p] \in Int
      /\ IsFiniteSet(Pairs) /\ IsFiniteSet(Slots)
  <2>1. /\ \A p \in Pairs : MainCharge[p] \in 0 .. MaxAttempts /\ MainCharge[p] = main[p].charge
        /\ \A p \in Slots : SlotCharge[p] \in 0 .. MaxAttempts
        /\ IsFiniteSet(Pairs) /\ IsFiniteSet(Slots)
    BY ChargeTypes
  <2>2. \A p \in Pairs : MainCharge'[p] = main'[p].charge
    BY DEF MainCharge
  <2> QED
    BY <2>1, <2>2
<1>2. \A R \in SUBSET Pairs : Sum(MainCharge', R) = Sum(MainCharge, R)
  <2> TAKE R \in SUBSET Pairs
  <2>1. IsFiniteSet(R) /\ \A p \in R : MainCharge[p] \in Int /\ MainCharge'[p] = MainCharge[p]
    BY <1>1, FS_Subset
  <2> QED
    BY <2>1, SumSame
<1>3. Sum(SlotCharge', Slots) = Sum(SlotCharge, Slots)
  BY <1>1, SumSame
<1>4. Charge' = Sum(MainCharge', Pairs) + Sum(SlotCharge', Slots')
      /\ Charge = Sum(MainCharge, Pairs) + Sum(SlotCharge, Slots)
  BY DEF Charge
<1>5. Sum(MainCharge', Pairs) = Sum(MainCharge, Pairs)
  BY <1>2
<1> QED
  BY <1>2, <1>3, <1>4, <1>5

\* With nothing in flight and no wave, what is held is what is charged.
LEMMA IdleBudget ==
  ASSUME IInv, Idle, wave = {}
  PROVE  Sum(Reserve, Pairs) = Sum(MainCharge, Pairs)
<1>1. \A p \in Pairs : MainCharge[p] \in Int /\ Reserve[p] = MainCharge[p]
  <2>1. \A p \in Pairs : main[p].state # "dispatched"
    BY DEF Idle, InFlightOf
  <2>2. \A p \in Pairs : Reserve[p] = main[p].charge /\ MainCharge[p] = main[p].charge
    BY <2>1 DEF Reserve, MainCharge
  <2> QED
    BY <2>2, ChargeTypes
<1> QED
  BY <1>1, PairsFinite, SumSame

\* The pairs of a new wave are open, and no more than the places it is made of.
LEMMA NewWave ==
  ASSUME IInv, ReserveWave, pc' = "wave"
  PROVE  /\ UNCHANGED <<disk, cursor, charged, calls, crashes>> /\ InBatch /\ Idle
         /\ wave' \subseteq Pairs /\ IsFiniteSet(wave') /\ \A p \in wave' : main[p] = Open
         /\ Cardinality(wave') * MaxAttempts <= Cardinality(Missing) * MaxAttempts
         /\ Cardinality(wave') * MaxAttempts \in Nat /\ Cardinality(Missing) * MaxAttempts \in Nat
         /\ charged + Cardinality(Missing) * MaxAttempts <= PhysicalCap
<1>1. /\ InBatch /\ wave' = {Batch[i] : i \in Missing}
      /\ UNCHANGED <<disk, cursor, charged, calls, crashes>>
      /\ Suffices(charged, Cardinality(Missing))
  BY DEF ReserveWave, Stop
<1>2. Idle
  BY <1>1 DEF InBatch, IInv, Control
<1>3. /\ committed < Batches /\ Len(Batch) \in Nat /\ DOMAIN Batch = 1 .. Len(Batch)
      /\ \A i \in DOMAIN Batch : Batch[i] \in Pairs
      /\ cursor \in Nat \ {0}
  BY <1>1, OpenBatch DEF InBatch, IInv, Typed, TypeOK
<1>4. Missing \subseteq 1 .. Len(Batch)
  BY <1>3 DEF Missing
<1>5. IsFiniteSet(Missing)
  <2>1. IsFiniteSet(1 .. Len(Batch))
    BY <1>3, FS_Interval
  <2> QED
    BY <1>4, <2>1, FS_Subset
<1>6. \A i \in Missing : main[Batch[i]].state = "open"
  BY <1>3 DEF Missing
<1>7. wave' \subseteq Pairs /\ \A p \in wave' : main[p] = Open
  BY <1>1, <1>3, <1>4, <1>6 DEF IInv, Shapes, Covers
<1>8. IsFiniteSet(wave') /\ Cardinality(wave') <= Cardinality(Missing)
  BY <1>1, <1>5, ImageFinite
<1>9. Cardinality(wave') \in Nat /\ Cardinality(Missing) \in Nat /\ MaxAttempts \in Nat
  BY <1>5, <1>8, FS_CardinalityType, ScheduleTypes
<1>10. \A a, b, c \in Nat : a <= b => a * c <= b * c /\ a * c \in Nat /\ b * c \in Nat
  OBVIOUS
<1>11. charged + Cardinality(Missing) * MaxAttempts <= PhysicalCap
  BY <1>1 DEF Suffices
<1> QED
  BY <1>1, <1>2, <1>7, <1>8, <1>9, <1>10, <1>11

\* Where the reserve and the slots do not grow, the budget holds on.
LEMMA BudgetStays ==
  ASSUME IInv, IInv', Budget, [Next]_vars, Slots' = Slots, wave' \subseteq wave
  PROVE  Budget'
<1>1. \A p \in Pairs : /\ main'[p].charge \in 0 .. MaxAttempts
                       /\ recon'[p].charge \in 0 .. MaxAttempts
  BY DEF IInv, Typed, TypeOK, Record
<1>2. MaxAttempts \in Nat /\ Slots \subseteq Pairs
  BY ChargeTypes
<1>3. ASSUME NEW p \in Pairs PROVE Reserve'[p] <= Reserve[p]
  <2>1. /\ Reserve[p] = IF main[p].state = "dispatched" \/ (p \in wave /\ main[p].state = "open")
                        THEN MaxAttempts ELSE main[p].charge
        /\ Reserve'[p] = IF main'[p].state = "dispatched" \/ (p \in wave' /\ main'[p].state = "open")
                         THEN MaxAttempts ELSE main'[p].charge
    BY DEF Reserve
  <2>2. CASE main'[p] = main[p]
    <3>1. main[p].charge \in 0 .. MaxAttempts
      BY <1>1, <2>2
    <3> QED
      BY <1>2, <2>1, <2>2, <3>1
  <2>3. CASE main[p].state = "open" /\ main'[p] = InFlight /\ pc = "wave" /\ p \in wave
    BY <1>2, <2>1, <2>3 DEF InFlight
  <2>4. CASE Moved(main[p], main'[p])
    BY <1>1, <1>2, <2>1, <2>4 DEF Moved
  <2> QED
    BY <2>2, <2>3, <2>4, SettlementsMove DEF MainStep
<1>4. ASSUME NEW p \in Slots PROVE SlotCharge'[p] <= SlotCharge[p]
  <2>1. /\ SlotCharge[p] = IF recon[p].state = "settled" THEN recon[p].charge ELSE MaxAttempts
        /\ SlotCharge'[p] = IF recon'[p].state = "settled" THEN recon'[p].charge ELSE MaxAttempts
    BY DEF SlotCharge
  <2>2. p \in Pairs
    BY <1>2
  <2>3. CASE recon'[p] = recon[p]
    <3>1. recon[p].charge \in 0 .. MaxAttempts
      BY <1>1, <2>2, <2>3
    <3> QED
      BY <1>2, <2>1, <2>3, <3>1
  <2>4. CASE recon[p].state = "open" /\ recon'[p] = InFlight
    BY <1>2, <2>1, <2>4 DEF InFlight
  <2>5. CASE Moved(recon[p], recon'[p])
    BY <1>1, <1>2, <2>1, <2>2, <2>5 DEF Moved
  <2> QED
    BY <2>2, <2>3, <2>4, <2>5, SettlementsMove DEF ReconStep
<1> QED
  BY <1>3, <1>4, LowerBudget

\* A wave is reserved only if its whole windows fit.
LEMMA BudgetReserve ==
  ASSUME IInv, IInv', Known, ReserveWave, pc' = "wave"
  PROVE  Budget'
<1>1. /\ UNCHANGED <<disk, cursor, charged, calls, crashes>> /\ InBatch /\ Idle
      /\ wave' \subseteq Pairs /\ IsFiniteSet(wave') /\ \A p \in wave' : main[p] = Open
      /\ Cardinality(wave') * MaxAttempts <= Cardinality(Missing) * MaxAttempts
      /\ Cardinality(wave') * MaxAttempts \in Nat /\ Cardinality(Missing) * MaxAttempts \in Nat
      /\ charged + Cardinality(Missing) * MaxAttempts <= PhysicalCap
  BY NewWave
<1>2. UNCHANGED <<main, recon, policy>>
  BY <1>1 DEF disk
<1>3. charged = Sum(MainCharge, Pairs) + Sum(SlotCharge, Slots)
  BY <1>1 DEF Known, InBatch, Charge
<1>4. \A p \in Pairs : /\ MainCharge[p] \in Nat
                       /\ Reserve'[p] = IF p \in wave' THEN MaxAttempts ELSE MainCharge[p]
  <2>1. \A p \in Pairs : main[p].state # "dispatched" /\ (p \in wave' => main[p].state = "open")
    BY <1>1 DEF Idle, InFlightOf, Open
  <2>2. \A p \in Pairs : /\ Reserve'[p] = IF p \in wave' THEN MaxAttempts ELSE main[p].charge
                         /\ MainCharge[p] = main[p].charge
    BY <1>1, <1>2, <2>1 DEF Reserve, MainCharge
  <2> QED
    BY <2>2, ChargeTypes
<1>5. MaxAttempts \in Nat /\ IsFiniteSet(Pairs)
  BY ChargeTypes
<1>6. /\ Sum(MainCharge, wave') \in Int /\ Sum(MainCharge, Pairs \ wave') \in Int
      /\ Sum(MainCharge, Pairs) = Sum(MainCharge, wave') + Sum(MainCharge, Pairs \ wave')
  <2>1. \A p \in Pairs : MainCharge[p] \in Int
    BY <1>4
  <2>2. wave' \in SUBSET Pairs
    BY <1>1
  <2> QED
    BY <1>5, <2>1, <2>2, SumUnion
<1>7. Sum(MainCharge, wave') \in Nat
  BY <1>1, <1>4, SumNat
<1>8. /\ Sum(Reserve', wave') \in Int /\ Sum(Reserve', Pairs \ wave') \in Int
      /\ Sum(Reserve', Pairs) = Sum(Reserve', wave') + Sum(Reserve', Pairs \ wave')
  <2>1. \A p \in Pairs : Reserve'[p] \in Int
    BY <1>4, <1>5
  <2>2. wave' \in SUBSET Pairs
    BY <1>1
  <2> QED
    BY <1>5, <2>1, <2>2, SumUnion
<1>9. Sum(Reserve', Pairs \ wave') = Sum(MainCharge, Pairs \ wave')
  <2>1. IsFiniteSet(Pairs \ wave')
    BY <1>5, FS_Difference
  <2>2. \A p \in Pairs \ wave' : MainCharge[p] \in Int /\ Reserve'[p] = MainCharge[p]
    BY <1>4
  <2> QED
    BY <2>1, <2>2, SumSame
<1>10. Sum(Reserve', wave') <= Cardinality(wave') * MaxAttempts
  <2>1. \A p \in wave' : Reserve'[p] \in Nat /\ Reserve'[p] <= MaxAttempts
    BY <1>1, <1>4, <1>5
  <2> QED
    BY <1>1, <1>5, <2>1, SumBound
<1>11. Slots' = Slots /\ Sum(SlotCharge', Slots) = Sum(SlotCharge, Slots)
  BY <1>2, SameLedger DEF SlotCharge
<1>12. Sum(SlotCharge, Slots) \in Nat
  BY SumsAreNumbers
<1> DEFINE w == Cardinality(wave') * MaxAttempts
           m == Cardinality(Missing) * MaxAttempts
<1>13. Sum(Reserve', Pairs) + Sum(SlotCharge', Slots) <= PhysicalCap
  <2>1. w <= m /\ w \in Nat /\ m \in Nat /\ charged + m <= PhysicalCap /\ Sum(Reserve', wave') <= w
    BY <1>1, <1>10
  <2> HIDE DEF w, m
  <2> QED
    BY <1>3, <1>6, <1>7, <1>8, <1>9, <1>11, <1>12, <2>1, BoundsAssumption
<1>14. Sum(Reserve', Pairs) + Sum(SlotCharge', Slots') <= PhysicalCap
  BY <1>11, <1>13
<1> QED
  BY <1>14 DEF Budget

\* A slot is spent only if its whole window fits.
LEMMA BudgetSlot ==
  ASSUME IInv, IInv', Slotted, Known, BeginReconciliation, pc' = "reconcile"
  PROVE  Budget'
<1>1. PICK p : p = At
  OBVIOUS
<1>2. /\ InBatch /\ ~SlotTaken(p) /\ Charge + MaxAttempts <= PhysicalCap
      /\ policy' = Append(policy, ReconciliationDispatched(p))
      /\ UNCHANGED <<main, recon, wave>>
  <2>1. /\ AtProvisional /\ ~SlotTaken(p) /\ Suffices(Charge, 1)
        /\ policy' = Append(policy, ReconciliationDispatched(p))
        /\ UNCHANGED <<main, recon, wave>>
    BY <1>1 DEF BeginReconciliation, Stop
  <2>2. 1 * MaxAttempts = MaxAttempts
    BY ScheduleTypes
  <2> QED
    BY <2>1, <2>2 DEF Suffices, AtProvisional
<1>3. p \in Pairs /\ p \notin Slots /\ Idle /\ wave = {}
  BY <1>1, <1>2, AtPair DEF InBatch, Walking, IInv, Typed, Control, SlotTaken, Known
<1>4. Slots' = Slots \cup {p}
  BY <1>2, LongerLedger DEF ReconciliationDispatched
<1>5. \A q \in Slots' : SlotCharge'[q] = IF q = p THEN MaxAttempts ELSE SlotCharge[q]
  <2>1. recon[p] = Open
    BY <1>2, <1>3 DEF Slotted
  <2> QED
    BY <1>2, <1>4, <2>1 DEF SlotCharge, Open
<1>6. /\ \A q \in Slots : SlotCharge[q] \in 0 .. MaxAttempts
      /\ IsFiniteSet(Slots) /\ MaxAttempts \in Nat
  BY ChargeTypes
<1>7. Sum(SlotCharge', Slots \cup {p}) = Sum(SlotCharge', Slots) + MaxAttempts
  <2>1. \A q \in Slots \cup {p} : SlotCharge'[q] \in Int
    BY <1>4, <1>5, <1>6
  <2>2. Sum(SlotCharge', Slots \cup {p}) = Sum(SlotCharge', Slots) + SlotCharge'[p]
    BY <1>3, <1>6, <2>1, SumAdd
  <2> QED
    BY <1>4, <1>5, <2>2
<1>8. Sum(SlotCharge', Slots) = Sum(SlotCharge, Slots)
  <2>1. \A q \in Slots : SlotCharge[q] \in Int /\ SlotCharge'[q] = SlotCharge[q]
    BY <1>3, <1>4, <1>5, <1>6
  <2> QED
    BY <1>6, <2>1, SumSame
<1>9. Reserve' = Reserve
  BY <1>2 DEF Reserve
<1>10. Sum(Reserve, Pairs) = Sum(MainCharge, Pairs)
  BY <1>3, IdleBudget
<1>11. Sum(MainCharge, Pairs) \in Nat /\ Sum(SlotCharge, Slots) \in Nat
       /\ Charge = Sum(MainCharge, Pairs) + Sum(SlotCharge, Slots)
  BY SumsAreNumbers DEF Charge
<1>12. Sum(Reserve', Pairs) + Sum(SlotCharge', Slots') <= PhysicalCap
  <2>1. Sum(SlotCharge', Slots') = Sum(SlotCharge, Slots) + MaxAttempts
    BY <1>4, <1>7, <1>8
  <2>2. Sum(Reserve', Pairs) = Sum(MainCharge, Pairs)
    BY <1>9, <1>10
  <2> QED
    BY <1>2, <1>6, <1>11, <2>1, <2>2, BoundsAssumption
<1> QED
  BY <1>12 DEF Budget

\* The slots are the ones there were, but for the one that is spent.
LEMMA SlotsStay ==
  ASSUME IInv, [Next]_vars, ~(BeginReconciliation /\ pc' = "reconcile")
  PROVE  Slots' = Slots
<1>1. CASE policy' = policy
  BY <1>1, SameLedger
<1>2. ASSUME NEW p, NEW s, NEW n, Stop(p, s, n)
      PROVE  Slots' = Slots
  BY <1>2, LongerLedger DEF Stop, StrictStopped
<1>3. CASE CloseReconciliation
  BY <1>2, <1>3, LongerLedger DEF CloseReconciliation, ReconciliationResolved
<1>4. CASE Complete
  BY <1>4, LongerLedger DEF Complete, RuntimeCompleted
<1>5. CASE StopOnFailure \/ StopOnLostReconciliation \/ ReserveWave \/ BeginReconciliation
  BY <1>1, <1>2, <1>5 DEF StopOnFailure, StopOnLostReconciliation, ReserveWave, BeginReconciliation, disk
<1> QED
  BY <1>1, <1>3, <1>4, <1>5 DEF Next, Run, Settle, Reconcile, Close, vars, disk,
     Start, Opened, Crash, PassSuccess, PassResolved, CloseWave, Finish, CloseSource,
     CommitBatch, CallPair, CallReconciliation, Seal, DispatchPair, SettlePair,
     DispatchReconciliation, SettleReconciliation

\* The budget holds through every step.
LEMMA BudgetKept ==
  ASSUME IInv, IInv', Slotted, Known, Budget, [Next]_vars
  PROVE  Budget'
<1>1. CASE ReserveWave /\ pc' = "wave"
  BY <1>1, BudgetReserve
<1>2. CASE BeginReconciliation /\ pc' = "reconcile"
  BY <1>2, BudgetSlot
<1>3. CASE ~(ReserveWave /\ pc' = "wave") /\ ~(BeginReconciliation /\ pc' = "reconcile")
  <2>1. Slots' = Slots
    BY <1>3, SlotsStay
  <2>2. wave' \subseteq wave
    BY <1>3 DEF Next, Run, Settle, Reconcile, Close, vars, disk,
       Start, Opened, Crash, PassSuccess, PassResolved, CloseWave, Finish, CloseSource,
       CommitBatch, CallPair, CallReconciliation, Seal, DispatchPair, SettlePair,
       DispatchReconciliation, SettleReconciliation, ReserveWave, StopOnFailure,
       StopOnLostReconciliation, Complete, CloseReconciliation, Stop, BeginReconciliation, Forget
  <2> QED
    BY <2>1, <2>2, BudgetStays
<1> QED
  BY <1>1, <1>2, <1>3

-----------------------------------------------------------------------------
\* The charge in memory.

\* Where the settlements keep their charges and no slot is spent, the charge is as it was.
LEMMA QuietCharge ==
  ASSUME IInv, IInv', Slots' = Slots, UNCHANGED <<main, recon>>
  PROVE  Charge' = Charge /\ \A R \in SUBSET Pairs : Sum(MainCharge', R) = Sum(MainCharge, R)
<1>1. \A p \in Pairs : main'[p].charge = main[p].charge
  OBVIOUS
<1>2. \A p \in Slots : SlotCharge'[p] = SlotCharge[p]
  BY DEF SlotCharge
<1> QED
  BY <1>1, <1>2, ChargeStays

\* A wave that is reserved adds nothing yet.
LEMMA KnownReserve ==
  ASSUME IInv, IInv', Known, ReserveWave, pc' = "wave"
  PROVE  Known'
<1>1. /\ UNCHANGED <<disk, cursor, charged, calls, crashes>> /\ InBatch
      /\ wave' \subseteq Pairs /\ IsFiniteSet(wave') /\ \A p \in wave' : main[p] = Open
  BY NewWave
<1>2. Slots' = Slots
  BY <1>1, SameLedger DEF disk
<1>3. Charge' = Charge /\ Sum(MainCharge', wave') = Sum(MainCharge, wave')
  BY <1>1, <1>2, QuietCharge DEF disk
<1>4. \A p \in wave' : MainCharge[p] \in Nat /\ MainCharge[p] <= 0
  BY <1>1 DEF MainCharge, Open
<1>5. Sum(MainCharge, wave') \in Nat /\ Sum(MainCharge, wave') <= Cardinality(wave') * 0
  BY <1>1, <1>4, SumNat, SumBound
<1>6. Cardinality(wave') * 0 = 0
  BY <1>1, FS_CardinalityType
<1>7. Sum(MainCharge, wave') = 0
  BY <1>5, <1>6
<1>8. charged = Charge /\ Charge \in Nat
  BY <1>1, SumsAreNumbers DEF Known, InBatch
<1> QED
  BY <1>1, <1>3, <1>7, <1>8 DEF Known

\* An answer adds its charge to the wave and to the disk alike.
LEMMA KnownSettle ==
  ASSUME IInv, IInv', Known, SettlePair
  PROVE  Known'
<1>1. PICK p \in wave, kind \in Kinds :
        /\ main[p].state = "dispatched"
        /\ main' = [main EXCEPT ![p] = Outcome(kind, calls["main"][p])]
  BY DEF SettlePair
<1>2. pc = "wave" /\ UNCHANGED <<recon, policy, pc, wave, charged>>
  BY DEF SettlePair
<1>3. p \in Pairs /\ wave \in SUBSET Pairs /\ IsFiniteSet(Pairs) /\ IsFiniteSet(wave)
  BY ChargeTypes DEF IInv, Typed, TypeOK
<1>4. \A q \in Pairs : /\ MainCharge[q] \in Int /\ MainCharge'[q] \in Int
                       /\ q # p => MainCharge'[q] = MainCharge[q]
  <2>1. \A q \in Pairs : main[q].charge \in 0 .. MaxAttempts /\ main'[q].charge \in 0 .. MaxAttempts
    BY DEF IInv, Typed, TypeOK, Record
  <2>2. \A q \in Pairs : q # p => main'[q] = main[q]
    BY <1>1 DEF IInv, Typed, TypeOK
  <2>3. MaxAttempts \in Nat
    BY ScheduleTypes
  <2> QED
    BY <2>1, <2>2, <2>3 DEF MainCharge
<1> DEFINE d == MainCharge'[p] - MainCharge[p]
<1>5. Sum(MainCharge', Pairs) = Sum(MainCharge, Pairs) + d
  BY <1>3, <1>4, SumChange
<1>6. Sum(MainCharge', wave) = Sum(MainCharge, wave) + d
  <2>1. \A q \in wave : /\ MainCharge[q] \in Int /\ MainCharge'[q] \in Int
                        /\ q # p => MainCharge'[q] = MainCharge[q]
    BY <1>3, <1>4
  <2> QED
    BY <1>3, <2>1, SumChange
<1>7. Slots' = Slots /\ Sum(SlotCharge', Slots') = Sum(SlotCharge, Slots)
  BY <1>2, SameLedger DEF SlotCharge
<1>8. /\ Sum(MainCharge, Pairs) \in Nat /\ Sum(SlotCharge, Slots) \in Nat
      /\ Sum(MainCharge, wave) \in Nat
  BY SumsAreNumbers
<1>9. d \in Int
  BY <1>3, <1>4
<1>10. charged + Sum(MainCharge, wave) = Sum(MainCharge, Pairs) + Sum(SlotCharge, Slots)
  BY <1>2 DEF Known, Charge
<1>11. charged \in Nat
  BY DEF Known
<1> HIDE DEF d
<1>12. charged + Sum(MainCharge', wave) = Sum(MainCharge', Pairs) + Sum(SlotCharge', Slots')
  BY <1>5, <1>6, <1>7, <1>8, <1>9, <1>10, <1>11
<1>13. charged' + Sum(MainCharge', wave') = Charge'
  BY <1>2, <1>12 DEF Charge
<1> QED
  BY <1>2, <1>13 DEF Known

\* Everywhere else the process reads the charge off the disk, or keeps what it has of it.
LEMMA KnownKept ==
  ASSUME IInv, IInv', Known, [Next]_vars
  PROVE  Known'
<1> USE DEF Known
<1>1. CASE ReserveWave /\ pc' = "wave"
  BY <1>1, KnownReserve
<1>2. CASE SettlePair
  BY <1>2, KnownSettle
<1>3. CASE DispatchPair
  <2>1. pc = "wave" /\ UNCHANGED <<recon, policy, pc, wave, charged>>
    BY <1>3 DEF DispatchPair
  <2>2. \A p \in Pairs : main'[p].charge = main[p].charge
    <3>1. PICK i \in DOMAIN Batch : /\ main[Batch[i]].state = "open" /\ Batch[i] \in wave
                                    /\ main' = [main EXCEPT ![Batch[i]] = InFlight]
      BY <1>3 DEF DispatchPair
    <3>2. PICK p : p = Batch[i]
      OBVIOUS
    <3>3. p \in Pairs /\ main[p] = Open /\ main' = [main EXCEPT ![p] = InFlight]
      BY <3>1, <3>2 DEF IInv, Shapes, Covers, Typed, TypeOK
    <3> QED
      BY <3>3 DEF IInv, Typed, TypeOK, Open, InFlight
  <2>3. Slots' = Slots /\ \A p \in Slots : SlotCharge'[p] = SlotCharge[p]
    BY <2>1, SameLedger DEF SlotCharge
  <2>4. Charge' = Charge /\ Sum(MainCharge', wave) = Sum(MainCharge, wave)
    BY <2>2, <2>3, ChargeStays DEF IInv, Typed, TypeOK
  <2> QED
    BY <2>1, <2>4
<1>4. CASE CallPair \/ UNCHANGED vars
  <2>1. UNCHANGED <<main, recon, policy, pc, wave, charged>>
    BY <1>4 DEF CallPair, vars, disk
  <2>2. Charge' = Charge /\ Sum(MainCharge', wave) = Sum(MainCharge, wave)
    BY <2>1, SameLedger, QuietCharge DEF IInv, Typed, TypeOK
  <2> QED
    BY <2>1, <2>2
<1>5. CASE CloseWave
  <2>1. /\ charged' = charged + Sum(MainCharge, wave) /\ pc = "wave" /\ pc' = "batch" /\ wave' = {}
        /\ UNCHANGED <<main, recon, policy>>
    BY <1>5 DEF CloseWave, disk
  <2>2. Charge' = Charge
    BY <2>1, SameLedger, QuietCharge
  <2> QED
    BY <2>1, <2>2, SumsAreNumbers
<1>6. CASE Start \/ Crash \/ Seal \/ CloseSource \/ CallReconciliation \/ DispatchReconciliation
             \/ SettleReconciliation \/ (BeginReconciliation /\ pc' = "reconcile") \/ Finish
  <2>1. /\ pc # "wave" \/ wave' = {}
        /\ pc' \notin {"batch", "wave", "finish"} /\ wave' \in {wave, {}}
        /\ charged' \in {charged, 0}
    BY <1>6 DEF Start, Crash, Seal, CloseSource, CallReconciliation, DispatchReconciliation,
       SettleReconciliation, BeginReconciliation, Stop, Finish, Forget, AtProvisional, InBatch
  <2> QED
    BY <2>1
<1>7. CASE Opened \/ PassSuccess \/ PassResolved \/ StopOnFailure \/ StopOnLostReconciliation
             \/ (ReserveWave /\ pc' # "wave") \/ (BeginReconciliation /\ pc' # "reconcile")
             \/ CloseReconciliation \/ CommitBatch \/ Complete
  <2>1. UNCHANGED <<main, recon>> /\ pc' # "wave"
    BY <1>7 DEF Opened, PassSuccess, PassResolved, StopOnFailure, StopOnLostReconciliation, disk,
       ReserveWave, BeginReconciliation, CloseReconciliation, CommitBatch, Complete, Stop, InBatch,
       AtProvisional
  <2>2. /\ charged' = Charge \/ (pc = "batch" /\ charged' = charged)
        /\ wave' = {} \/ (pc # "wave" /\ wave' = wave)
    BY <1>7 DEF Opened, PassSuccess, PassResolved, StopOnFailure, StopOnLostReconciliation,
       ReserveWave, BeginReconciliation, CloseReconciliation, CommitBatch, Complete, Stop, InBatch,
       Recovering, AtProvisional
  <2>3. Charge' = Charge
    <3>1. Slots' = Slots
      BY <1>7, SlotsStay DEF BeginReconciliation, Opened, PassSuccess, PassResolved, StopOnFailure,
         StopOnLostReconciliation, ReserveWave, CloseReconciliation, CommitBatch, Complete, Stop,
         InBatch, AtProvisional
    <3> QED
      BY <2>1, <3>1, QuietCharge
  <2>4. Charge \in Nat
    BY SumsAreNumbers
  <2> QED
    BY <2>1, <2>2, <2>3, <2>4
<1> QED
  BY <1>1, <1>2, <1>3, <1>4, <1>5, <1>6, <1>7 DEF Next, Run, Settle, Reconcile, Close

-----------------------------------------------------------------------------
\* The end of a run.

\* A completion records the charge of the disk, and nothing moves it after.
LEMMA CompletedKept ==
  ASSUME IInv, IInv', Known, Completed, [Next]_vars
  PROVE  Completed'
<1>1. CASE Complete
  <2>1. /\ policy' = Append(policy, RuntimeCompleted(charged)) /\ pc = "batch"
        /\ committed = Batches
        /\ UNCHANGED <<main, recon, committed, source>>
    BY <1>1 DEF Complete
  <2>2. Completion = {}
    BY <2>1 DEF IInv, Control, Ended
  <2>3. Completion' = {RuntimeCompleted(charged)} /\ Slots' = Slots
    BY <2>1, <2>2, LongerLedger DEF RuntimeCompleted
  <2>4. Charge' = Charge /\ charged = Charge
    BY <2>1, <2>3, QuietCharge DEF Known
  <2> QED
    BY <2>1, <2>3, <2>4 DEF Completed, RuntimeCompleted
<1>2. CASE Completion # {} /\ Next
  <2>1. UNCHANGED Books /\ (Start \/ Opened \/ Crash \/ Finish \/ CloseSource)
    BY <1>2, EndedStep DEF Ended
  <2>2. Completion' = Completion /\ Charge' = Charge
    BY <2>1, SameLedger, QuietCharge DEF Books
  <2> QED
    BY <1>2, <2>1, <2>2 DEF Completed, Books
<1>3. CASE Completion = {} /\ Next /\ ~Complete
  <2>1. Completion' = {}
    <3>1. CASE policy' = policy
      BY <1>3, <3>1, SameLedger
    <3>2. ASSUME NEW p, NEW s, NEW n, Stop(p, s, n)
          PROVE  Completion' = {}
      BY <1>3, <3>2, LongerLedger DEF Stop, StrictStopped
    <3>3. CASE CloseReconciliation \/ BeginReconciliation
      BY <1>3, <3>2, <3>3, LongerLedger DEF CloseReconciliation, ReconciliationResolved,
         BeginReconciliation, ReconciliationDispatched
    <3>4. CASE StopOnFailure \/ StopOnLostReconciliation \/ ReserveWave
      BY <3>1, <3>2, <3>4 DEF StopOnFailure, StopOnLostReconciliation, ReserveWave, disk
    <3> QED
      BY <1>3, <3>1, <3>3, <3>4 DEF Next, Run, Settle, Reconcile, Close, disk,
         Start, Opened, Crash, PassSuccess, PassResolved, CloseWave, Finish, CloseSource,
         CommitBatch, CallPair, CallReconciliation, Seal, DispatchPair, SettlePair,
         DispatchReconciliation, SettleReconciliation
  <2>2. source = "absent" /\ pc # "staged"
    BY <1>3 DEF Completed
  <2>3. source' = "absent" /\ pc' # "staged"
    BY <1>3, <2>2 DEF Next, Run, Settle, Reconcile, Close, disk,
       Start, Opened, Crash, PassSuccess, PassResolved, CloseWave, Finish, CloseSource,
       CommitBatch, CallPair, CallReconciliation, Seal, DispatchPair, SettlePair,
       DispatchReconciliation, SettleReconciliation, ReserveWave, StopOnFailure,
       StopOnLostReconciliation, CloseReconciliation, Stop, BeginReconciliation
  <2> QED
    BY <2>1, <2>3 DEF Completed
<1>4. CASE UNCHANGED vars
  <2>1. UNCHANGED <<main, recon, policy, committed, source, pc>>
    BY <1>4 DEF vars, disk
  <2>2. Completion' = Completion /\ Charge' = Charge
    BY <2>1, SameLedger, QuietCharge
  <2> QED
    BY <2>1, <2>2 DEF Completed
<1> QED
  BY <1>1, <1>2, <1>3, <1>4

-----------------------------------------------------------------------------
\* The checks of the replay never fire.

\* The barrier finds the batch it has walked through final.
LEMMA BarrierPasses ==
  ASSUME IInv, Finals, CommitBatch
  PROVE  pc' = pc
<1>1. committed < Batches /\ cursor > Len(Batch) /\ pc = "batch"
  BY DEF CommitBatch
<1>2. \A i \in DOMAIN Batch : i < cursor
  BY <1>1, OpenBatch DEF IInv, Typed, TypeOK
<1>3. \A i \in DOMAIN Batch : Final(Batch[i])
  BY <1>1, <1>2 DEF Finals
<1> QED
  BY <1>3 DEF CommitBatch

\* A pair that is final was settled.
LEMMA FinalIsSettled ==
  ASSUME IInv, Slotted, NEW p \in Pairs, Final(p)
  PROVE  main[p].state # "open"
<1>1. main[p].state = "open" => main[p].kind = "none"
  BY DEF IInv, Shapes, Covers, Open
<1>2. CASE Succeeded(main[p])
  BY <1>1, <1>2 DEF Succeeded
<1>3. CASE Resolved(p)
  <2>1. SlotTaken(p)
    BY <1>3 DEF Slotted
  <2>2. main[p].kind \in {"provider_failed", "provenance_unknown"}
    BY <2>1, SlotMeans DEF IInv, Ledger, OneReconciliation
  <2> QED
    BY <1>1, <2>2
<1> QED
  BY <1>2, <1>3 DEF Final

\* The cross-checks of the result agree.
LEMMA ResultPasses ==
  ASSUME IInv, Account, pc = "finish"
  PROVE  ResultAgrees /\ (Completion = {} => source = "absent")
<1>1. charged = Charge /\ wave = {} /\ Idle
  BY DEF Account, Known, IInv, Control
<1>2. Charge <= PhysicalCap
  <2>1. Sum(Reserve, Pairs) = Sum(MainCharge, Pairs)
    BY <1>1, IdleBudget
  <2> QED
    BY <2>1 DEF Account, Budget, Charge
<1>3. Completion # {} => \A p \in Pairs : Final(p)
  <2> SUFFICES ASSUME Completion # {}, NEW p \in Pairs PROVE Final(p)
    OBVIOUS
  <2>1. PICK b \in DOMAIN Schedule : \E i \in DOMAIN Schedule[b] : p = Schedule[b][i]
    BY DEF Pairs
  <2>2. b <= committed
    BY ScheduleTypes DEF Account, Completed
  <2> QED
    BY <2>1, <2>2 DEF Account, Finals
<1>4. Completion # {} => \A p \in Pairs : main[p].state # "open" /\ Final(p)
  BY <1>3, FinalIsSettled DEF Account
<1> QED
  BY <1>1, <1>2, <1>4 DEF ResultAgrees, Account, Completed

\* No step raises.
LEMMA NeverRaisesKept ==
  ASSUME IInv, Account, [Next]_vars
  PROVE  NeverRaises'
<1> USE DEF NeverRaises
<1>1. pc # "raised"
  BY DEF Account
<1>2. CASE CommitBatch
  BY <1>1, <1>2, BarrierPasses DEF Account
<1>3. CASE Finish
  <2>1. pc = "finish"
    BY <1>3 DEF Finish
  <2>2. ResultAgrees /\ ~(Completion = {} /\ source # "absent")
    BY <2>1, ResultPasses
  <2> QED
    BY <1>3, <2>2 DEF Finish
<1>4. CASE ~CommitBatch /\ ~Finish
  BY <1>1, <1>4 DEF Next, Run, Settle, Reconcile, Close, vars,
     Start, Opened, Crash, PassSuccess, PassResolved, CloseWave, CloseSource,
     CallPair, CallReconciliation, Seal, DispatchPair, SettlePair,
     DispatchReconciliation, SettleReconciliation, ReserveWave, StopOnFailure,
     StopOnLostReconciliation, Complete, CloseReconciliation, Stop, BeginReconciliation
<1> QED
  BY <1>2, <1>3, <1>4

-----------------------------------------------------------------------------
\* A run begins with nothing charged.
LEMMA InitAccount == Init => Account
<1> SUFFICES ASSUME Init PROVE Account
  OBVIOUS
<1>1. /\ main = NoneDone /\ recon = NoneDone /\ policy = <<>> /\ committed = 0 /\ source = "absent"
      /\ pc = "down" /\ wave = {} /\ charged = 0
  BY DEF Init
<1>2. Slots = {} /\ Completion = {} /\ \A p : ~Resolved(p)
  BY <1>1 DEF Slots, Completion, Resolved, Recorded
<1>3. Slotted
  BY <1>1, <1>2 DEF Slotted, SlotTaken, NoneDone
<1>4. Finals
  BY <1>1, ScheduleTypes DEF Finals
<1>5. Budget
  <2>1. \A p \in Pairs : Reserve[p] \in Nat /\ Reserve[p] <= 0
    BY <1>1 DEF Reserve, NoneDone, Open
  <2>2. Sum(Reserve, Pairs) \in Nat /\ Sum(Reserve, Pairs) <= Cardinality(Pairs) * 0
    BY <2>1, PairsFinite, SumNat, SumBound
  <2>3. Cardinality(Pairs) * 0 = 0
    BY PairsFinite, FS_CardinalityType
  <2>4. Sum(SlotCharge, Slots) = 0
    BY <1>2, SumEmpty
  <2> QED
    BY <2>2, <2>3, <2>4, BoundsAssumption DEF Budget
<1>6. Known
  BY <1>1 DEF Known
<1>7. Completed /\ NeverRaises
  BY <1>1, <1>2 DEF Completed, NeverRaises
<1> QED
  BY <1>3, <1>4, <1>5, <1>6, <1>7 DEF Account

\* The accounts hold wherever the process goes.
THEOREM AccountInvariant == Spec => []Account
<1>1. Init => Account
  BY InitAccount
<1>2. IInv /\ IInv' /\ Account /\ [Next]_vars => Account'
  <2> SUFFICES ASSUME IInv, IInv', Account, [Next]_vars PROVE Account'
    OBVIOUS
  <2>1. NeverRaises'
    BY NeverRaisesKept
  <2>2. Slotted' /\ Finals' /\ Budget' /\ Known' /\ Completed'
    BY SlottedKept, FinalsKept, BudgetKept, KnownKept, CompletedKept DEF Account
  <2> QED
    BY <2>1, <2>2 DEF Account
<1> QED
  BY <1>1, <1>2, InvariantHolds, PTL DEF Spec

-----------------------------------------------------------------------------
\* The calls made are covered by what holds each of them.
LEMMA CallsCovered ==
  ASSUME IInv, Slotted, NEW f, \A p \in Pairs : f[p] \in Int /\ calls["main"][p] <= f[p]
  PROVE  Sum(CallsOf, Pairs) <= Sum(f, Pairs) + Sum(SlotCharge, Slots)
<1> DEFINE m == [p \in Pairs |-> calls["main"][p]]
           r == [p \in Pairs |-> calls["recon"][p]]
<1>1. /\ IsFiniteSet(Pairs) /\ IsFiniteSet(Slots) /\ Slots \in SUBSET Pairs
      /\ IsFiniteSet(Pairs \ Slots) /\ MaxAttempts \in Nat
      /\ \A p \in Slots : SlotCharge[p] \in 0 .. MaxAttempts
  BY ChargeTypes, FS_Difference
<1>2. \A p \in Pairs : calls["main"][p] \in 0 .. MaxAttempts /\ calls["recon"][p] \in 0 .. MaxAttempts
  BY DEF IInv, Typed, TypeOK
<1>3. \A p \in Pairs : m[p] \in Nat /\ r[p] \in Nat /\ CallsOf[p] = m[p] + r[p] /\ m[p] <= f[p]
  BY <1>1, <1>2 DEF CallsOf
<1>4. \A p \in Slots : r[p] <= SlotCharge[p]
  <2> SUFFICES ASSUME NEW p \in Slots PROVE calls["recon"][p] <= SlotCharge[p]
    BY <1>1
  <2>1. Covers(recon[p], calls["recon"][p]) /\ calls["recon"][p] \in 0 .. MaxAttempts
    BY <1>1, <1>2 DEF IInv, Shapes
  <2> QED
    BY <1>1, <2>1 DEF SlotCharge, Covers
<1>5. \A p \in Pairs \ Slots : r[p] <= 0
  BY DEF Slotted, SlotTaken, IInv, Shapes, Covers, Open
<1> HIDE DEF m, r
<1>6. \A p \in Pairs : m[p] \in Int /\ r[p] \in Int /\ f[p] \in Int
  BY <1>3
<1>7. /\ Sum(m, Pairs) \in Int /\ Sum(r, Pairs) \in Int
      /\ Sum(CallsOf, Pairs) = Sum(m, Pairs) + Sum(r, Pairs)
  <2>1. \A p \in Pairs : m[p] \in Int /\ r[p] \in Int /\ CallsOf[p] = m[p] + r[p]
    BY <1>3
  <2> QED
    BY <1>1, <2>1, SumPlus
<1>8. Sum(m, Pairs) <= Sum(f, Pairs) /\ Sum(f, Pairs) \in Int
  BY <1>1, <1>3, <1>6, SumLeq, SumRemove
<1>9. /\ Sum(r, Slots) \in Int /\ Sum(r, Pairs \ Slots) \in Int
      /\ Sum(r, Pairs) = Sum(r, Slots) + Sum(r, Pairs \ Slots)
  <2>1. \A p \in Pairs : r[p] \in Int
    BY <1>6
  <2>2. IsFiniteSet(Pairs) /\ Slots \in SUBSET Pairs
    BY <1>1
  <2>3. \A R \in SUBSET Pairs :
          /\ Sum(r, R) \in Int /\ Sum(r, Pairs \ R) \in Int
          /\ Sum(r, Pairs) = Sum(r, R) + Sum(r, Pairs \ R)
    BY <2>1, <2>2, SumUnion
  <2> QED
    BY <2>2, <2>3
<1>10. Sum(r, Slots) <= Sum(SlotCharge, Slots) /\ Sum(SlotCharge, Slots) \in Int
  <2>1. \A p \in Slots : r[p] \in Int /\ SlotCharge[p] \in Int /\ r[p] <= SlotCharge[p]
    BY <1>1, <1>4, <1>6
  <2> QED
    BY <1>1, <2>1, SumLeq, SumRemove
<1>11. Sum(r, Pairs \ Slots) <= 0
  <2>1. \A p \in Pairs \ Slots : r[p] \in Nat /\ r[p] <= 0
    BY <1>3, <1>5
  <2>2. Sum(r, Pairs \ Slots) <= Cardinality(Pairs \ Slots) * 0
    BY <1>1, <2>1, SumBound
  <2>3. Cardinality(Pairs \ Slots) * 0 = 0
    BY <1>1, FS_CardinalityType
  <2> QED
    BY <2>2, <2>3
<1> QED
  BY <1>7, <1>8, <1>9, <1>10, <1>11

\* However often the process dies and whatever answers are lost: the calls really made
\* never exceed the frozen cap, no pair is reconciled twice or without need, and the
\* replay's checks of its own accounting never fire.
THEOREM UnderTheCap == Spec => []AccountingHolds
<1>1. IInv /\ Account => AccountingHolds
  <2> SUFFICES ASSUME IInv, Account PROVE AccountingHolds
    OBVIOUS
  <2>1. \A p \in Pairs : Reserve[p] \in Int /\ calls["main"][p] <= Reserve[p]
    <3> TAKE p \in Pairs
    <3>1. Reserve[p] \in 0 .. MaxAttempts /\ MaxAttempts \in Nat
      BY ChargeTypes
    <3>2. Covers(main[p], calls["main"][p]) /\ calls["main"][p] \in 0 .. MaxAttempts
      BY DEF IInv, Shapes, Typed, TypeOK
    <3>3. main[p] \in Record
      BY DEF IInv, Typed, TypeOK
    <3> QED
      BY <3>1, <3>2, <3>3 DEF Reserve, Covers, Record
  <2>2. Sum(CallsOf, Pairs) <= Sum(Reserve, Pairs) + Sum(SlotCharge, Slots)
    BY <2>1, CallsCovered DEF Account
  <2>3. /\ Sum(Reserve, Pairs) \in Nat /\ Sum(SlotCharge, Slots) \in Nat
        /\ Sum(CallsOf, Pairs) \in Int
    <3>1. \A p \in Pairs : CallsOf[p] \in Int
      <4>1. \A p \in Pairs : calls["main"][p] \in 0 .. MaxAttempts
                             /\ calls["recon"][p] \in 0 .. MaxAttempts
        BY DEF IInv, Typed, TypeOK
      <4> QED
        BY <4>1, ScheduleTypes DEF CallsOf
    <3> QED
      BY <3>1, SumsAreNumbers, PairsFinite, SumRemove
  <2>4. CapHolds
    BY <2>2, <2>3, BoundsAssumption DEF CapHolds, Account, Budget
  <2> QED
    BY <2>4 DEF AccountingHolds, Account, IInv, Ledger
<1> QED
  BY <1>1, InvariantHolds, AccountInvariant, PTL

\* A batch is committed behind its barrier; a run that says it completed has a success
\* behind every pair and recorded the charge the disk tells, which covers every call; and
\* only such a run has a source-v4.
THEOREM CompletionIsTrue == Spec => []CompletionHolds
<1>1. IInv /\ Account => CompletionCovers
  <2> SUFFICES ASSUME IInv, Account PROVE CompletionCovers
    OBVIOUS
  <2>1. source # "absent" => Completion # {}
    BY DEF Account, Completed
  <2>2. ASSUME NEW e \in Completion
        PROVE  /\ \A p \in Pairs : "succeeded" \in {main[p].kind, recon[p].kind}
               /\ e.charge = Charge
               /\ Sum(CallsOf, Pairs) <= e.charge
    <3>1. committed = Batches /\ e.charge = Charge /\ Idle
      BY DEF Account, Completed, IInv, Control, Ended
    <3>2. \A p \in Pairs : "succeeded" \in {main[p].kind, recon[p].kind}
      <4> TAKE p \in Pairs
      <4>1. PICK b \in DOMAIN Schedule : \E i \in DOMAIN Schedule[b] : p = Schedule[b][i]
        BY DEF Pairs
      <4>2. b <= committed
        BY <3>1, ScheduleTypes
      <4> QED
        BY <4>1, <4>2 DEF IInv, Behind, Succeeded
    <3>3. \A p \in Pairs : MainCharge[p] \in Int /\ calls["main"][p] <= MainCharge[p]
      <4> TAKE p \in Pairs
      <4>1. /\ MainCharge[p] \in 0 .. MaxAttempts /\ MaxAttempts \in Nat
            /\ MainCharge[p] = main[p].charge
        BY ChargeTypes
      <4>2. Covers(main[p], calls["main"][p]) /\ main[p].state # "dispatched" /\ main[p] \in Record
        BY <3>1 DEF IInv, Shapes, Typed, TypeOK, Idle, InFlightOf
      <4> QED
        BY <4>1, <4>2 DEF Covers, Record
    <3>4. Sum(CallsOf, Pairs) <= Sum(MainCharge, Pairs) + Sum(SlotCharge, Slots)
      BY <3>3, CallsCovered DEF Account
    <3> QED
      BY <3>1, <3>2, <3>4 DEF Charge
  <2> QED
    BY <2>1, <2>2 DEF CompletionCovers
<1> QED
  BY <1>1, InvariantHolds, AccountInvariant, BarrierHolds, PTL DEF CompletionHolds

-----------------------------------------------------------------------------
\* The refinement: a dispatch is a role and a pair.
Dispatches == {"main", "recon"} \X Pairs

Told(s) ==
  [kind   |-> IF s.kind \in {"succeeded", "provider_failed"} THEN "terminal" ELSE s.kind,
   charge |-> s.charge]
Status   == [d \in Dispatches |-> SettlementOf(d).state]
Answered == [d \in Dispatches |-> Told(SettlementOf(d))]
Made     == [d \in Dispatches |-> calls[d[1]][d[2]]]

\* What the promise calls its variables.
LEMMA Mapping ==
  /\ Promise!Init <=> /\ Status = [d \in Dispatches |-> "open"]
                      /\ Answered = [d \in Dispatches |-> [kind |-> "none", charge |-> 0]]
                      /\ Made = [d \in Dispatches |-> 0]
  /\ \A d : Promise!Dispatch(d) <=> /\ Status[d] = "open"
                                    /\ Status' = [Status EXCEPT ![d] = "dispatched"]
                                    /\ Answered' = Answered /\ Made' = Made
  /\ \A d : Promise!Call(d) <=> /\ Status[d] = "dispatched"
                                /\ Made' = [Made EXCEPT ![d] = @ + 1]
                                /\ Status' = Status /\ Answered' = Answered
  /\ \A d : Promise!Settle(d) <=>
       /\ Status[d] = "dispatched"
       /\ Status' = [Status EXCEPT ![d] = "settled"] /\ Made' = Made
       /\ \E kind \in {"terminal", "provenance_unknown", "implementation_failed"},
             charge \in Promise!Covered(Made[d]) .. MaxAttempts :
            /\ kind = "terminal" => charge = Made[d]
            /\ Answered' = [Answered EXCEPT ![d] = [kind |-> kind, charge |-> charge]]
BY DEF Promise!Init, Promise!Dispatch, Promise!Call, Promise!Settle,
   Promise!Kinds, Promise!Unsettled, Status, Answered, Made,
   Dispatches, Told

\* One settlement of one pair becomes o.
Becomes(r, p, o) ==
  /\ r = "main"  => main' = [main EXCEPT ![p] = o] /\ recon' = recon
  /\ r = "recon" => recon' = [recon EXCEPT ![p] = o] /\ main' = main
  /\ calls' = calls

\* What that is to the promise.
LEMMA BecomesMapped ==
  ASSUME IInv, NEW r \in {"main", "recon"}, NEW p \in Pairs, NEW o, Becomes(r, p, o)
  PROVE  /\ Status' = [Status EXCEPT ![<<r, p>>] = o.state]
         /\ Answered' = [Answered EXCEPT ![<<r, p>>] = Told(o)]
         /\ Made' = Made
<1> USE DEF Becomes
<1>0. main \in [Pairs -> Record] /\ recon \in [Pairs -> Record]
  BY DEF IInv, Typed, TypeOK
<1>1. \A d \in Dispatches :
        SettlementOf(d)' = IF d = <<r, p>> THEN o ELSE SettlementOf(d)
  <2> SUFFICES ASSUME NEW s \in {"main", "recon"}, NEW q \in Pairs
               PROVE  SettlementOf(<<s, q>>)' = IF <<s, q>> = <<r, p>> THEN o ELSE SettlementOf(<<s, q>>)
    BY DEF Dispatches, SettlementOf
  <2>1. CASE r = "main"
    BY <1>0, <2>1 DEF SettlementOf
  <2>2. CASE r = "recon"
    BY <1>0, <2>2 DEF SettlementOf
  <2> QED
    BY <2>1, <2>2
<1>2. <<r, p>> \in Dispatches
  BY DEF Dispatches
<1>3. Status' = [Status EXCEPT ![<<r, p>>] = o.state]
  BY <1>1, <1>2 DEF Status
<1>4. Answered' = [Answered EXCEPT ![<<r, p>>] = Told(o)]
  <2>1. \A d \in Dispatches : Told(SettlementOf(d))' = IF d = <<r, p>> THEN Told(o) ELSE Told(SettlementOf(d))
    BY <1>1 DEF Told
  <2> QED
    BY <1>2, <2>1 DEF Answered
<1> QED
  BY <1>3, <1>4 DEF Made

\* What the promise knows of one dispatch.
LEMMA OneDispatch ==
  ASSUME IInv, NEW r \in {"main", "recon"}, NEW p \in Pairs
  PROVE  /\ <<r, p>> \in Dispatches
         /\ Status[<<r, p>>] = SettlementOf(<<r, p>>).state
         /\ Answered[<<r, p>>] = Told(SettlementOf(<<r, p>>))
         /\ Made[<<r, p>>] = calls[r][p] /\ calls[r][p] \in 0 .. MaxAttempts
         /\ Covers(SettlementOf(<<r, p>>), calls[r][p])
<1>1. <<r, p>> \in Dispatches
  BY DEF Dispatches
<1>2. calls[r][p] \in 0 .. MaxAttempts /\ Covers(SettlementOf(<<r, p>>), calls[r][p])
  BY DEF IInv, Typed, TypeOK, Shapes, SettlementOf
<1> QED
  BY <1>1, <1>2 DEF Status, Answered, Made

\* Making a dispatch durable dispatches it.
LEMMA PromiseDispatch ==
  ASSUME IInv, NEW r \in {"main", "recon"}, NEW p \in Pairs,
         SettlementOf(<<r, p>>).state = "open", Becomes(r, p, InFlight)
  PROVE  Promise!Dispatch(<<r, p>>)
<1>1. PICK d : d = <<r, p>>
  OBVIOUS
<1>2. d \in Dispatches /\ Status[d] = "open" /\ Answered[d] = Told(SettlementOf(<<r, p>>))
      /\ Covers(SettlementOf(<<r, p>>), calls[r][p])
  BY <1>1, OneDispatch
<1>3. SettlementOf(<<r, p>>) = Open
  BY <1>2 DEF Covers
<1>4. Told(InFlight) = Answered[d] /\ InFlight.state = "dispatched"
  BY <1>2, <1>3 DEF Told, InFlight, Open
<1>5. Answered' = [Answered EXCEPT ![d] = Answered[d]] /\ Made' = Made
      /\ Status' = [Status EXCEPT ![d] = "dispatched"]
  BY <1>1, <1>4, BecomesMapped
<1>6. Answered = [x \in Dispatches |-> Answered[x]]
  BY DEF Answered
<1>7. Answered' = Answered
  BY <1>2, <1>5, <1>6
<1>8. Promise!Dispatch(d)
  BY <1>2, <1>5, <1>7, Mapping
<1> QED
  BY <1>1, <1>8

\* A settlement charges the calls made, or the whole window.
LEMMA PromiseSettle ==
  ASSUME IInv, NEW r \in {"main", "recon"}, NEW p \in Pairs, NEW o,
         SettlementOf(<<r, p>>).state = "dispatched", Becomes(r, p, o),
         o = Sealed \/ \E kind \in Kinds : o = Outcome(kind, calls[r][p])
  PROVE  Promise!Settle(<<r, p>>)
<1> DEFINE n == calls[r][p]
<1>1. n \in 0 .. MaxAttempts /\ MaxAttempts \in Nat /\ Made[<<r, p>>] = n
      /\ Status[<<r, p>>] = "dispatched"
  BY OneDispatch, ScheduleTypes
<1>2. /\ o.state = "settled"
      /\ Told(o).kind \in {"terminal", "provenance_unknown", "implementation_failed"}
      /\ Told(o).charge \in n .. MaxAttempts
      /\ Told(o).kind = "terminal" => Told(o).charge = n
  BY <1>1 DEF Told, Sealed, Outcome, Kinds
<1>3. /\ Status' = [Status EXCEPT ![<<r, p>>] = "settled"]
      /\ Answered' = [Answered EXCEPT ![<<r, p>>] = Told(o)]
      /\ Made' = Made
  BY <1>2, BecomesMapped
<1>4. Told(o) = [kind |-> Told(o).kind, charge |-> Told(o).charge]
  BY DEF Told
<1> HIDE DEF n
<1>5. \E kind \in {"terminal", "provenance_unknown", "implementation_failed"},
         charge \in n .. MaxAttempts :
        /\ kind = "terminal" => charge = n
        /\ Answered' = [Answered EXCEPT ![<<r, p>>] = [kind |-> kind, charge |-> charge]]
  BY <1>2, <1>3, <1>4
<1>6. Promise!Covered(n) = n
  BY <1>1 DEF Promise!Covered
<1> QED
  BY <1>1, <1>3, <1>5, <1>6, Mapping, ZenonT(30)

\* Every step is one of the promise's, or none.
LEMMA PromiseStep ==
  ASSUME IInv, [Next]_vars
  PROVE  \/ \E d \in Dispatches : Promise!Dispatch(d) \/ Promise!Call(d) \/ Promise!Settle(d)
         \/ UNCHANGED <<Status, Answered, Made>>
<1> DEFINE Promised == \E d \in Dispatches : Promise!Dispatch(d) \/ Promise!Call(d) \/ Promise!Settle(d)
<1>1. ASSUME NEW r \in {"main", "recon"}, NEW p \in Pairs,
             \/ /\ SettlementOf(<<r, p>>).state = "open" /\ Becomes(r, p, InFlight)
             \/ /\ SettlementOf(<<r, p>>).state = "dispatched"
                /\ Becomes(r, p, Sealed) \/ \E kind \in Kinds : Becomes(r, p, Outcome(kind, calls[r][p]))
      PROVE  Promised
  <2>1. <<r, p>> \in Dispatches
    BY DEF Dispatches
  <2>2. CASE SettlementOf(<<r, p>>).state = "open" /\ Becomes(r, p, InFlight)
    BY <2>1, <2>2, PromiseDispatch
  <2>3. CASE SettlementOf(<<r, p>>).state = "dispatched" /\ Becomes(r, p, Sealed)
    BY <2>1, <2>3, PromiseSettle
  <2>4. ASSUME NEW kind \in Kinds, SettlementOf(<<r, p>>).state = "dispatched",
               Becomes(r, p, Outcome(kind, calls[r][p]))
        PROVE  Promised
    BY <2>1, <2>4, PromiseSettle
  <2> QED
    BY <1>1, <2>2, <2>3, <2>4
<1>2. CASE Seal
  <2>1. CASE \E p \in InFlightOf(main) : main' = [main EXCEPT ![p] = Sealed] /\ UNCHANGED recon
    BY <1>1, <1>2, <2>1 DEF Seal, InFlightOf, Becomes, SettlementOf
  <2>2. CASE \E p \in InFlightOf(recon) : recon' = [recon EXCEPT ![p] = Sealed] /\ UNCHANGED main
    BY <1>1, <1>2, <2>2 DEF Seal, InFlightOf, Becomes, SettlementOf
  <2> QED
    BY <1>2, <2>1, <2>2 DEF Seal
<1>3. CASE DispatchPair
  <2>1. PICK i \in DOMAIN Batch : /\ Batch[i] \in wave /\ main[Batch[i]].state = "open"
                                  /\ main' = [main EXCEPT ![Batch[i]] = InFlight]
    BY <1>3 DEF DispatchPair
  <2>2. Batch[i] \in Pairs
    BY <2>1 DEF IInv, Typed, TypeOK
  <2>3. Becomes("main", Batch[i], InFlight) /\ SettlementOf(<<"main", Batch[i]>>).state = "open"
    BY <1>3, <2>1 DEF DispatchPair, Becomes, SettlementOf
  <2> QED
    BY <1>1, <2>2, <2>3
<1>4. CASE SettlePair
  <2>1. PICK p \in wave, kind \in Kinds :
          main[p].state = "dispatched" /\ main' = [main EXCEPT ![p] = Outcome(kind, calls["main"][p])]
    BY <1>4 DEF SettlePair
  <2>2. p \in Pairs
    BY <2>1 DEF IInv, Typed, TypeOK
  <2>3. Becomes("main", p, Outcome(kind, calls["main"][p]))
        /\ SettlementOf(<<"main", p>>).state = "dispatched"
    BY <1>4, <2>1 DEF SettlePair, Becomes, SettlementOf
  <2> QED
    BY <1>1, <2>2, <2>3
<1>5. CASE DispatchReconciliation
  <2>1. PICK p : p = At
    OBVIOUS
  <2>2. p \in Pairs
    BY <1>5, <2>1, AtPair DEF DispatchReconciliation, IInv, Typed, Control
  <2>3. Becomes("recon", p, InFlight) /\ SettlementOf(<<"recon", p>>).state = "open"
    BY <1>5, <2>1 DEF DispatchReconciliation, Becomes, SettlementOf
  <2> QED
    BY <1>1, <2>2, <2>3
<1>6. CASE SettleReconciliation
  <2>1. PICK p : p = At
    OBVIOUS
  <2>2. p \in Pairs
    BY <1>6, <2>1, AtPair DEF SettleReconciliation, IInv, Typed, Control
  <2>3. PICK kind \in Kinds : recon' = [recon EXCEPT ![p] = Outcome(kind, calls["recon"][p])]
    BY <1>6, <2>1 DEF SettleReconciliation
  <2>4. Becomes("recon", p, Outcome(kind, calls["recon"][p]))
        /\ SettlementOf(<<"recon", p>>).state = "dispatched"
    BY <1>6, <2>1, <2>3 DEF SettleReconciliation, Becomes, SettlementOf
  <2> QED
    BY <1>1, <2>2, <2>4
<1>7. CASE CallPair \/ CallReconciliation
  <2>1. PICK r \in {"main", "recon"}, p \in Pairs :
          /\ Call(r, p) /\ SettlementOf(<<r, p>>).state = "dispatched"
          /\ UNCHANGED <<disk, pc, cursor, wave, crashes>>
    BY <1>7, CallMeans
  <2>2. Status' = Status /\ Answered' = Answered
    BY <2>1 DEF disk, Status, Answered, Told, SettlementOf
  <2>3. calls' = [calls EXCEPT ![r][p] = @ + 1]
    BY <2>1 DEF Call
  <2>4. Made' = [Made EXCEPT ![<<r, p>>] = @ + 1]
    <3>1. \A s \in {"main", "recon"}, q \in Pairs :
            calls'[s][q] = IF <<s, q>> = <<r, p>> THEN calls[s][q] + 1 ELSE calls[s][q]
      BY <2>3 DEF IInv, Typed, TypeOK
    <3>2. Made' = [d \in Dispatches |-> IF d = <<r, p>> THEN Made[d] + 1 ELSE Made[d]]
      BY <3>1 DEF Made, Dispatches
    <3>3. Made = [d \in Dispatches |-> Made[d]]
      BY DEF Made
    <3> HIDE DEF Promised
    <3> QED
      BY <3>2, <3>3
  <2>5. Promise!Call(<<r, p>>)
    <3>1. PICK d : d = <<r, p>>
      OBVIOUS
    <3>2. Status[d] = "dispatched" /\ Made' = [Made EXCEPT ![d] = @ + 1]
      BY <2>1, <2>4, <3>1, OneDispatch
    <3>3. Promise!Call(d)
      BY <2>2, <3>2, Mapping
    <3> QED
      BY <3>1, <3>3
  <2> QED
    BY <2>5, OneDispatch
<1>8. CASE UNCHANGED <<main, recon, calls>>
  BY <1>8 DEF Status, Answered, Made, SettlementOf, Told
<1> QED
  BY <1>2, <1>3, <1>4, <1>5, <1>6, <1>7, <1>8 DEF Next, Run, Settle, Reconcile, Close, vars, disk,
     Start, Opened, Crash, PassSuccess, PassResolved, ReserveWave, Stop, CloseWave, Finish, CloseSource,
     StopOnFailure, StopOnLostReconciliation, Complete, CommitBatch, BeginReconciliation,
     CloseReconciliation

\* The strict replay keeps what a durable settlement promises, of the original settlement
\* and of every reconciliation: each is dispatched once, called only while it is
\* dispatched, and settled once with a charge that covers its calls.
THEOREM SettlementsAreKept == Spec => KeepsSettlementPromise
<1>1. Init => Promise!Init
  <2> SUFFICES ASSUME Init PROVE Promise!Init
    OBVIOUS
  <2>1. /\ Status = [d \in Dispatches |-> "open"] /\ Made = [d \in Dispatches |-> 0]
        /\ Answered = [d \in Dispatches |-> [kind |-> "none", charge |-> 0]]
    BY DEF Init, NoneDone, Open, Status, Answered, Made, Told, SettlementOf, Dispatches
  <2> QED
    BY <2>1, Mapping
<1>2. IInv /\ [Next]_vars => [Promise!Next]_(Promise!vars)
  <2> SUFFICES ASSUME IInv, [Next]_vars PROVE [Promise!Next]_(Promise!vars)
    OBVIOUS
  <2>1. CASE \E d \in Dispatches : Promise!Dispatch(d) \/ Promise!Call(d) \/ Promise!Settle(d)
    BY <2>1 DEF Promise!Next, Dispatches
  <2>2. CASE UNCHANGED <<Status, Answered, Made>>
    BY <2>2 DEF Promise!vars, Status, Answered, Made, Dispatches, Told
  <2> QED
    BY <2>1, <2>2, PromiseStep
<1> QED
  BY <1>1, <1>2, InvariantHolds, PTL DEF Spec, KeepsSettlementPromise, Promise!Spec

=============================================================================
