--------------------------- MODULE RecoveryCampaign ---------------------------
(***************************************************************************)
(* A recovery task: one immutable event chain per claimed source, the      *)
(* progress that its events add up to, and the driver that resumes a       *)
(* model's frozen batches, first one call at a time, later with parallel   *)
(* single-request workers whose answers only the driver records.  A        *)
(* revocation is a file that anybody may publish at any moment.            *)
(* Source: _concurrent_recovery_campaign.py and, with the same prefix,     *)
(* _progress.py, _runtime.py, _parallel_runtime.py, _parallel.py,          *)
(* _quota_retry.py, _task_runtime.py; concurrent_robustness_recovery_task  *)
(* .py and concurrent_robustness_recovery_execution.py.                    *)
(*                                                                         *)
(* One model with one cell; the later extensions (lanes of other models,   *)
(* migrations, budgets in money) are left out.  The state of the process   *)
(* is the replay of the chain (append validates, publishes, then applies), *)
(* so the model keeps that one state.  Timers are left out: a delayed pair *)
(* may be retried at any time.                                             *)
(***************************************************************************)
EXTENDS Integers, Sequences, FiniteSetsExt

CONSTANTS
  PerCell,       \* how many pairs the cell schedules
  BatchSize,     \* how many of them a frozen batch holds
  MaxAttempts,   \* _V2_MAXIMUM_ATTEMPTS
  Inflight,      \* the parallel extension's maximum_inflight
  NoPair,
  MaxCrashes     \* bound: kills and interrupts in one behaviour

ASSUME SizeAssumption     ==
  PerCell \in Nat \ {0} /\ BatchSize \in Nat \ {0} /\ PerCell % BatchSize = 0
ASSUME AttemptsAssumption == MaxAttempts \in Nat \ {0}
ASSUME InflightAssumption == Inflight \in Nat \ {0}
ASSUME CrashAssumption    == MaxCrashes \in Nat

Pairs       == 1 .. PerCell
BatchOf(p)  == ((p - 1) \div BatchSize) + 1
Batches     == 1 .. (PerCell \div BatchSize)
PairsOf(b)  == {p \in Pairs : BatchOf(p) = b}
ASSUME NoPairAssumption   == NoPair \notin Pairs

VARIABLES
  \* --- on disk ---
  control,    \* the claimed scope: "absent", "partial" while it is made, "open"
  torn,       \* an append or its HEAD was cut short
  state,      \* CampaignProgress, the replay of the chain up to HEAD
  plan,       \* the derived epoch plan: "none", "fresh", "admitted" or "orphan"
  signal,     \* the revocation file exists
  \* --- in the process ---
  pc,
  at,         \* the pair whose dispatch has passed its gate
  remaining,  \* run_frozen_batch: pairs still to be dispatched
  pause,      \* run_frozen_batch: the gate has raised
  lanes,      \* each pair's call: "idle", "queued", "calling" or how it ended
  \* --- in the world, and bounds ---
  calls,      \* calls really made for each pair
  late,       \* intents recorded after the revocation was published
  crashes

disk    == <<control, torn, plan, signal>>
locals  == <<at, remaining, pause>>
world   == <<calls, crashes>>
vars    == <<disk, state, pc, locals, lanes, world, late>>

Outcomes == {"succeeded", "retryable_failure", "quota_exhausted", "fatal"}
Answers  == Outcomes \cup {"unknown"}

-----------------------------------------------------------------------------
\* CampaignProgress.

Fresh ==
  [task |-> FALSE, revoked |-> FALSE, status |-> "ready", check |-> "none",
   epoch |-> FALSE, parallel |-> FALSE, approved |-> {}, pending |-> NoPair,
   batch |-> 0, reserved |-> {}, inflight |-> {}, unknown |-> {},
   attempts |-> [p \in Pairs |-> <<>>], reservation |-> NoPair,
   judged |-> FALSE, realized |-> FALSE, prefix |-> 0, committed |-> {}]

Last(s, p)    == s.attempts[p][Len(s.attempts[p])]
Tried(s, p)   == s.attempts[p] # <<>>
Decided(s)    == {p \in Pairs : Tried(s, p) /\ Last(s, p) = "succeeded"}
\* A failure that ends the campaign's work; a retry that used up its attempts
\* is one of them.
HardFailed(s) ==
  {p \in Pairs : Tried(s, p) /\ Last(s, p) \notin {"succeeded", "retryable_failure"}}

NextNumber(s, p) == Len(s.attempts[p]) + 1

\* What a worker's answer is recorded as.  (Mutant: a last retry like any other.)
GradedAlike(s, p, answer) == answer
Graded(s, p, answer) ==
  IF answer = "retryable_failure" /\ NextNumber(s, p) = MaxAttempts
  THEN "attempts_exhausted" ELSE answer

\* parallel_attempt_settled and attempt_settled.
Settled(s, p, outcome) ==
  [s EXCEPT !.attempts[p] = Append(@, outcome), !.inflight = @ \ {p},
            !.status = IF \/ p = s.pending /\ outcome # "succeeded"
                          \/ /\ outcome \notin {"succeeded", "retryable_failure"}
                             /\ @ # "reconciliation_required"
                       THEN "stopped" ELSE @,
            !.pending = IF p = @ /\ outcome = "succeeded" THEN NoPair ELSE @]

Unresolved(s, p) ==
  [s EXCEPT !.unknown = @ \cup {p}, !.status = "reconciliation_required"]

\* The gate of a dispatch reads the file, not only the chain.  (Mutant: it asks
\* whether the chain has recorded a revocation.)
RevokedInChain == state.revoked
Revoked        == signal

\* The status of a task as its operator sees it.
Ended(s) ==
  \/ s.status \in {"stopped", "reconciliation_required", "complete"}
  \/ s.inflight # {} \/ s.check = "intent"
  \/ s.revoked \/ Revoked

-----------------------------------------------------------------------------
\* One event of the chain: published, then HEAD moved, then applied.  A plan
\* derived for the head before it is of no head any more.

Record(s) ==
  /\ state' = s
  /\ plan' = IF plan = "fresh" THEN "orphan" ELSE plan

\* Every reader takes the chain and the plans as they are, or refuses.
Readable == control = "open" /\ ~torn /\ plan # "orphan"

NoLanes == [p \in Pairs |-> "idle"]

Init ==
  /\ control = "absent" /\ torn = FALSE /\ plan = "none" /\ signal = FALSE
  /\ state = Fresh
  /\ pc = "down"
  /\ at = NoPair /\ remaining = {} /\ pause = FALSE
  /\ lanes = NoLanes
  /\ calls = [p \in Pairs |-> 0]
  /\ late = 0 /\ crashes = 0

Goto(l) == pc' = l

\* The driver starts under the source lock, which one process holds.
Start ==
  /\ pc = "down"
  /\ Readable \/ control = "absent"
  /\ ~Ended(state)
  /\ IF control = "absent"
     THEN control' = "partial" /\ Goto("claim")
     ELSE UNCHANGED control /\ Goto("admit")
  /\ UNCHANGED <<torn, plan, signal, state, locals, lanes, world, late>>

\* The owner is published first, the scope made after it.
Claim ==
  /\ pc = "claim"
  /\ control' = "open"
  /\ Goto("admit")
  /\ UNCHANGED <<torn, plan, signal, state, locals, lanes, world, late>>

AdmitTask ==
  /\ pc = "admit"
  /\ IF state.task THEN UNCHANGED <<state, plan>>
                   ELSE Record([state EXCEPT !.task = TRUE])
  /\ Goto("loop")
  /\ UNCHANGED <<control, torn, signal, locals, lanes, world, late>>

-----------------------------------------------------------------------------
\* The model's self-check: one call, no retry.

Loop ==
  /\ pc = "loop"
  /\ Goto(IF Ended(state) THEN "down"
          ELSE IF state.check = "none" THEN "precheck" ELSE "observe")
  /\ UNCHANGED <<disk, state, locals, lanes, world, late>>

CheckGate ==
  /\ pc = "precheck"
  /\ Goto(IF Ended(state) THEN "outer" ELSE "check")
  /\ UNCHANGED <<disk, state, locals, lanes, world, late>>

CountLate == late' = IF signal THEN late + 1 ELSE late

CheckIntent ==
  /\ pc = "check"
  /\ Record([state EXCEPT !.check = "intent"])
  /\ Goto("checking")
  /\ CountLate
  /\ UNCHANGED <<control, torn, signal, locals, lanes, world>>

CheckAnswer ==
  /\ pc = "checking"
  /\ \/ /\ Record([state EXCEPT !.check = "succeeded"])
        /\ Goto("observe")
     \/ /\ Record([state EXCEPT !.check = "failed", !.status = "stopped"])
        /\ Goto("observe")
     \/ /\ Goto("outer")               \* provenance unknown: left unsettled
        /\ UNCHANGED <<state, plan>>
  /\ UNCHANGED <<control, torn, signal, locals, lanes, world, late>>

-----------------------------------------------------------------------------
\* Observing a revocation, deriving the epoch's plan, admitting the epoch.

ObserveRevocation ==
  IF signal /\ ~state.revoked
  THEN Record([state EXCEPT !.revoked = TRUE])
  ELSE UNCHANGED <<state, plan>>

Observe ==
  /\ pc = "observe"
  /\ ObserveRevocation
  /\ Goto(IF Ended(state') THEN "down" ELSE "derive")
  /\ UNCHANGED <<control, torn, signal, locals, lanes, world, late>>

DerivePlan ==
  /\ pc = "derive"
  /\ plan' = IF plan = "none" THEN "fresh" ELSE plan
  /\ Goto("study")
  /\ UNCHANGED <<control, torn, signal, state, locals, lanes, world, late>>

\* study.run refuses a task whose revocation has been published.
EnterStudy ==
  /\ pc = "study"
  /\ Goto(IF Revoked THEN "outer" ELSE IF state.epoch THEN "invoke" ELSE "epoch")
  /\ UNCHANGED <<disk, state, locals, lanes, world, late>>

AdmitEpoch ==
  /\ pc = "epoch"
  /\ state' = [state EXCEPT !.epoch = TRUE, !.status = "running"]
  /\ plan' = "admitted"
  /\ Goto("invoke")
  /\ UNCHANGED <<control, torn, signal, locals, lanes, world, late>>

Invoke ==
  /\ pc = "invoke"
  /\ Record([state EXCEPT !.status = "running"])
  /\ Goto("drive")
  /\ UNCHANGED <<control, torn, signal, locals, lanes, world, late>>

-----------------------------------------------------------------------------
\* The rebuilt runtime goes through the batches; what earlier invocations have
\* decided, judged and committed is taken as it is.

NextPair   == state.prefix + 1
\* The first batch that is not committed, or the one after the last.
NextBatch  == Min({b \in Batches : b \notin state.committed} \cup {Max(Batches) + 1})
BatchOpen  == \E p \in PairsOf(NextBatch) : p > state.prefix
\* (Mutant: a batch that is entered again is asked again.)
AllOf(b)     == PairsOf(b)
Undecided(b) == PairsOf(b) \ Decided(state)

\* run_frozen_batch: reserve the frozen batch unless it is reserved already.
EnterBatch ==
  /\ pc = "drive" /\ state.parallel
  /\ BatchOpen /\ Undecided(NextBatch) # {}
  /\ IF NextBatch \in state.reserved
     THEN UNCHANGED <<state, plan>>
     ELSE Record([state EXCEPT !.reserved = @ \cup {NextBatch}, !.batch = NextBatch])
  /\ remaining' = Undecided(NextBatch)
  /\ pause' = FALSE
  /\ Goto("batch")
  /\ UNCHANGED <<control, torn, signal, at, lanes, world, late>>

InLane(p)  == lanes[p] # "idle"
Ready(p)   == lanes[p] \in Answers
FreeLanes  == Cardinality({p \in Pairs : InLane(p)}) < Inflight

\* A pair never tried goes in schedule order; a retry when its delay is over.
MayDispatch(p) ==
  /\ p \in remaining
  /\ state.pending = NoPair \/ p = state.pending
  /\ ~Tried(state, p) => \A q \in remaining : ~Tried(state, q) => p <= q

\* Every answer seen is drained before the gate of the next dispatch.
Gate(p) ==
  /\ pc = "batch"
  /\ \A q \in Pairs : ~Ready(q)
  /\ FreeLanes /\ state.status = "running" /\ ~pause
  /\ MayDispatch(p)
  /\ IF Revoked
     THEN pause' = TRUE /\ remaining' = {} /\ UNCHANGED <<pc, at>>
     ELSE at' = p /\ remaining' = remaining \ {p} /\ Goto("intent") /\ UNCHANGED pause
  /\ UNCHANGED <<disk, state, lanes, world, late>>

\* Only the intent of this pair may be recorded, and only then is it submitted.
Intent ==
  /\ pc \in {"intent", "dispatch"}
  /\ Record([state EXCEPT !.inflight = @ \cup {at}])
  /\ lanes' = [lanes EXCEPT ![at] = "queued"]
  /\ at' = NoPair
  /\ CountLate
  /\ Goto(IF pc = "intent" THEN "batch" ELSE "calling")
  /\ UNCHANGED <<control, torn, signal, remaining, pause, world>>

\* A worker, or in the sequential mode the driver itself, calls the provider.
Call(p) ==
  /\ lanes[p] = "queued"
  /\ lanes' = [lanes EXCEPT ![p] = "calling"]
  /\ calls' = [calls EXCEPT ![p] = @ + 1]
  /\ UNCHANGED <<disk, state, pc, locals, late, crashes>>

Answer(p) ==
  /\ lanes[p] = "calling"
  /\ \E answer \in Answers : lanes' = [lanes EXCEPT ![p] = answer]
  /\ UNCHANGED <<disk, state, pc, locals, world, late>>

\* The state after the answer of p has been recorded.
Noted(p) ==
  IF lanes[p] = "unknown" THEN Unresolved(state, p)
  ELSE Settled(state, p, Graded(state, p, lanes[p]))

\* What remains after that.  (Mutant: a stop empties nothing.)
RemainingRetries(p, s) ==
  IF Tried(s, p) /\ Last(s, p) = "retryable_failure" THEN remaining \cup {p} ELSE remaining
Remaining(p, s) ==
  IF s.status # "running" \/ pause THEN {}
  ELSE IF Last(s, p) = "retryable_failure" THEN remaining \cup {p}
  ELSE remaining

Drain(p) ==
  /\ pc = "batch" /\ Ready(p)
  /\ Record(Noted(p))
  /\ lanes' = [lanes EXCEPT ![p] = "idle"]
  /\ remaining' = Remaining(p, state')
  /\ UNCHANGED <<control, torn, signal, pc, at, pause, world, late>>

\* The loop ends when nothing remains and nothing is pending.  (Mutant: a hard
\* stop does not wait for the workers.)
DrainedOrStopped == remaining = {} /\ (state.status = "stopped" \/ \A p \in Pairs : ~InLane(p))
Drained          == remaining = {} /\ \A p \in Pairs : ~InLane(p)

EndBatch ==
  /\ pc = "batch"
  /\ Drained
  /\ Goto(IF pause THEN "caught"
          ELSE IF state.status = "stopped" THEN "outer"
          ELSE IF state.status # "running" \/ state.inflight # {} THEN "caught"
          ELSE "project")
  /\ lanes' = NoLanes
  /\ UNCHANGED <<disk, state, locals, world, late>>

-----------------------------------------------------------------------------
\* The pairs of a batch, one by one: reserved, decided, judged, realized and
\* settled.  In the parallel mode the decision is there already.

\* With nothing left to ask, the batch goes straight to its pairs.
EnterProjection ==
  /\ pc = "drive"
  /\ BatchOpen /\ (~state.parallel \/ Undecided(NextBatch) = {})
  /\ Goto("project")
  /\ UNCHANGED <<disk, state, locals, lanes, world, late>>

ReservePair ==
  /\ pc = "project" /\ BatchOpen
  /\ state.reservation = NoPair
  /\ Record([state EXCEPT !.reservation = NextPair])
  /\ UNCHANGED <<control, torn, signal, pc, locals, lanes, world, late>>

\* The sequential lane asks the gate before every attempt.
SequentialGate ==
  /\ pc = "project"
  /\ state.reservation # NoPair /\ state.reservation \notin Decided(state)
  /\ IF Revoked THEN Goto("caught") /\ UNCHANGED at
               ELSE Goto("dispatch") /\ at' = state.reservation
  /\ UNCHANGED <<disk, state, remaining, pause, lanes, world, late>>

SequentialAnswer ==
  /\ pc = "calling"
  /\ LET p == state.reservation
     IN  /\ Ready(p)
         /\ IF lanes[p] = "unknown"
            THEN Goto("caught") /\ UNCHANGED <<state, plan>>
            ELSE /\ Record(Noted(p))
                 /\ Goto(IF state'.status = "stopped" THEN "outer" ELSE "project")
  /\ lanes' = NoLanes
  /\ UNCHANGED <<control, torn, signal, locals, world, late>>

PersistJudgment ==
  /\ pc = "project"
  /\ state.reservation \in Decided(state) /\ ~state.judged
  /\ Record([state EXCEPT !.judged = TRUE])
  /\ UNCHANGED <<control, torn, signal, pc, locals, lanes, world, late>>

PersistRealized ==
  /\ pc = "project"
  /\ state.judged /\ ~state.realized
  /\ Record([state EXCEPT !.realized = TRUE])
  /\ UNCHANGED <<control, torn, signal, pc, locals, lanes, world, late>>

SettlePair ==
  /\ pc = "project" /\ state.realized
  /\ Record([state EXCEPT !.prefix = @ + 1, !.reservation = NoPair,
                          !.judged = FALSE, !.realized = FALSE])
  /\ UNCHANGED <<control, torn, signal, pc, locals, lanes, world, late>>

\* When the batch may be committed.  (Mutant: when its answers are there.)
AllAnswered == NextBatch \in Batches /\ Undecided(NextBatch) = {}
AllSettled  == NextBatch \in Batches /\ ~BatchOpen

CommitBatch ==
  /\ pc \in {"drive", "project"} /\ AllSettled
  /\ Record([state EXCEPT !.committed = @ \cup {NextBatch},
                          !.batch = IF @ = NextBatch THEN 0 ELSE @])
  /\ Goto("drive")
  /\ UNCHANGED <<control, torn, signal, locals, lanes, world, late>>

FinishEpoch ==
  /\ pc = "drive" /\ state.committed = Batches
  /\ Record([state EXCEPT !.status = "complete"])
  /\ Goto("outer")
  /\ UNCHANGED <<control, torn, signal, locals, lanes, world, late>>

-----------------------------------------------------------------------------
\* Leaving: by an exception, by the end of the model's work, or killed.

\* The runtime's handler believes only the chain: what was dispatched and not
\* settled needs reconciliation, anything else may be resumed.
Caught ==
  /\ pc = "caught"
  /\ IF state.status = "running"
     THEN Record([state EXCEPT !.status =
                    IF state.inflight # {} THEN "reconciliation_required" ELSE "paused"])
     ELSE UNCHANGED <<state, plan>>
  /\ lanes' = NoLanes
  /\ Goto("outer")
  /\ UNCHANGED <<control, torn, signal, locals, world, late>>

Outer ==
  /\ pc = "outer"
  /\ ObserveRevocation
  /\ Goto("down")
  /\ UNCHANGED <<control, torn, signal, locals, lanes, world, late>>

InRuntime == {"invoke", "drive", "project", "dispatch", "calling"}
InStudy   == {"loop", "precheck", "check", "checking", "observe", "derive", "study", "epoch"}

\* An exception or an interrupt anywhere in the driver.  Out of the pool it
\* waits for the workers first, whose answers nobody reads any more.
Interrupt ==
  /\ crashes < MaxCrashes
  /\ \/ pc \in {"batch", "intent"} /\ Goto("unwind") /\ UNCHANGED lanes
     \/ pc \in InRuntime /\ Goto("caught") /\ lanes' = NoLanes
     \/ pc \in InStudy /\ Goto("outer") /\ UNCHANGED lanes
  /\ crashes' = crashes + 1
  /\ at' = NoPair /\ remaining' = {} /\ pause' = FALSE
  /\ UNCHANGED <<disk, state, calls, late>>

Unwind ==
  /\ pc = "unwind"
  /\ \A p \in Pairs : InLane(p) => Ready(p)
  /\ lanes' = NoLanes
  /\ Goto("caught")
  /\ UNCHANGED <<disk, state, locals, world, late>>

\* A kill may cut an event, its HEAD or a plan short.
Crash ==
  /\ pc # "down" /\ crashes < MaxCrashes
  /\ crashes' = crashes + 1
  /\ IF control = "open" THEN torn' \in BOOLEAN ELSE UNCHANGED torn
  /\ plan' = IF pc = "derive" /\ plan = "none" /\ torn' THEN "orphan" ELSE plan
  /\ at' = NoPair /\ remaining' = {} /\ pause' = FALSE
  /\ lanes' = NoLanes
  /\ Goto("down")
  /\ UNCHANGED <<control, signal, state, calls, late>>

-----------------------------------------------------------------------------
\* What the operator may do beside: revoke at any moment, and extend a task
\* that is at rest, under the source lock.

Revoke ==
  /\ ~signal
  /\ signal' = TRUE
  /\ UNCHANGED <<control, torn, plan, state, pc, locals, lanes, world, late>>

NothingOpen == state.inflight = {} /\ state.unknown = {} /\ state.reservation = NoPair

\* accept_recovery_task_parallelism.
AcceptParallel ==
  /\ pc = "down" /\ Readable /\ ~signal
  /\ ~state.parallel /\ ~state.revoked
  /\ state.status = "paused" /\ state.epoch /\ state.check = "succeeded"
  /\ NothingOpen
  /\ state.prefix % BatchSize = 0
  /\ Record([state EXCEPT !.parallel = TRUE])
  /\ UNCHANGED <<control, torn, signal, pc, locals, lanes, world, late>>

\* accept_recovery_task_quota_retry: once, and for nothing but a quota.
QuotaTerms ==
  /\ state.status = "stopped" /\ state.approved = {} /\ ~state.revoked
  /\ state.parallel /\ state.batch # 0
  /\ NothingOpen
  /\ Cardinality(HardFailed(state)) \in 1 .. 4
  /\ \A p \in HardFailed(state) :
       /\ Last(state, p) = "quota_exhausted"
       /\ Len(state.attempts[p]) < MaxAttempts
       /\ BatchOf(p) = state.batch

AcceptQuotaRetry ==
  /\ pc = "down" /\ Readable /\ ~signal
  /\ QuotaTerms
  /\ Record([state EXCEPT !.status = "paused",
                          !.approved = {<<p, Len(state.attempts[p])>> : p \in HardFailed(state)},
                          !.pending = Min(HardFailed(state))])
  /\ UNCHANGED <<control, torn, signal, pc, locals, lanes, world, late>>

-----------------------------------------------------------------------------
Driver ==
  \/ Start \/ Claim \/ AdmitTask \/ Loop \/ CheckGate \/ CheckIntent \/ CheckAnswer
  \/ Observe \/ DerivePlan \/ EnterStudy \/ AdmitEpoch \/ Invoke
  \/ EnterBatch \/ (\E p \in Pairs : Gate(p)) \/ Intent
  \/ (\E p \in Pairs : Drain(p)) \/ EndBatch
  \/ EnterProjection \/ ReservePair \/ SequentialGate \/ SequentialAnswer
  \/ PersistJudgment \/ PersistRealized \/ SettlePair \/ CommitBatch \/ FinishEpoch
  \/ Caught \/ Unwind \/ Outer

Next ==
  \/ Driver
  \/ \E p \in Pairs : Call(p) \/ Answer(p)
  \/ Interrupt \/ Crash
  \/ Revoke \/ AcceptParallel \/ AcceptQuotaRetry

Spec == Init /\ [][Next]_vars

\* A driver that runs goes on, and a provider call ends, if only in a timeout.
FairSpec ==
  /\ Spec
  /\ WF_vars(pc # "down" /\ Driver)
  /\ \A p \in Pairs : WF_vars(Call(p)) /\ WF_vars(Answer(p))

-----------------------------------------------------------------------------
Statuses == {"ready", "running", "paused", "stopped", "reconciliation_required", "complete"}

Recordable == Outcomes \cup {"attempts_exhausted"}

\* CampaignProgress, as a set.
Progress ==
  [task : BOOLEAN, revoked : BOOLEAN, status : Statuses,
   check : {"none", "intent", "succeeded", "failed"},
   epoch : BOOLEAN, parallel : BOOLEAN, approved : SUBSET (Pairs \X Nat),
   pending : Pairs \cup {NoPair}, batch : Batches \cup {0}, reserved : SUBSET Batches,
   inflight : SUBSET Pairs, unknown : SUBSET Pairs, attempts : [Pairs -> Seq(Recordable)],
   reservation : Pairs \cup {NoPair}, judged : BOOLEAN, realized : BOOLEAN,
   prefix : 0 .. PerCell, committed : SUBSET Batches]

\* Types of the progress and of what the driver and the workers keep.
TypeOK ==
  /\ state \in Progress /\ signal \in BOOLEAN
  /\ at \in Pairs \cup {NoPair} /\ remaining \subseteq Pairs /\ pause \in BOOLEAN
  /\ lanes \in [Pairs -> {"idle", "queued", "calling"} \cup Answers]
  /\ calls \in [Pairs -> Nat] /\ late \in Nat /\ crashes \in Nat

\* However a revocation interleaves with the driver, the workers, crashes and
\* restarts, at most one dispatch is recorded after it was published: the one
\* that had passed its gate.
RevocationStopsDispatch == late <= 1

\* No pair is called before every earlier batch has been settled and committed,
\* in whatever mode and invocation each of them was worked on.
BatchBarrier ==
  \A p \in Pairs : calls[p] > 0 =>
    /\ \A b \in Batches : b < BatchOf(p) => b \in state.committed
    /\ (BatchOf(p) - 1) * BatchSize <= state.prefix

Unapproved(s) == {p \in HardFailed(s) : <<p, Len(s.attempts[p])>> \notin s.approved}
Dispatchable(p) ==
  /\ Unapproved(state) = {} /\ state.unknown = {}
  /\ state.pending # NoPair => p = state.pending /\ state.inflight = {}
Recorded(p) ==
  \/ p \in state.inflight \ state'.inflight
  \/ p \in state'.unknown
  \/ pc = "calling" /\ lanes[p] = "unknown"

Holds(p)  == p \in state'.inflight \ state.inflight => Dispatchable(p)
Drains(p) ==
  InLane(p) /\ lanes'[p] = "idle" => Recorded(p) \/ pc = "unwind" \/ crashes' > crashes

\* After a hard failure or an unknown dispatch nothing is dispatched any more,
\* except on the operator's one approval of exactly these failures, and then one
\* pair alone until it has succeeded.  What is in a lane by then is still recorded:
\* only a kill or an exception loses an answer.
StopDrainsAndHolds == [][\A p \in Pairs : Holds(p) /\ Drains(p)]_vars

\* A task whose writes all completed can be read again, revoked or not: its
\* status is what the operator asks for after a revocation.
CompleteHistoryReads == control = "open" /\ ~torn => Readable

\* A driver that was started comes to rest, whatever its calls answer.
DriverRests == pc # "down" ~> pc = "down"

\* The chain keeps the promise of an attempt ledger.
Ledger == INSTANCE AttemptLedger WITH
  charged   <- [p \in Pairs |->
                  Len(state.attempts[p]) + (IF p \in state.inflight THEN 1 ELSE 0)],
  called    <- calls,
  settled   <- [p \in Pairs |-> Len(state.attempts[p])],
  succeeded <- Decided(state)
KeepsAttemptPromise == Ledger!Spec
=============================================================================
