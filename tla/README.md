# Verification of the LLM marketing-campaign simulator

The repository simulates marketing campaigns over a social graph: each batch
delivers messages to users, a provider (an LLM) judges every delivered pair, and
the positive judgments feed back into the ranking of the next batch. A run costs
real provider calls and takes hours, so the code around the simulation is a set
of durable protocols: journals written ahead of the calls, replays that rebuild
a run from them, batch barriers, call budgets, staged outputs, operators who
start, stop and revoke. These protocols are what this project models,
model-checks and proves things about. Source paths below are relative to
`src/src/llm_abm_sim/`.

## Inventory

| Component | State | Operations | Correct when | Status |
| --- | --- | --- | --- | --- |
| Concurrent runtime (`concurrent_execution_journal.py`, `_concurrent_runtime_spool.py`, kernel and runner in `concurrent_message_experiment.py`) | lock, identity, journal, plan snapshots, chunk spool, staging, output; kernel counters | open, resume, replay, plan, start / judge / close a pair, commit a batch in three writes, finalize, publish | every resume closes, feedback crosses a batch barrier only after its commit, no commit is lost, nothing happens twice, a published output is complete | partly |
| Durable pair settlement (`durable_pair_settlement.py`) | settlement journal, legacy ledger, adapter threads and their counters | reserve a wave, dispatch, settle in completion order, close, seal an interrupted wave | a pair is dispatched once, its outcome is its own, the charge covers the calls | modelled |
| Strict full-pool replay (`full_pool_strict_replay.py`) | policy ledger, two kinds of settlement journals, runtime journal, source-v4 | settle a batch, reconcile once, stop, commit, complete, close the source | the cap holds, only successes commit, a run ends and stays ended | partly |
| Full-pool formal experiment (`full_pool_formal_experiment.py`) | attempt ledger and status beside the runtime's journal, source | reserve, call, account, settle, stop at the cap, reconcile, close | every call is paid for, a terminal is never asked for again, a run can go on | partly |
| Full-pool segmented continuation (`full_pool_segmented_continuation.py`) | settlement journal, canonical ledger, status, source-v2 | settle waves, commit batches, stop at the cap, report after a kill | batches are whole, the status accounts for every call | partly |
| Recovery parallel runtime and campaign journal (`_concurrent_recovery_*`) | one chain of events, the lanes of a batch | self-check, frozen batches, bounded retries, hard stop, drain | nothing is called after a stop or a revocation, no answer is lost or bought twice | partly |
| Recovery task and execution (`concurrent_robustness_recovery_task.py`, `..._execution.py`) | claimed scope, epoch plans, revocation file | claim, admit, derive a plan, run, revoke, accept extensions | a revocation holds, the task's history stays readable | partly |
| Recovery repairs of single models | the same chain | the quota retry; one-off amendments | an approval admits what it names | partly |
| Robustness study v2 (`concurrent_robustness_v2.py`) | a pair ledger and a runtime journal per cell, status, checkpoints | reserve, attempt, retry, realize, settle, reconcile, publish | the journals agree, the schedule is serial, the status never leads | partly |
| Parameter study and collection (`_parameter_*.py`) | attempt ledger, judgment bank, closure, paths, report | prepare, authorize, collect in parallel, drain, resume, close, draw paths | a ledger that parses reads, a judgment is bought once, budgets hold | modelled |
| Agent-based simulation (`model.py`, `environment.py`, `agent.py`, ...) | agents, graph, exposures, records | seed, the turns of a step, expose neighbours, record, summarise | a step uses the previous step's exposures, the summary tells the events | partly |
| Provider adapters and accounting (`providers/`) | a worker process and its pipes, attempt counters | ask, read with a timeout, discard, restart, close | an answer belongs to its question, every call is counted | partly |
| Recovery replay, v2 evidence, v1 study and plans, strict operator, segmented recovery, full-pool sources, web service, report deployment, retention, data collection, reports and releases, scripts | see "Not modelled" | | | not modelled |

The components, with their files, are listed in `PROJECT.json`.

**Interactions.** The strict replay drives the concurrent runtime's kernel and
journal for planning and committing, and a durable settlement for the calls in
between; each reconciliation has a settlement of its own. The segmented
continuation uses the same settlement with a legacy event sink. The formal
experiment hangs its guard into the runtime's loop; the study v2 keeps a pair
ledger beside the runtime journal of each cell; a recovery task carries on from
such a study with a chain of its own. All of them are libraries in one process:
they interact by calls and by the files that one process leaves for the next.
Threads run only inside a settlement wave, a recovery batch or a collection, and
hand their results to the one thread that writes; the subscription provider is a
child process behind two pipes; a revocation is a file that another process may
publish at any moment.

**Hard behaviours.** A process death between any two writes, inside a write, or
inside the recovery from an earlier death; completion order against canonical
order; answers that were paid for and lost; a charge kept in memory that must
equal what the disk says later; two journals of one fact, written one after the
other; a revocation between a check and the act it allows; a worker's late answer
to a question that was given up; restarts of a run that has already ended.
`PROJECT.json` lists them as hazards, each at its line.

## Modules

| Module | Models |
| --- | --- |
| `CampaignData` | messages, pairs, plans and answers: the values the runtime works on |
| `CampaignFeedback` | abstract: batches are committed in order, each planned with the feedback of the earlier ones, then the campaign is published |
| `ConcurrentRuntime` | the durable run of a campaign |
| `PairSettlement` | abstract: each pair is dispatched once, called while dispatched, settled once with a covering charge |
| `DurablePairSettlement` | waves, threads, the write-ahead journal, its replay and sealing |
| `StrictReplay` | the strict replay, over settlements at the grain of `PairSettlement` |
| `FormalGuard` | a formal full-pool run and its attempt guard |
| `SegmentedContinuation` | the continuation of a frozen prefix |
| `AttemptLedger` | abstract: an attempt is charged before its call, called once, and a pair is not charged again while one is open, after a success, or beyond the limit |
| `RobustnessStudy` | the v2 study: pair ledgers, runtime journals, status, checkpoints |
| `RecoveryCampaign` | a recovery task: chain, driver, lanes, revocation, extensions |
| `ParameterCollection` | the parameter study from the prepared bank to the report |
| `SubscriptionClient` | the subscription adapter, its client, and the worker process |
| `DiffusionWaves` | abstract: a post spreads in waves over a network |
| `Simulation` | the agent-based simulation, turn by turn |
| `SumOver`, `InOrder` | the sum of a function's values over a finite set; the members of a finite set of numbers in their order |
| `ConcurrentRuntimeProofs`, `StrictReplayProofs`, `SegmentedContinuationProofs`, `RecoveryCampaignProofs` | theorems about the module of that name |
| `SettlementProofs` | theorems about `DurablePairSettlement` and `FormalGuard`, which settle pairs one wave and one pair at a time |
| `StudyProofs` | theorems about `RobustnessStudy` and `ParameterCollection`, the studies that keep attempt ledgers |
| `DecisionProofs` | theorems about `SubscriptionClient` and `Simulation`, where decisions come from and what they do |
| `FiniteLemmas` | facts about minima, finite sets, sums and orders |
| `MC...` | the instances TLC checks |

What refines what: `ConcurrentRuntime` implements `CampaignFeedback`;
`DurablePairSettlement`, `StrictReplay` and `FormalGuard` implement
`PairSettlement`; `RobustnessStudy`, `RecoveryCampaign` and `ParameterCollection`
implement `AttemptLedger`; `Simulation` implements `DiffusionWaves`. A module that
is built over another component takes it at the grain of its abstract
specification, or of what its reader makes of its files. Where the theorems about two
components share a module, what both call by one name has the component's name in it in
one of them: `GuardInit` and `runJournal` in `FormalGuard`, `CollectionInit` and
`attemptLedger` in `ParameterCollection`, `ClientInit` in `SubscriptionClient`.

### ConcurrentRuntime

`workspace`, `snapshots`, `journal`, `text`, `pending`, `spool`, `staging` and
`output` are the disk. `journal` holds the records with the contents that the
code hashes: a digest of some content is modelled by the content. `text` says
how the file's last line ends, since a line and its newline are two writes.
`k` is the kernel's state, `rp` what a replay has rebuilt after `cur` records,
`judged` an answer that is not yet durable, `live` the adapters that this process
has called. `Accepts` is the reader's order and cross-checks, `Apply` what it
makes of a record; the same `Apply` pieces are what the writer does to `k`, as in
the code both must agree.

One action is one write or one step between writes: `OpenNew`,
`WriteIdentity`, `AppendRunStarted`, `Resume`; `ReplayRecord`, `FinishReplay`,
`RecoverPrepared`, `RestoreKernel`; `WritePlan`, `AppendPlan`, `StartVariant`,
`ExecuteVariant`, `RegisterTerminal`, `ClosePair`; `PrepareChunk`,
`AppendCommit`, `PublishChunk`; `ReplayBeforeFinalizing`, `AdoptOutput`,
`BeginStaging`, `CloseStaging`, `AppendFinalized`, `RenameStaging`,
`AppendPublished`; and `Crash`, `TearChunk`, `RaiseError`. Whatever the code
refuses is `RaiseError`, which leads to `"rejected"`: that no behaviour gets
there unless half of a write was left is `EveryReplayCloses`.

Abstracted: ranking (any admissible plan may be chosen, but the same one again
for the same snapshot, since planning is deterministic), report contents and
their rebuild when a published run is resumed (no change), the derived status
file, the checksum chain (by content). An empty journal file is not a state of
its own. A run of the Primary-only contract ends without publishing, as its
consumer keeps the workspace private.

### DurablePairSettlement

`journal` and `legacy` are the disk; `known` and `waves` are what the last
replay or closed wave left in memory (`_replay`), `wave`, `done`, `sent` the wave
in flight; `lanes` and `made` the threads and adapter counters; `attempts` and
`answers` what really happened in the world, for the properties only.
`settle_wave` is `ReserveWave`, `AnnounceWave`, then `DispatchPair` and
`SubmitPair` for each pair, `SettlePair` for whichever future completes, then
`AppendLegacy` and `CloseWave`; threads make `Call` and `Answer` steps in between.
`OverrunWindow` is the exception for too many calls, after which the executor
waits for its other threads (`EndRun`). `Replay`, `SealPair` and `SealWave` are
`replay(seal_inflight=True)`. The reader is `Accepts`, which recomputes the closing
summary. The event sink is always connected (without it `legacy` is merely not
there); callers pass waves in schedule order, the next after a replay being any
offered wave of pairs that were never dispatched. Torn lines are not modelled here.

### StrictReplay

`main` and `recon` are the two kinds of settlement journals, by pair; `policy` the
ledger; `committed` the runtime journal at the grain of batches; `source` the
source-v4 directory; `charged` the accounting in memory. The walk of
`_settle_strict_batch` is one action per outcome met at `cursor`: `PassSuccess`,
`StopOnFailure`, `ReserveWave` and what follows for a pair without outcome,
`PassResolved`, `BeginReconciliation`, `StopOnLostReconciliation` and
`CloseReconciliation` for a provisional one; then `CommitBatch`, `Complete`,
`Finish`, `CloseSource`. `Start`, `Seal` and `Opened` are the opening of a workspace that
exists: the run is modelled from the moment its files are there. Cross-checks
that raise lead to `"raised"`. The logical cap equals the number of scheduled
pairs, as the result check demands; every terminal is taken to carry the response
evidence that source-v4 needs, and adapters to count at least one call per answer
(`_validate_dispatch_accounting` refuses any other, for good).

### FormalGuard

`runJournal` is the runtime's journal as far as the guard sees it (a pair is
untouched, started or terminal), `ledger` what a replay of the attempt ledger
gives, `status` and `source` the guard's own files. `Before`, `MarkReserved`,
`StartPair`, `CallAdapter`, `RegisterTerminal`, `AccountAttempt`, `SettleJudgment` and
`WriteRunning` are one judgment in the order of its writes; `StopAtCap`,
`LoseAnswer`, `RefuseAnswer`, `MarkInterrupted` its other ends; `Resume`,
`OpenExisting` and `Reconcile` the next process, `Refused` what it does not take;
`ReadyToClose`, `Stage`, `Publish` and `FailClosure` the closing of the source.

### SegmentedContinuation

`journal` is what the settlement journal has last said of each pair, `ledger` what
the reader of the canonical ledger counts, `source` the closing of source-v2 by a
staged directory, an anchor and a rename. The first process dispatches (`Begin` to
`Complete`, `Tell...` the events of the legacy sink); a kill or an exception (`Fail`,
`Handle`, `Escape`) ends it, and whoever comes later is the loader: `Load`,
`SealPair`, `SealWave`, `ReportWaves`, `RebuildStatus`. `StatusAccepted` is the check by
which the loader takes a status or refuses it.

### RobustnessStudy

Per cell `scope` (how far its directory was made), `ledger` and `evidence` (the pair
ledger) and `runtime` (what its runtime journal amounts to); `root`, `status`,
`workspace` and `published` for the study. `Openable` is what the opener takes.
`Dispatch`, `Call` and the outcomes `Succeed`, `FailRetryable`, `FailForGood`,
`FailUnknown`, then `Realize`, `Register`, `Close`, `Settle`, `CommitBatch` are one pair
and its batch; `Resume`, `Sync` and `Reconcile` bring ledger and journal together after a
kill; `Checkpoint`, `StageExecution`, `Publish` and `CloseStudy` end a model and the study.

### RecoveryCampaign

`state` is `CampaignProgress`, the replay of the chain up to its HEAD, which is also
what the process has in memory: `append` validates, publishes, then applies. `signal` is
the revocation file, `plan` the derived epoch plan, `torn` an append or HEAD cut short.
`Claim`, `AdmitTask`, `CheckGate` ... `CheckAnswer`, `DerivePlan`, `EnterStudy`,
`AdmitEpoch` and `Invoke` start an epoch; `EnterBatch`, `Gate`, `Intent`, `Call`, `Answer`
and `Drain` are a parallel batch, `SequentialGate` and what follows the sequential lane;
`ReservePair` to `CommitBatch` the projection into the runtime. `Caught`, `Outer` and
`Unwind` are the exception handlers, `Interrupt` and `Crash` the ends nobody wrote a test
for. `AcceptParallel` and `AcceptQuotaRetry` are the two extensions of a task at rest;
`QuotaTerms` is what the second one requires. One model with one cell: several of them
are worked on one after another, as in `RobustnessStudy`.

### ParameterCollection

`attemptLedger` is `attempts.jsonl` as `_state` and `validate_collection` read it; `jobs` the
intents in flight; `done` what the last `wait` observed; `queue` and `retry` the pairs to be
sent, in the order of the prepared bank (`InOrder`). `Qualify` and its settlement come
first, then `Fill`, `Execute`, `Wait`, `SettleIntent`,
`Requeue` and, after a failure, the drain; `PublishBank`, `PublishClosure`, `StartPaths`,
`PublishPath` and `CloseReport` are the later commands. `EvidenceAccepts` recomputes a
closure from the evidence, as the code does before it draws a path from it.

Two things are kept that are easily left out. `authorized` may become true at any time
(`Authorize`), and a closure records whether it was (`authorization`, the hash in the
code): the evidence compares it with the authorization there is by then. A closure made
before the authorization is therefore refused after it (`ClosedAsAuthorized` fails), can be
made again by another `Collect`, and, when paths were begun over the first one, crosses
their `study.json` for good (`Superseded`). And `ledgerText` says how the file ends: a kill
inside an append leaves part of the line ("corrupt"), or all of it but the newline
("bare"), which reads as if it were whole; the next append is glued to it (`Glued`), the
process that made it goes on from what it has in memory, and the next one cannot read
the file. The paths and the report have one output directory.

### SubscriptionClient

The adapter (`Decide`, `Ask`), the client (`StartWorker`, `Send`, `ReadResponse`,
`ReadNothing`, `Discard`, `Close`) and the worker (`Request`, `Respond`, `Refuse`,
`Chatter`, `Die`) with `inbox` and `outbox` between them. A response carries the id of
its command; what the client cannot match makes it discard the worker.

`outbox` holds whole lines, `begun` a line without its end (`Begin`): "pipe" when there is
something of it to read, "taken" when the client's buffer has all there is. The client's
timer is that of `select`, which waits for something to read; `readline` after it waits for
the end of the line without a limit. So the client times out on an empty pipe, and on a
beginning that it took with an earlier line, but not on one in the pipe (`TimedOut`); in
`Blocked` it waits until the worker ends the line or dies. What ends a line that was begun
by something else, or lost its beginning to an interrupt, is no response (`Noise`).

### Simulation

`SeedExposure`, then for each step `BeginStep`, one of `PassOver`, `Ignore`, `Engage` per
agent in the order of ids, `UpdateExposure` and `Record`; `Summarise` at the end, `Raise`
where a decision cannot be had. Scores and draws are left open: an exposed agent may take
any action, a candidate may be reached or not.

## Runs

| Run | Instance | Shows |
| --- | --- | --- |
| `RuntimePaired` | 2 users, 1 message, 1 delivery a batch, 2 batches, Primary and Shadow, 2 crashes, each between two writes or leaving a torn line, a line without newline or a torn chunk | safety, publication at last, refinement of `CampaignFeedback` |
| `Settlement` | 2 pairs, waves of one or both, window 1, up to 2 calls each, 1 crash | settlement, sealing, refinement of `PairSettlement` |
| `StrictReplay` | batches of 2 and 1 pairs, 2 lanes, window 2, cap 8, 2 crashes | cap, barrier, accounting, termination, refinement of `PairSettlement` |
| `Formal` | 3 pairs of up to 3 attempts, caps of 3 judgments and 7 attempts, 3 kills or failed closures | the ledger covers the calls, the run ends, refinement of `PairSettlement` |
| `FormalReopen` | 2 pairs | finding: an interruption after a terminal may leave a workspace that no resume opens |
| `Continuation` | batches of 3 and 2 pairs, 2 lanes, window 2, cap 11, every kind of prefix, 2 kills or exceptions | the status covers the calls and reloads, whole batches, a report at last |
| `Study` | 2 models of 2 cells, 2 batches of one pair each, 2 attempts, 2 kills | the journals agree, serial schedule, termination, refinement of `AttemptLedger` |
| `Campaign` | 2 batches of 2 pairs, 2 attempts, 2 lanes, a revocation, both extensions, 2 kills or interrupts | revocation, barrier, hard stop and drain, rest, refinement of `AttemptLedger` |
| `CampaignRevocation` | 1 batch of 2 pairs | finding: a revocation between the plan and its admission leaves a history that cannot be read |
| `Collection` | 3 missing pairs, 2 transports, 3 attempts a pair and 2 retries in all, 2 paths, 2 kills, 2 reruns | a ledger that parses reads, closures recompute under their authorization, rest, refinement of `AttemptLedger` |
| `Subscription` | 2 decisions of up to 2 attempts, 3 workers, 2 faults of a worker, 1 interrupt | answers belong to their questions, calls are accounted for, decisions end unless a live worker never ends a line |
| `Diffusion` | every directed network of 3 users, any seeds, 3 steps | the summary tells the events, refinement of `DiffusionWaves` |

**Bounds.** Two batches are the least with a barrier between them, and the
second batch has both a predecessor to take feedback from and a resume that must
rebuild it; two users with capacity one make the batches compete. Two crashes
let the recovery from a death be interrupted itself; `Formal` has three, since the
third can meet what a reconciliation wrote. In `Settlement`, two pairs
suffice for completion order to differ from canonical order; the window of one
with a limit of two calls makes an overrun happen. In `StrictReplay`
the cap of 8 leaves, beside the three windows of two calls, room for exactly one
full reconciliation, so both sides of every cap test happen; the caps of `Formal` and
`Continuation` are likewise reached in some behaviours and not in others. Two models
of two cells are the least in which a checkpoint of a model and the change of a cell
inside one both happen. In `Campaign` two lanes let one stop while the other still has
a call, and the second batch can be entered in another mode than the first. In
`Collection` two retries for three pairs make both the pair's and the common budget
bind; of the two kills one can leave a line without its newline and the other meet what
was glued to it, and the reruns leave room for a closure made again after the
authorization. In `Subscription` the second decision can meet what the first one left in the
pipe, whole lines and a beginning; a line is begun and ended any number of times, at no
cost in faults. Three users give a path of two hops and a network with two ways to one user.
`MaxCrashes`, `MaxFailures`, `MaxKills`, `MaxReruns`, `MaxFaults`, `MaxInterrupts`,
`MaxWorkers` and `AttemptLimit` are bounds that the code does not have; the rest are its
own parameters, made small. No symmetry is used: plans are sequences and the liveness
properties rule it out. Where a run says `CHECK_DEADLOCK FALSE`, the system really
stops: at its end, at a stop for good, or refused.

**Properties.**

- *Readers and writers agree.* `EveryReplayCloses`, `EveryReplayReads`, `LedgerHolds`,
  `ReloadsItsStatus` and `AccountingHolds` (its `NeverRaises`) say that the code's own
  cross-checks never fire on what the code itself left, whatever the interruption.
- *The experiment is valid.* `FeedbackBarrier` (a batch is planned with committed,
  earlier feedback only), `BatchBarrier`, `WholeBatchesOnly`, `SerialSchedule`,
  `CompletionHolds`, and `SummaryTellsEvents` with `GoesInWaves` for the simulation.
- *Exactly once.* `NothingTwice`, `NoCommitLost`, `LedgersTellAnswers`, `FrozenOnceEnded`,
  `JournalsAgree`, and the three promises: `KeepsFeedbackPromise`;
  `KeepsSettlementPromise` and `GuardKeepsPromise`; `KeepsAttemptPromise` and
  `KeepsCollectionPromise`.
- *Money.* `AccountingHolds`, `CompletionHolds`, `LedgerCoversCalls`, `StatusCoversCalls`,
  `StatusNeverLeads` and `CallsAccounted` are about the calls really made (`calls`,
  `callsMade`, `attempts`), not those the code believes in.
- *Stops hold.* `RevocationStopsDispatch`, `StopDrainsAndHolds`, `FrozenOnceEnded`.
- *Ends.* `PublishedIsComplete`, and the liveness properties `StartedIsPublished`,
  `DispatchedIsSettled`, `RunEnds`, `StudyEnds`, `StudyRests`, `DriverRests`,
  `WavesAreReported`, `DecisionsEnd`.

**What is deliberately not claimed.** The code refuses some workspaces for good, and
the properties say so where they except them. Half of a write (a torn or newline-less
journal line, a prepared chunk without its content) blocks every resume:
`EveryReplayCloses` and `StartedIsPublished` except it, the safety properties do not. A
death between the lock or the identity and `run_started` leaves a workspace that cannot
be opened either way; nothing has been called by then. Temporary and staging files are
left behind by kills; a staging directory of the formal closure, a locked cell of a
study or a begun report of the parameter study stops its run (`RunEnds`, `StudyEnds` and
`StudyRests` name these cases). `sampling_status` of a resumed run is computed from the adapters
of the process that finishes, and may differ from what an uninterrupted run publishes:
only the presence of the output is checked. The status of a continuation that ended
for want of an authorization names an unknown pair of the prefix, and its own loader
refuses it: `ReloadsItsStatus` excepts it. `LedgersTellAnswers` is one-directional for the legacy
ledger: the code writes it before `wave_closed` and never when sealing, so it may lag
behind for good. The nominal cost of the subscription client stays a number when an
interrupt loses a call: `CallsAccounted` excepts exactly those calls. A decision does not
end while a live worker leaves a line begun: `DecisionsEnd` excepts that state, `Blocked`,
if it lasts for ever, and no other behaviour of a worker. A collection is refused for good
by a ledger that does not parse, and its paths by an authorization that was written after
they were begun: `LedgerHolds` is about ledgers that parse and about closures made under
the authorization there is, and `StudyRests` names both ends. The Primary-only
contract and competing messages are in the model and covered by the theorems; the
run instance is the paired contract with one message.

**Fairness.** A process goes on while it can (weak fairness of its steps, as one
action or part by part), a provider call ends because its adapter has a timeout and
bounded retries (`Call` and `Answer` of the lanes, the settlement's threads, the
transports), the timer of the subscription client's `select` fires while nothing at all is
assumed of its worker (where settlements and transports are driven through that client,
their fairness leaves its `Blocked` worker out), and the operator starts a dead process again, which is how the code is meant to
be used; nothing makes a process die, an operator revoke, or an extension be accepted.
`DriverRests` needs no operator: a driver that was started comes to rest by itself.
`StartedIsPublished` begins with the first journal record, for the reason above, and is
about the paired contract, the only one that publishes. The simulation needs no
fairness: it claims safety only.

**Findings.** Two, each shown by a run that fails as described in `PROJECT.json`.
(1) `CampaignRevocation`: a revocation published after an epoch plan was derived and
before its epoch was admitted leaves the plan an orphan; every later `inspect`, `status`
and `run` of the task raises, although the architecture document promises a read-only
status of a revoked task. (2) `FormalReopen`: a process killed after a terminal of the
attempt ledger and before the status file, or between the rows of an attempt and its
terminal, leaves a workspace that every later resume refuses, although the architecture
document promises that an interruption after a terminal can be resumed.

Every property has a mutant: a plausible bug in a mapped definition (kept next to
it, marked as a mutant) that makes TLC find the property violated.

## Proofs

All theorems are checked by TLAPS to the last leaf. They hold for every value of the
constants that the named assumptions of the modules allow; nothing else is assumed.
Each proof module defines an inductive invariant, proves that `Init` implies it and
that each action keeps it (one lemma per action or group of actions), and
derives the properties from it. TLC checked the invariants on the runs' instances first.

| Module | Theorem | Property |
| --- | --- | --- |
| `ConcurrentRuntimeProofs` | `InvariantHolds`, `TypeCorrect`, `BarrierHolds`, `PublishedComplete` | `TypeOK`, `FeedbackBarrier`, `PublishedIsComplete` |
| | `ReadInvariant`, `NoResumeRaises`, `DeliveredOnce`, `CommitsKept`, `KeepsThePromise` | `EveryReplayCloses`, `NothingTwice`, `NoCommitLost`, `KeepsFeedbackPromise` |
| `StrictReplayProofs` | `InvariantHolds`, `ReconciledOnce`, `BarrierHolds`, `EndIsFrozen`, `SettlementsAreKept` | parts of the two properties below; `FrozenOnceEnded`, `KeepsSettlementPromise` |
| | `AccountInvariant`, `UnderTheCap`, `CompletionIsTrue` | `AccountingHolds`, `CompletionHolds` |
| `SettlementProofs` | `DurableInductive`, `ReplaysAlwaysRead`, `LedgersAlwaysTell`, `SettlementKeepsPromise` | `EveryReplayReads`, `LedgersTellAnswers`, `KeepsSettlementPromise` |
| | `InvariantHolds`, `LedgerCovers`, `OnePairInFlight`, `SettlementKept` | `LedgerCoversCalls`, `GuardKeepsPromise` |
| `SegmentedContinuationProofs` | `InvariantHolds`, `BatchesAreWhole` | `WholeBatchesOnly` |
| | `AccountsHold`, `CallsAreCovered`, `StatusReloads` | `StatusCoversCalls`, `ReloadsItsStatus` |
| `StudyProofs` | `InvariantHolds`, `JournalsNeverDisagree`, `CalledInOrder`, `AttemptsAreKept`, `StatusIsTrue` | `JournalsAgree`, `SerialSchedule`, `KeepsAttemptPromise`, `StatusNeverLeads` |
| | `CollectionInductive`, `LedgerAlwaysHolds`, `CollectionKeepsPromise` | `LedgerHolds`, `KeepsCollectionPromise` |
| `RecoveryCampaignProofs` | `InvariantHolds`, `RevocationHolds`, `BarrierHolds`, `StopHolds`, `AttemptsAreKept` | `RevocationStopsDispatch`, `BatchBarrier`, `StopDrainsAndHolds`, `KeepsAttemptPromise` |
| `DecisionProofs` | `InvariantHolds`, `DiffusesInWaves` | `GoesInWaves` |
| | `TallyHolds`, `SummaryIsTrue` | `SummaryTellsEvents` |
| | `ClientInductive`, `CallsAlwaysAccounted` | `CallsAccounted` |

**Sums and counts.** Caps, charges and totals add up a function over a set of any
size. `SumOver` defines them by the community modules' fold, and `FiniteLemmas` proves what
the other modules need of it: a sum takes a member out, changes by what one value changes by,
splits over a union, is monotone and bounded. They follow by induction over
finite sets, stated about the family of subsets a fact holds of (`SetInduction`): a
family that has the empty set and is closed under adding a member has the whole set.
`InOrder` is what the settled outcomes of a wave and the queue of a collection are listed
by. It takes the k-th member to be the one with k members up to it, so that counting, and
no sorting permutation, shows that it lists each member once (`InOrderIsEach`) and that a
number beyond all others comes last (`InOrderAppend`).

**DurablePairSettlement.** What the main thread goes by was read from the journal, and what
the reader makes of the journal is computed from it anew each time. `JournalReads` therefore
says what `Reserved`, `Closed`, `Lanes`, `Outcomes` and `Dispatched` make of the journal as it
stands: it reads, at most one wave is open, what is settled was dispatched, and settled
once. Every append has a lemma with what it does to each of these, by the type of the
record alone; since the reader of n records looks at no later one, whatever was readable
stays so (`Readable`). `MemoryMatches` ties `wave`, `done`, `known` and `waves` to the journal,
place by place; `CallsMatch` the threads and the calls really made to the pairs
dispatched, where the one pair dispatched and not yet submitted has no thread;
`LegacyMatches` has a terminal in the legacy ledger at most once and only behind its
settlement. Closing a wave is the step where the two orders meet: the summary is computed by
the writer from `done` and by the reader from the journal, and they are the same because
both list the settlements in the order they were made. The refinement then needs of a step
only which of four kinds it is: it leaves attempts, dispatches and settlements alone, or
dispatches, calls, or settles one pair (`QuietStep`, `DispatchStep`, `CallStep`, `SettleStep`).

**ConcurrentRuntime.** The goals are not inductive: that a newly recorded plan has the
right feedback depends on what the process *knows*, and that was rebuilt from the journal
by a process that has since read any prefix of it. So `Inv` is `Typed /\ Facts`:
`TypeOK` with the two knowledge states `k` and `rp` well formed; `Control`, what each
program point implies of `k`, the spool, `staging` and `output`; `Knowledge`, that a replay
that has read `cur` records knows the feedback and the time steps of the commits among
them, and a running process those of the whole journal, but for the commit it has just
appended and not yet counted; `FeedbackBarrier` itself; and `Outputs`. Each part of `Next` (`Open`,
`Restore`, `RunBatch`, `Commit`, `Finalize`, `Fail`) has a lemma for `Typed` and one for
`Facts`; `PersistTyped` and `PersistFacts` treat the three outcomes of an append once.
That no resume raises, but where a crash has left half of a write behind, is about all
replays a later process might make, so the second
invariant `Read` says that there is a *reading* of the journal: a function `h` on
`0 .. Len(journal)` that starts from the empty state and of which every next value is what
`Apply` makes of the one before, each record accepted. Its last value `s` is what
`Disk(s)` compares with plan documents, spool, prepared chunk and output, and `Memory(s)`
with the kernel. An append extends the reading by one place, other steps leave it as it is;
a replay walks along it (`rp = h[cur]`), and never meets a record it refuses.
`NothingTwice` and `NoCommitLost` are read off `Disk`. The refinement maps a batch to the
moment its commit record is durable, the publication to that of `run_published`; every
other step is a stutter.

**StrictReplay.** `Shapes` says what every settlement, original or reconciliation, tells
of the calls made for it; `Control` what may be in flight at each place, above all that
nothing is once the ledger has an end; `Ledger` that a slot is spent once and a
resolution has a success behind it; `Behind` and `Ahead` are the barrier from its two sides.
The refinement takes a role and a pair as one dispatch of `PairSettlement`: sealing
settles with the whole window, an answer with the calls made. For the cap, `Account` adds
what is *held*: a pair that is dispatched, or in a wave and still open, at its whole
window (`Reserve`), every other at its charge. What is held fits the cap (`Budget`);
the calls of a pair never exceed what is held for it, so their sum does not exceed
the cap. `Known` ties the charge a process carries in memory to the ledger's, less the
wave that it has not added yet, `Finals` and `Completed` what it passed and completed to
settlements that never change again.

**FormalGuard.** `Order` (the pending judgment is the first the ledger has not settled),
`Control`, and `Money`: the calls of a pair are zero before its start and its requests
after its terminal, and all calls are those of the ledger and of the one in flight.

**SegmentedContinuation.** `Place` says which pairs may be neither open nor terminal
where the process is; a wave lies inside the open batch, so a commit leaves no pair behind.
For the status, `Accounts` has the books a status is made of: the exposure of all pairs,
those in a wave at their window, fits the cap (`UnderCap`); the ledger's reservation
stands from before the first dispatch of a wave until its charges are accounted, so that a
ledger without one has booked every charge (`Booked`); waves follow one another in the
schedule, so that dispatched and terminal pairs are prefixes of it, as long as their
counters say (`Frontier`, `Terminals`). A status is only written by a process that ends, after which
nothing happens to the workspace before it is reloaded (`Written`).

**RobustnessStudy.** `CellOk` is the shape of a cell seen from its runtime journal, `Place`
the process's position in the schedule, `Account` the attempts of a pair: charged,
called and evidenced. For the status file, `StatusOk`: its counts were once what the
ledgers added up to, and no step makes those less (one sum per count); a status that
blocks is not overtaken, because a study that is reopened under it finds the stuck cell again
before it can drive another pair (`Blocks`).

**ParameterCollection.** `LedgerCounts` says of each pair that its attempts are its
settlements and the one intent that may be open, and that it was called as often unless one
is; `Budgets` holds the ledger to its caps at every moment, not only when it is closed.
`MemoryAgrees` is what a restart must rebuild: counters equal to the ledger's, and in flight in
the process exactly what is pending on disk. `QueueAgrees` has the reason why the ledger
reads: no pair is waiting twice, in the queue or to be retried, and none that waits is in
flight or accepted. `StageAgrees` gives the place of the process, and `ClosedFor` that a
closure stays what the evidence recomputes under the authorization it records, since
nothing reserves an intent while every pair is accepted, and that the closure the paths were
begun over differs from the one there is in its authorization only. A kill inside an append
may book the line that was due (`DueAppend`): it is one step of `AppendIntent` or
`AppendSettled` like any other, except that the process is gone, so that its lemmas serve
for both. The qualification is sent once at most: what is not a success stops the
ledger for good.

**RecoveryCampaign.** `Accounts` ties attempts, intents and lanes of each pair to its calls;
`Verdicts` says that a status that lets the driver on leaves nothing unapproved or
unknown; `Sched` where the schedule is; `Place` what each program point implies, parallel
batches included; `Revoking` that one late intent is left, to a driver already past its gate.

**Simulation.** `Agree` ties agents, environment and events to each other, `Pending` says
what of a step is not recorded yet; the refinement counts a step of `DiffusionWaves`
when the last agent had its turn and the neighbours are exposed. For the summary, `Tally`:
the decisions of a step are those of the users seen and not settled whose id is
below the turn (`Turns`); a user is exposed in one event and acts in one (`Once`), so that
events are as many as their users; and each record adds to the totals what its step
added to the counts it began with (`AddUp`).

**SubscriptionClient.** `PipesInOrder`: no id is in the pipes twice, none of an answer that
was read, and a line that looks like the answer to a call bears the id of one that was made;
a line that ends what something else began is no answer to anything.
A matching line bears the last id sent, and while the client reads that is the command of
the decision at hand, so an answer is never another's (`CommandsTracked`). The same
conjunct counts: commands of a decision are no more than its attempts, all but at most
one of them read, and all of them where the client is about to ask again or has given a
result. `TotalCovers` says that a total still known counts the calls that were read, and that
a command whose answer was not read belongs to a decision that was interrupted, or to the
one that is being read.

**Only model-checked.** The liveness properties: `StartedIsPublished`, `DispatchedIsSettled`,
`RunEnds`, `StudyEnds`, `StudyRests`, `DriverRests`, `WavesAreReported` and `DecisionsEnd`.
They rest on fairness, and the provers have neither `ENABLED` nor induction over data.
Every safety property of a passing run, invariant, action property or refinement, is a
theorem.

## Not modelled

Of the modelled components, these parts are left out: checks of documents, hashes and
identities that run in one pass before the first call; the readers that validate a
closed source (they recompute what the writer wrote, row by row); manifests and
schemas; ranking scores and probabilities, which are floating-point and enter the models
as any admissible choice; authorization windows and cost limits of the recovery task,
whose gate is the one the revocation has; the second and later models, cells and lanes
of a recovery task; rate limits, backoffs and cooldowns, which are delays of unknown length.

The components that are not modelled at all:

- **Recovery replay** replays a finished chain through the kernel to check it; it writes
  nothing, and what it checks is what `RecoveryCampaign` writes.
- **Recovery repairs**, all but the quota retry: migrations to another provider, manual
  retries of archived unknowns, output amendments, recheck and bundles were each written for
  one incident and quote the hashes of its files. A model of one would have the files of
  that incident as its only behaviour.
- **Robustness v2 evidence, robustness evidence, reports and releases, reports,
  rendering and releases, full-pool sources and offline replays**: pure projections from
  frozen files to documents. They have no state to resume, nothing concurrent, and what
  could be wrong in them is wording, layout and arithmetic. They are the larger part of the
  repository's lines, which is why most of its lines are outside this project.
- **Robustness study and formal execution** (v1 and the plans around v2 and recovery):
  documents bound by hashes, validated in one pass; where they run something, it is the
  state machine of `RobustnessStudy` or `RecoveryCampaign`.
- **Strict operator and automation, full-pool segmented recovery**: one call of a runner
  that is modelled, behind a preflight over hash-bound documents, or the settlement under
  a policy ledger as in `StrictReplay`, with another source and for one recorded incident.
- **Provider adapters** other than the subscription client: one SDK call each, stateless;
  their retry loop is modelled with it. Parsing and token accounting are pure.
- **Web service**: request handlers over files of finished runs; the form that starts a run
  does it in-process, and the concurrency is the framework's.
- **Report deployment**: stages, verifies, switches and restores by calling an adapter; the
  adapter that acts is not in the repository, so a model would be one of the adapter.
- **Retention** audits sizes and hashes against a manifest and changes nothing.
- **Data collection** fetches pages of an external service whose behaviour is not in the
  repository; the normalisation of what it gets is pure.
- **Operator scripts and archived runs**: one-off scripts and recorded artefacts.
