--------------------------- MODULE RobustnessStudy ---------------------------
(***************************************************************************)
(* The Formal v2 robustness study: cells one after another, each with a    *)
(* pair ledger and a runtime journal of its own that must agree, a status  *)
(* file that sums them up, a checkpoint after every model, and at the end  *)
(* one published execution.  A process may be killed between any two       *)
(* writes, or inside one; the next one reads everything back.              *)
(* Source: concurrent_robustness_v2.py.                                    *)
(*                                                                         *)
(* The runtime journal is ConcurrentRuntime's in its primary mode; what is *)
(* kept of it here is how many pairs it has closed, whether the next one   *)
(* has its terminal, and how many batches are committed.  Left out: the    *)
(* checks of identities and hashes, and waiting (a cooldown or a backoff   *)
(* ends at some time).                                                     *)
(***************************************************************************)
EXTENDS Integers, SumOver

CONSTANTS
  Models,         \* how many models there are
  CellsPerModel,  \* _V2_CELLS_PER_MODEL
  PerCell,        \* logical judgments per cell
  BatchSize,      \* how many of them the runtime commits together
  MaxAttempts,    \* _V2_MAXIMUM_ATTEMPTS
  MaxCrashes      \* bound: kills in one behaviour

ASSUME SizeAssumption ==
  /\ Models \in Nat \ {0} /\ CellsPerModel \in Nat \ {0} /\ PerCell \in Nat \ {0}
  /\ BatchSize \in Nat \ {0} /\ PerCell % BatchSize = 0
ASSUME AttemptsAssumption == MaxAttempts \in Nat \ {0}
ASSUME CrashAssumption    == MaxCrashes \in Nat

CellCount == Models * CellsPerModel
Cells     == 1 .. CellCount
Positions == 1 .. PerCell
Pairs     == Cells \X Positions
BatchCount   == PerCell \div BatchSize
BatchOf(p)   == ((p - 1) \div BatchSize) + 1

VARIABLES
  \* --- on disk ---
  workspace,   \* output_dir: "absent", "ready", or "staged" while it is published
  published,   \* two_stage_execution exists
  root,        \* the operational root: "absent", "open", or "littered"
  status,      \* the status file: a lifecycle and three counts
  scope,       \* how far the directory of each cell has been made
  ledger,      \* the state of each pair in its cell's ledger
  evidence,    \* the attempts of each pair that the ledger has the outcome of
  runtime,     \* of each cell: pairs closed, terminal of the next one, batches
  torn,        \* a record was cut short
  \* --- in the process ---
  pc,
  cell,        \* the cell it works on
  last,        \* the last cell of this invocation
  \* --- in the world, and bounds ---
  calls,
  crashes

files   == <<workspace, published, root, status, torn>>
records == <<ledger, evidence>>
vars    == <<files, scope, records, runtime, pc, cell, last, calls, crashes>>

Attempting == {"pre_dispatch", "dispatching", "retry_wait"}
Answered   == {"judged", "realized", "settled"}

-----------------------------------------------------------------------------
\* _operational_progress: what the ledgers add up to.

Logical == Cardinality({x \in Pairs : ledger[x] \in Answered \cup Attempting \cup {"stopped"}})
\* A dispatched attempt counts, a waiting one counts by its evidence.  (Mutant:
\* an open pair counts with all the attempts it may still need.)
Reserving == [x \in Pairs |-> IF ledger[x] \in Attempting THEN MaxAttempts ELSE evidence[x]]
Charged   == [x \in Pairs |-> evidence[x] + (IF ledger[x] = "dispatching" THEN 1 ELSE 0)]
PhysicalReserving == Sum(Reserving, Pairs)
Physical          == Sum(Charged, Pairs)
Complete(c)    == scope[c] # "absent" /\ \A p \in Positions : ledger[<<c, p>>] = "settled"
Completed      == Cardinality({c \in Cells : Complete(c)})
Begun          == Cardinality({c \in Cells : scope[c] # "absent"})

Status(lifecycle) ==
  [lifecycle |-> lifecycle, logical |-> Logical, physical |-> Physical, cells |-> Completed]

Blocked == status.lifecycle \in {"stopped", "reconciliation_required"}

\* _formal_model_batch_end.  (Mutant: the models that are complete.)
CompletedModelsEnd == (Completed \div CellsPerModel) * CellsPerModel
InvocationEnd ==
  IF Completed = CellCount THEN CellCount
  ELSE ((Completed \div CellsPerModel) + 1) * CellsPerModel

-----------------------------------------------------------------------------
Init ==
  /\ workspace = "absent" /\ published = FALSE /\ root = "absent" /\ torn = FALSE
  /\ status = [lifecycle |-> "none", logical |-> 0, physical |-> 0, cells |-> 0]
  /\ scope = [c \in Cells |-> "absent"]
  /\ ledger = [x \in Pairs |-> "none"] /\ evidence = [x \in Pairs |-> 0]
  /\ runtime = [c \in Cells |-> [closed |-> 0, terminal |-> FALSE, committed |-> 0]]
  /\ pc = "down" /\ cell = 0 /\ last = 0
  /\ calls = [x \in Pairs |-> 0] /\ crashes = 0

Goto(l) == pc' = l

\* _open_workspace and _open_operational_root refuse anything but a whole
\* inventory; a published study is only read.
Openable ==
  /\ workspace # "staged"
  /\ published \/ /\ root # "littered" /\ ~torn
                  /\ \A c \in Cells : scope[c] \notin {"made", "identity"}

\* Both are made aside and renamed: a kill leaves nothing of them.
Create ==
  /\ pc = "down" /\ root = "absent"
  /\ workspace' = "ready" /\ root' = "open"
  /\ status' = [status EXCEPT !.lifecycle = "initialized"]
  /\ Goto("cell") /\ cell' = 1 /\ last' = CellsPerModel
  /\ UNCHANGED <<published, torn, scope, records, runtime, calls, crashes>>

\* The status that the opener finds is moved on to what the ledgers say.
Reconciled ==
  IF ~Blocked /\ Completed > 0 /\ Completed % CellsPerModel = 0 /\ Begun = Completed
  THEN Status("model_batch_complete")
  ELSE IF status = Status(status.lifecycle) THEN status ELSE Status("running")

Reopen ==
  /\ pc = "down" /\ root # "absent" /\ Openable /\ ~published
  /\ Goto(IF Reconciled = status THEN "cell" ELSE IF Blocked THEN "down" ELSE "reconcile")
  /\ cell' = 1 /\ last' = InvocationEnd
  /\ UNCHANGED <<files, scope, records, runtime, calls, crashes>>

WriteStatus(s, next) ==
  /\ status' = s
  /\ Goto(next)
  /\ UNCHANGED <<workspace, published, root, torn, scope, records, runtime, cell, last,
                 calls, crashes>>

Reconcile == pc = "reconcile" /\ WriteStatus(Reconciled, "cell")

-----------------------------------------------------------------------------
\* _run_cell: the cell's directory, its ledger's identity and journal, and the
\* runtime's workspace are made one after another; a runtime that was not
\* finished is not finished by anybody.

Stages == <<"absent", "made", "identity", "ledger", "locked", "open">>
NextStage(s) == Stages[1 + CHOOSE i \in 1 .. 5 : Stages[i] = s]

EnterCell ==
  /\ pc = "cell"
  /\ Goto(CASE scope[cell] = "open" -> "sync"
            [] scope[cell] = "locked" -> "down"
            [] OTHER -> "making")
  /\ UNCHANGED <<files, scope, records, runtime, cell, last, calls, crashes>>

MakeCell ==
  /\ pc = "making"
  /\ scope' = [scope EXCEPT ![cell] = NextStage(@)]
  /\ Goto(IF scope'[cell] = "open" THEN "sync" ELSE "making")
  /\ UNCHANGED <<files, records, runtime, cell, last, calls, crashes>>

Run     == runtime[cell]
Here(p) == ledger[<<cell, p>>]
NextPair == Run.closed + 1

\* One record of the ledger.
Put(p, s, next) ==
  /\ ledger' = [ledger EXCEPT ![<<cell, p>>] = s]
  /\ Goto(next)
  /\ UNCHANGED <<files, scope, runtime, cell, last, crashes>>

\* _sync_closed_pairs: the pairs of the open batch that the runtime has closed and
\* the ledger has not settled.  (Mutant: none are looked for.)
NoneUnsynced == {}
Unsynced == {p \in 1 .. Run.closed : BatchOf(p) > Run.committed /\ Here(p) = "realized"}

Sync ==
  /\ pc = "sync" /\ Unsynced # {}
  /\ Put(Min(Unsynced), "settled", "sync")
  /\ UNCHANGED <<evidence, calls>>

\* _safe_resumable_attempts.  (Mutant: a dispatched attempt may be tried again.)
Retriable == Attempting
Resumable == {"pre_dispatch", "retry_wait"}

InCell(states) == \E p \in Positions : Here(p) \in states

Resume ==
  /\ pc = "sync" /\ Unsynced = {}
  /\ Goto(IF InCell({"stopped"}) THEN "stopping"
          ELSE IF InCell(Attempting \ Resumable) THEN "reconciling" ELSE "drive")
  /\ UNCHANGED <<files, scope, records, runtime, cell, last, calls, crashes>>

-----------------------------------------------------------------------------
\* _resolve_v2_pair and _drive_primary_runtime: the next pair of the open batch.

Driving(s) == pc = "drive" /\ NextPair \in Positions /\ Here(NextPair) = s
Open       == BatchOf(NextPair) = Run.committed + 1

Pending   == /\ Driving("none") /\ Open /\ Put(NextPair, "pending", "drive")
             /\ UNCHANGED <<evidence, calls>>
Reserve   == /\ Driving("pending") /\ Put(NextPair, "reserved", "drive")
             /\ UNCHANGED <<evidence, calls>>
Prepare   == /\ Driving("reserved") /\ Put(NextPair, "pre_dispatch", "drive")
             /\ UNCHANGED <<evidence, calls>>

Dispatch ==
  /\ \E s \in Resumable : Driving(s)
  /\ Put(NextPair, "dispatching", "dispatched")
  /\ UNCHANGED <<evidence, calls>>

Call ==
  /\ pc = "dispatched"
  /\ calls' = [calls EXCEPT ![<<cell, NextPair>>] = @ + 1]
  /\ Goto("calling")
  /\ UNCHANGED <<files, scope, records, runtime, cell, last, crashes>>

Noted   == evidence' = [evidence EXCEPT ![<<cell, NextPair>>] = @ + 1]
Attempt == evidence[<<cell, NextPair>>] + 1

\* _V2ModelLane.execute: three attempts at most, and only a retryable failure is
\* tried again.
Succeed ==
  /\ pc = "calling" /\ Put(NextPair, "judged", "drive") /\ Noted /\ UNCHANGED calls
FailRetryable ==
  /\ pc = "calling" /\ Attempt < MaxAttempts
  /\ Put(NextPair, "retry_wait", "drive") /\ Noted /\ UNCHANGED calls
FailForGood ==
  /\ pc = "calling" /\ Put(NextPair, "stopped", "stopping") /\ Noted /\ UNCHANGED calls

\* Provenance or accounting that cannot be verified leaves the record as it is;
\* counters that contradict each other end the process without a status.
FailUnknown ==
  /\ pc = "calling"
  /\ pc' \in {"reconciling", "down"}
  /\ UNCHANGED <<files, scope, records, runtime, cell, last, calls, crashes>>

Realize ==
  /\ Driving("judged") /\ Put(NextPair, "realized", "drive")
  /\ UNCHANGED <<evidence, calls>>

Progress(r) ==
  /\ runtime' = [runtime EXCEPT ![cell] = r]
  /\ UNCHANGED <<files, scope, records, cell, last, calls, crashes>>

\* (Mutant: the runtime is told of a judgment that is not realized yet.)
JudgedToo    == {"judged", "realized"}
Registrable  == {"realized"}

Register ==
  /\ \E s \in Registrable : Driving(s)
  /\ ~Run.terminal
  /\ Progress([Run EXCEPT !.terminal = TRUE]) /\ UNCHANGED pc

\* The runtime closes a pair before the ledger settles it.
Close ==
  /\ Driving("realized") /\ Run.terminal
  /\ Progress([Run EXCEPT !.closed = @ + 1, !.terminal = FALSE])
  /\ Goto("settle")

Settle ==
  /\ pc = "settle"
  /\ Put(Run.closed, "settled", "drive")
  /\ UNCHANGED <<evidence, calls>>

CommitBatch ==
  /\ pc = "drive" /\ Run.committed < BatchCount
  /\ Run.closed = (Run.committed + 1) * BatchSize
  /\ Progress([Run EXCEPT !.committed = @ + 1]) /\ UNCHANGED pc

\* A cell is over when every batch is committed and every pair settled.
FinishCell ==
  /\ pc = "drive" /\ Run.committed = BatchCount
  /\ Goto(IF Complete(cell) THEN "counted" ELSE "down")
  /\ UNCHANGED <<files, scope, records, runtime, cell, last, calls, crashes>>

-----------------------------------------------------------------------------
\* After a cell: the status, the next cell, the model's checkpoint, publication.

WriteRunning == pc = "counted" /\ WriteStatus(
  \* sums over the cells this invocation has been through
  [lifecycle |-> "running", cells |-> cell,
   logical  |-> Cardinality({x \in Pairs : x[1] <= cell /\ ledger[x] = "settled"}),
   physical |-> Sum(evidence, {x \in Pairs : x[1] <= cell})], "next")

NextCell ==
  /\ pc = "next"
  /\ IF cell < last THEN cell' = cell + 1 /\ Goto("cell")
     ELSE UNCHANGED cell /\ Goto(IF last < CellCount THEN "checkpoint" ELSE "publish")
  /\ UNCHANGED <<files, scope, records, runtime, last, calls, crashes>>

Checkpoint == pc = "checkpoint" /\ WriteStatus(Status("model_batch_complete"), "down")

\* The execution is staged inside the workspace and renamed.
StageExecution ==
  /\ pc = "publish"
  /\ workspace' = "staged" /\ Goto("publishing")
  /\ UNCHANGED <<published, root, status, torn, scope, records, runtime, cell, last, calls, crashes>>

Publish ==
  /\ pc = "publishing"
  /\ workspace' = "ready" /\ published' = TRUE /\ Goto("closing")
  /\ UNCHANGED <<root, status, torn, scope, records, runtime, cell, last, calls, crashes>>

CloseStudy == pc = "closing" /\ WriteStatus(Status("cells_complete"), "down")

\* _V2CellStopped and _V2ReconciliationRequired.
Stop         == pc = "stopping" /\ WriteStatus(Status("stopped"), "down")
NeedReconciliation ==
  pc = "reconciling" /\ WriteStatus(Status("reconciliation_required"), "down")

-----------------------------------------------------------------------------
\* A kill inside a record leaves it torn, inside a status write its temporary
\* file in the root, during publication its staging (an exception removes that).
Recording  == {"sync", "drive", "dispatched", "calling", "settle"}
StatusSteps == {"reconcile", "counted", "checkpoint", "closing", "stopping", "reconciling"}

Crash ==
  /\ pc # "down" /\ crashes < MaxCrashes
  /\ crashes' = crashes + 1
  /\ IF pc \in Recording THEN torn' \in BOOLEAN ELSE UNCHANGED torn
  /\ IF pc \in StatusSteps THEN root' \in {root, "littered"} ELSE UNCHANGED root
  /\ IF pc = "publishing" THEN workspace' \in {"ready", "staged"} ELSE UNCHANGED workspace
  /\ Goto("down")
  /\ UNCHANGED <<published, status, scope, records, runtime, cell, last, calls>>

Process ==
  \/ Create \/ Reopen \/ Reconcile \/ EnterCell \/ MakeCell \/ Sync \/ Resume
  \/ Pending \/ Reserve \/ Prepare \/ Dispatch \/ Call
  \/ Succeed \/ FailRetryable \/ FailForGood \/ FailUnknown
  \/ Realize \/ Register \/ Close \/ Settle \/ CommitBatch \/ FinishCell
  \/ WriteRunning \/ NextCell \/ Checkpoint \/ StageExecution \/ Publish \/ CloseStudy
  \/ Stop \/ NeedReconciliation

Next == Process \/ Crash

Spec == Init /\ [][Next]_vars

\* The operator starts the study again as long as it can be opened.
FairSpec == Spec /\ WF_vars(Process)

-----------------------------------------------------------------------------
\* Types of what the process and the journals keep.
States == {"none", "pending", "reserved", "stopped"} \cup Attempting \cup Answered
TypeOK ==
  /\ scope \in [Cells -> {"absent", "made", "identity", "ledger", "locked", "open"}]
  /\ ledger \in [Pairs -> States]
  /\ evidence \in [Pairs -> Nat] /\ calls \in [Pairs -> Nat]
  /\ runtime \in [Cells -> [closed : 0 .. PerCell, terminal : BOOLEAN, committed : 0 .. BatchCount]]
  /\ cell \in Int /\ last \in Int
  /\ pc # "down" => cell \in Cells /\ last <= CellCount

\* The two journals of a cell never contradict each other, wherever the process
\* died: the runtime knows the terminal of a pair only when the ledger has its
\* realization, the ledger settles a pair only when the runtime has closed it and
\* never more than one pair behind, a batch is committed only with all its pairs
\* settled, and nothing is recorded in a cell whose runtime was not finished.
JournalsAgree ==
  \A c \in Cells :
    LET r == runtime[c]
    IN  /\ r.terminal => ledger[<<c, r.closed + 1>>] = "realized"
        /\ \A p \in Positions :
             /\ p < r.closed => ledger[<<c, p>>] = "settled"
             /\ p = r.closed => ledger[<<c, p>>] \in {"realized", "settled"}
             /\ p > r.closed => ledger[<<c, p>>] # "settled"
             /\ BatchOf(p) <= r.committed => ledger[<<c, p>>] = "settled"
             /\ scope[c] # "open" => ledger[<<c, p>>] = "none"

\* The status file never leads the ledgers, and a status that blocks the study is
\* exact: what the opener refuses, the code itself never writes.
StatusNeverLeads ==
  /\ status.logical <= Logical /\ status.physical <= Physical /\ status.cells <= Completed
  /\ Blocked => status = Status(status.lifecycle) /\ Begun > Completed

\* One model after another, one pair after another: a pair is called only when
\* every pair before it is settled and every batch before its own is committed.
\* So nothing is called any more after a stop or an unresolved dispatch.
SerialSchedule ==
  \A c \in Cells, p \in Positions : calls[<<c, p>>] > 0 =>
    /\ \A q \in 1 .. p - 1 : ledger[<<c, q>>] = "settled"
    /\ runtime[c].committed >= BatchOf(p) - 1
    /\ \A d \in 1 .. c - 1 : Complete(d) /\ runtime[d].committed = BatchCount

\* The pair ledgers keep the promise of an attempt ledger.
Ledger == INSTANCE AttemptLedger WITH
  charged   <- Charged,
  called    <- calls,
  settled   <- evidence,
  succeeded <- {x \in Pairs : ledger[x] \in Answered}
KeepsAttemptPromise == Ledger!Spec

\* However it is interrupted, a study that is started again and again ends:
\* published, blocked, or in a state that the opener or a cell refuses.
StudyEnds ==
  <>(\/ published \/ Blocked
     \/ pc = "down" /\ (~Openable \/ \E c \in Cells : scope[c] = "locked"))
=============================================================================
