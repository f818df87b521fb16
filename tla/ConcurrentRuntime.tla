------------------------- MODULE ConcurrentRuntime -------------------------
(***************************************************************************)
(* The durable run of a concurrent message campaign: an append-only        *)
(* journal, batch snapshots, a spool of committed batch chunks and a       *)
(* staged output, written by one process that may die at any step and be   *)
(* resumed.  Sources: concurrent_execution_journal.py,                     *)
(* _concurrent_runtime_spool.py and the runtime kernel and runner of       *)
(* concurrent_message_experiment.py.                                       *)
(*                                                                         *)
(* A checksum or SHA-256 of some content is modelled by the content        *)
(* itself; the provider adapters are modelled by the outcome they end in.  *)
(***************************************************************************)
EXTENDS CampaignData

CONSTANTS
  CrashModes,   \* which half-done writes a crash may leave behind
  MaxCrashes    \* bound: how often the process dies in one behaviour

ASSUME CrashAssumption ==
  /\ CrashModes \subseteq {"torn_record", "bare_record", "torn_chunk"}
  /\ MaxCrashes \in Nat

VARIABLES
  \* --- on disk ---
  workspace,    \* "absent", "locked" (lock file only) or "identified"
  snapshots,    \* the batch plan documents under snapshots/
  journal,      \* the journal's complete records
  text,         \* how its last line ends: "whole", "bare" (no newline), "corrupt"
  pending,      \* the prepared spool chunk
  spool,        \* the published spool chunks, by time step
  staging,      \* "absent", "partial" or the sampling status it was closed with
  output,       \* "absent" or the sampling status of the published output
  \* --- in the process ---
  pc,           \* what the process does next; it is not running when at rest
  k,            \* kernel and journal counters (_ConcurrentRuntimeKernelState)
  rp,           \* what a replay has rebuilt so far
  cur,          \* how many records that replay has read
  goal,         \* what the replay is for: "resume" or "finalize"
  judged,       \* the outcome of a variant that is executed and not yet durable
  live,         \* the variants whose adapter this process has really called
  \* --- bound ---
  crashes

disk   == <<workspace, snapshots, journal, text, pending, spool, staging, output>>
replay == <<rp, cur, goal>>
vars   == <<disk, pc, k, replay, judged, live, crashes>>

AtRest  == {"down", "done", "refused", "rejected"}
VariantNames == {Variants[i] : i \in 1 .. Len(Variants)}

-----------------------------------------------------------------------------
\* What the process, or a replay, knows of the run.

Opened(frozen, plan) ==
  [frozen |-> frozen, plan |-> plan, results |-> <<>>, started |-> 0, terms |-> <<>>,
   positives |-> {}]
EmptyBatch == Opened({}, <<>>)

EmptyState == [records |-> 0, next |-> 0, engaged |-> {}, exposed |-> {},
               refs |-> <<>>, open |-> FALSE, batch |-> EmptyBatch,
               finalized |-> FALSE, published |-> FALSE, source |-> "absent"]

EmptyChunk == [t |-> 0, frozen |-> {}, plan |-> <<>>, results |-> <<>>,
               committed |-> {}]
NoPending  == [state |-> "none", chunk |-> EmptyChunk]

\* The pair the open batch is at, and whether it is past its last pair.
CurrentPair(s)   == s.batch.plan[Len(s.batch.results) + 1]
AllClosed(s)     == Len(s.batch.results) = Len(s.batch.plan)
AllStarted(s)    == s.batch.started = Len(Variants)
AllTerminal(s)   == Len(s.batch.terms) = Len(Variants)

\* The chunk an open batch with every pair closed commits.  (Mutant: the feedback
\* of the whole campaign instead of the batch's own.)
CumulativeChunkOf(s) ==
  [t |-> s.next, frozen |-> s.batch.frozen, plan |-> s.batch.plan,
   results |-> s.batch.results, committed |-> s.engaged \cup s.batch.positives]
ChunkOf(s) == [t |-> s.next, frozen |-> s.batch.frozen, plan |-> s.batch.plan,
               results |-> s.batch.results, committed |-> s.batch.positives]

-----------------------------------------------------------------------------
\* The records of the journal; n is the number of records before it.

RunStarted(n) == [seq |-> n + 1, type |-> "run_started"]
BatchPlan(n, doc) == [seq |-> n + 1, type |-> "batch_plan", doc |-> doc]
VariantStarted(n, pair, variant) ==
  [seq |-> n + 1, type |-> "variant_started", pair |-> pair, variant |-> variant]
VariantTerminal(n, pair, variant, outcome) ==
  [seq |-> n + 1, type |-> "variant_terminal", pair |-> pair,
   variant |-> variant, outcome |-> outcome]
PairClosed(n, pair) == [seq |-> n + 1, type |-> "pair_closed", pair |-> pair]
BatchCommitted(n, chunk) ==
  [seq |-> n + 1, type |-> "batch_committed", chunk |-> chunk]
RunFinalized(n, source) ==
  [seq |-> n + 1, type |-> "run_finalized", source |-> source]
RunPublished(n, source) ==
  [seq |-> n + 1, type |-> "run_published", source |-> source]

-----------------------------------------------------------------------------
\* The answer of a closed pair that counts for the campaign: its Primary terminal,
\* the first of the contract.
CampaignAnswer(s) == s.batch.terms[1]

\* _record_closed_pair: only a positive Primary terminal is feedback.
Recorded(s) ==
  [frozen    |-> s.batch.frozen,
   plan      |-> s.batch.plan,
   results   |-> Append(s.batch.results, s.batch.terms),
   started   |-> 0,
   terms     |-> <<>>,
   positives |-> IF CampaignAnswer(s) = "positive"
                 THEN s.batch.positives \cup {User(CurrentPair(s))}
                 ELSE s.batch.positives]

\* What each record changes in what the process, or a replay, knows.
Counted(s)           == [s EXCEPT !.records = @ + 1]
PlanTaken(s, doc)    == [Counted(s) EXCEPT !.open    = TRUE,
                                           !.exposed = @ \cup Delivered(doc.plan),
                                           !.batch   = Opened(doc.frozen, doc.plan)]
VariantCounted(s)    ==
  [Counted(s) EXCEPT !.batch = [s.batch EXCEPT !.started = @ + 1]]
TerminalTaken(s, o)  ==
  [Counted(s) EXCEPT !.batch = [s.batch EXCEPT !.terms = Append(@, o)]]
PairRecorded(s)      == [Counted(s) EXCEPT !.batch = Recorded(s)]
CommitTaken(s, c)    == [s EXCEPT !.next    = c.t + 1,
                                  !.engaged = @ \cup c.committed,
                                  !.exposed = @ \cup Delivered(c.plan),
                                  !.refs    = Append(@, c),
                                  !.open    = FALSE,
                                  !.batch   = EmptyBatch]
Finalized(s, source) == [Counted(s) EXCEPT !.finalized = TRUE, !.source = source]
Published(s, source) == [Finalized(s, source) EXCEPT !.published = TRUE]

-----------------------------------------------------------------------------
\* Reading the journal back.

\* Whether the replay takes record rec in state s, or raises: the order that
\* _replay_workspace enforces and what restore asks of snapshots and chunks.
Accepts(s, rec) ==
  /\ rec.seq = s.records + 1
  /\ ~s.published
  /\ \/ rec.type = "run_started" /\ s.records = 0
     \/ /\ rec.type = "batch_plan"
        /\ ~s.open
        /\ rec.doc \in snapshots
        /\ rec.doc.t = s.next
        /\ rec.doc.frozen = s.engaged
        /\ Delivered(rec.doc.plan) \cap s.exposed = {}
     \/ /\ rec.type = "variant_started"
        /\ s.open /\ ~AllClosed(s) /\ ~AllStarted(s)
        /\ rec.pair = CurrentPair(s)
        /\ rec.variant = Variants[s.batch.started + 1]
     \/ /\ rec.type = "variant_terminal"
        /\ s.open /\ ~AllClosed(s) /\ AllStarted(s) /\ ~AllTerminal(s)
        /\ rec.pair = CurrentPair(s)
        /\ rec.variant = Variants[Len(s.batch.terms) + 1]
     \/ /\ rec.type = "pair_closed"
        /\ s.open /\ ~AllClosed(s) /\ AllTerminal(s)
        /\ rec.pair = CurrentPair(s)
     \/ /\ rec.type = "batch_committed"
        /\ s.open /\ AllClosed(s) /\ s.batch.started = 0
        /\ rec.chunk.t = s.next
        /\ rec.chunk.frozen = s.engaged
        /\ Len(rec.chunk.results) = Len(s.batch.plan)
        /\ \A i \in 1 .. Len(s.refs) :
             Delivered(rec.chunk.plan) \cap Delivered(s.refs[i].plan) = {}
        /\ rec.chunk.committed = Positives(rec.chunk.plan, rec.chunk.results)
     \/ rec.type = "run_finalized" /\ s.next = Horizon /\ ~s.finalized
     \/ rec.type = "run_published" /\ s.next = Horizon

\* What the replay makes of a record it takes.
Apply(s, rec) ==
  CASE rec.type = "run_started"      -> Counted(s)
    [] rec.type = "batch_plan"       -> PlanTaken(s, rec.doc)
    [] rec.type = "variant_started"  -> VariantCounted(s)
    [] rec.type = "variant_terminal" -> TerminalTaken(s, rec.outcome)
    [] rec.type = "pair_closed"      -> PairRecorded(s)
    [] rec.type = "batch_committed"  -> CommitTaken(Counted(s), rec.chunk)
    [] rec.type = "run_finalized"    -> Finalized(s, rec.source)
    [] rec.type = "run_published"    -> Published(s, rec.source)

Lifecycle(s) ==
  IF s.published THEN "published"
  ELSE IF s.open /\ s.batch.started > 0 /\ s.batch.terms = <<>> THEN "inflight_unknown"
  ELSE IF s.finalized \/ output # "absent" \/ staging # "absent" THEN "durable_partial"
  ELSE IF s.next = Horizon THEN "ready_to_finalize"
  ELSE "running"

\* The spool closes the journal's commits, and a prepared chunk belongs to the
\* open batch, complete: iter_committed and validate_prepared_state.  (Mutant: a
\* chunk may be missing at the end.)
SpoolClosesPrefix(s) == \E n \in 0 .. Len(s.refs) : spool = SubSeq(s.refs, 1, n)
SpoolCloses(s) ==
  /\ spool = s.refs
  /\ \/ pending.state = "none"
     \/ s.open /\ AllClosed(s) /\ pending.chunk.t = s.next

\* The journal refers to a chunk that was prepared and not yet published.
\* (Mutant: off by one, the last chunk is not looked for.)
UnpublishedButLast(s) ==
  Len(spool) + 1 < Len(s.refs) /\ pending.state # "none" /\ pending.chunk = s.refs[Len(spool) + 1]
Unpublished(s) ==
  Len(spool) < Len(s.refs) /\ pending.state # "none" /\ pending.chunk = s.refs[Len(spool) + 1]

\* The replay reaches the end of the journal and nothing on disk is wrong.
ReplayCloses ==
  /\ cur = Len(journal)
  /\ text # "corrupt"
  /\ rp.published => output = rp.source
  /\ goal = "resume" /\ output # "absent" =>
       Lifecycle(rp) \in {"published", "ready_to_finalize", "durable_partial"}
  /\ goal = "finalize" => SpoolCloses(rp) /\ Len(rp.refs) = Len(k.refs)

-----------------------------------------------------------------------------
\* The process: dying, and appending to the journal.

\* The process is gone with everything it knew.
Forget ==
  /\ k' = EmptyState /\ rp' = EmptyState
  /\ cur' = 0 /\ goal' = "none" /\ judged' = "none" /\ live' = {}

Die ==
  /\ crashes < MaxCrashes
  /\ crashes' = crashes + 1
  /\ pc' = "down"
  /\ Forget

\* A line glued to one that has no newline makes the journal unreadable.
LineAppended == IF text = "whole" THEN "whole" ELSE "corrupt"

\* _append_jsonl_record and what follows it in memory; the line and its newline
\* are two writes, and the process may die inside the first or between them.
Persist(rec, s, at) ==
  /\ \/ /\ journal' = Append(journal, rec)
        /\ text' = LineAppended
        /\ k' = s
        /\ pc' = at
        /\ judged' = "none"
        /\ UNCHANGED <<replay, live, crashes>>
     \/ /\ "torn_record" \in CrashModes
        /\ text' = "corrupt"
        /\ Die
        /\ UNCHANGED journal
     \/ /\ "bare_record" \in CrashModes
        /\ journal' = Append(journal, rec)
        /\ text' = IF text = "whole" THEN "bare" ELSE "corrupt"
        /\ Die
  /\ UNCHANGED <<workspace, snapshots, pending, spool, staging, output>>

Step(from, to) == pc = from /\ pc' = to

-----------------------------------------------------------------------------
\* Opening the workspace.

Init ==
  /\ workspace = "absent" /\ snapshots = {} /\ journal = <<>> /\ text = "whole"
  /\ pending = NoPending /\ spool = <<>> /\ staging = "absent" /\ output = "absent"
  /\ pc = "down" /\ k = EmptyState /\ rp = EmptyState /\ cur = 0 /\ goal = "none"
  /\ judged = "none" /\ live = {} /\ crashes = 0

\* mode="new": the workspace must be unused; the lock file is created in it.
OpenNew ==
  /\ workspace = "absent" /\ output = "absent"
  /\ Step("down", "locked")
  /\ workspace' = "locked"
  /\ UNCHANGED <<snapshots, journal, text, pending, spool, staging, output,
                 k, replay, judged, live, crashes>>

WriteIdentity ==
  /\ Step("locked", "identified")
  /\ workspace' = "identified"
  /\ UNCHANGED <<snapshots, journal, text, pending, spool, staging, output,
                 k, replay, judged, live, crashes>>

AppendRunStarted ==
  /\ pc = "identified"
  /\ Persist(RunStarted(k.records), Counted(k), "run")

\* mode="resume": a workspace without identity or journal file is refused.
Resume ==
  /\ pc \in AtRest
  /\ workspace # "absent"
  /\ IF workspace = "identified" /\ (journal # <<>> \/ text = "corrupt")
     THEN pc' = "replay" /\ goal' = "resume"
     ELSE pc' = "refused" /\ UNCHANGED goal
  /\ k' = EmptyState /\ live' = {}
  /\ UNCHANGED <<disk, rp, cur, judged, crashes>>

ReplayRecord ==
  /\ pc = "replay" /\ text # "corrupt" /\ cur < Len(journal)
  /\ Accepts(rp, journal[cur + 1])
  /\ rp' = Apply(rp, journal[cur + 1])
  /\ cur' = cur + 1
  /\ UNCHANGED <<disk, pc, k, goal, judged, live, crashes>>

\* Nothing is left to be done for a run.
RunClosed(s) == s.published

\* A run is finalized and published if its contract is the paired one; a run of
\* Primary variants only ends when the replay has found its spool complete.
Publishes == Len(Variants) = 2

\* A resume of a published run rebuilds the report and returns; otherwise the
\* spool is restored next.  A replay before finalization goes on to finalize.
FinishReplay ==
  /\ pc = "replay" /\ ReplayCloses
  /\ pc' = IF goal = "finalize" /\ Publishes THEN "finalize"
           ELSE IF goal = "finalize" \/ RunClosed(rp) THEN "done" ELSE "restore"
  /\ IF goal = "resume" /\ ~RunClosed(rp)
     THEN UNCHANGED <<rp, cur, goal>>
     ELSE rp' = EmptyState /\ cur' = 0 /\ goal' = "none"
  /\ UNCHANGED <<disk, k, judged, live, crashes>>

\* iter_committed publishes a chunk the journal refers to and a crash left prepared.
RecoverPrepared ==
  /\ pc = "restore" /\ Unpublished(rp)
  /\ pending.state = "whole"
  /\ spool' = Append(spool, pending.chunk)
  /\ pending' = NoPending
  /\ UNCHANGED <<workspace, snapshots, journal, text, staging, output,
                 pc, k, replay, judged, live, crashes>>

\* The kernel takes over what the replay rebuilt; the journal object counts a
\* run as being finalized as soon as its lifecycle is durable_partial.  (Mutants:
\* the feedback is the open batch's frozen one; the open pair's terminals are not
\* taken over.)
RestoredFromBatch(s) == [s EXCEPT !.engaged = s.batch.frozen]
RestoredFromPairs(s) == [s EXCEPT !.batch = [s.batch EXCEPT !.started = 0, !.terms = <<>>]]
Restored(s) == [s EXCEPT !.finalized = @ \/ Lifecycle(s) = "durable_partial"]

RestoreKernel ==
  /\ pc = "restore" /\ SpoolCloses(rp)
  /\ pc' = "run"
  /\ k' = Restored(rp)
  /\ rp' = EmptyState /\ cur' = 0 /\ goal' = "none"
  /\ UNCHANGED <<disk, judged, live, crashes>>

-----------------------------------------------------------------------------
\* Running a batch.

\* A further batch is due.  (Mutant: off by one.)
BatchDue == ~k.open /\ k.next < Horizon

\* plan_batch writes the plan document before the record that refers to it.
\* Planning is a function of the frozen feedback, so a document left behind by
\* a crash is written again with the same content.
WritePlan ==
  /\ BatchDue
  /\ Step("run", "planned")
  /\ \E plan \in Plans(k.exposed) :
       LET doc == [t |-> k.next, frozen |-> k.engaged, plan |-> plan]
       IN  /\ \A d \in snapshots : d.t = k.next => d = doc
           /\ snapshots' = snapshots \cup {doc}
  /\ UNCHANGED <<workspace, journal, text, pending, spool, staging, output,
                 k, replay, judged, live, crashes>>

AppendPlan ==
  /\ pc = "planned"
  /\ \E doc \in snapshots :
       /\ doc.t = k.next
       /\ Persist(BatchPlan(k.records, doc), PlanTaken(k, doc), "run")

StartVariant ==
  /\ pc = "run" /\ k.open /\ ~AllClosed(k) /\ ~AllStarted(k)
  /\ Persist(VariantStarted(k.records, CurrentPair(k), Variants[k.batch.started + 1]),
             VariantCounted(k), "run")

\* Only a variant without a durable terminal is put to its adapter.
ExecuteVariant ==
  /\ k.open /\ ~AllClosed(k) /\ AllStarted(k) /\ ~AllTerminal(k)
  /\ Step("run", "judged")
  /\ \E o \in Outcomes : judged' = o
  /\ live' = live \cup {Variants[Len(k.batch.terms) + 1]}
  /\ UNCHANGED <<disk, k, replay, crashes>>

RegisterTerminal ==
  /\ pc = "judged"
  /\ Persist(VariantTerminal(k.records, CurrentPair(k),
                             Variants[Len(k.batch.terms) + 1], judged),
             TerminalTaken(k, judged), "run")

ClosePair ==
  /\ pc = "run" /\ k.open /\ ~AllClosed(k) /\ AllTerminal(k)
  /\ Persist(PairClosed(k.records, CurrentPair(k)), PairRecorded(k), "run")

-----------------------------------------------------------------------------
\* Committing a batch: prepared chunk, journal record, published chunk.

Complete == k.open /\ AllClosed(k)

\* prepare_batch: the published chunks must be exactly the earlier batches'; a
\* chunk prepared before a crash must be byte-equal to the one made now.
\* (Mutants: none may be there; its name, which holds the digest, is enough.)
PreparableOnce   == Len(spool) = k.next /\ pending.state = "none"
PreparableByName == Len(spool) = k.next /\ pending.chunk \in {EmptyChunk, ChunkOf(k)}
Preparable ==
  /\ Len(spool) = k.next
  /\ pending.state # "none" => pending = [state |-> "whole", chunk |-> ChunkOf(k)]

\* A chunk that is there already stays.
PreparedChunk ==
  IF pending.state = "none" THEN [state |-> "whole", chunk |-> ChunkOf(k)] ELSE pending

PrepareChunk ==
  /\ Complete /\ Preparable
  /\ Step("run", "prepared")
  /\ pending' = PreparedChunk
  /\ UNCHANGED <<workspace, snapshots, journal, text, spool, staging, output,
                 k, replay, judged, live, crashes>>

\* _exclusive_write creates the prepared file under its final name and then
\* fills it: dying in between leaves the name without the content.
TearChunk ==
  /\ "torn_chunk" \in CrashModes
  /\ pc = "run" /\ Complete /\ Preparable /\ pending.state = "none"
  /\ pending' = [state |-> "torn", chunk |-> ChunkOf(k)]
  /\ Die
  /\ UNCHANGED <<workspace, snapshots, journal, text, spool, staging, output>>

AppendCommit ==
  /\ pc = "prepared"
  /\ Persist(BatchCommitted(k.records, ChunkOf(k)), Counted(k), "committed")

\* publish_prepared, and _finish_commit: the feedback reaches the kernel.
PublishChunk ==
  /\ Step("committed", "run")
  /\ pending = [state |-> "whole", chunk |-> ChunkOf(k)]
  /\ spool' = Append(spool, pending.chunk)
  /\ pending' = NoPending
  /\ k' = CommitTaken(k, ChunkOf(k))
  /\ UNCHANGED <<workspace, snapshots, journal, text, staging, output,
                 replay, judged, live, crashes>>

-----------------------------------------------------------------------------
\* Finalizing: replay, staged output, run_finalized, rename, run_published.

\* Every batch is committed.  (Mutant: off by one.)
AllPlanned   == ~k.open /\ k.next + 1 >= Horizon
AllCommitted == ~k.open /\ k.next = Horizon

ReplayBeforeFinalizing ==
  /\ AllCommitted
  /\ Step("run", "replay")
  /\ goal' = "finalize"
  /\ UNCHANGED <<disk, k, rp, cur, judged, live, crashes>>

\* formal_run: this process has really called both adapters.
SamplingStatus ==
  IF live = VariantNames THEN "formal_run" ELSE "validation_run"

\* An output left by a crash after the rename is adopted as it is.
AdoptOutput ==
  /\ pc = "finalize" /\ output # "absent"
  /\ pc' = "publish"
  /\ UNCHANGED <<disk, k, replay, judged, live, crashes>>

\* An interrupted staging directory is removed and written again.
BeginStaging ==
  /\ output = "absent"
  /\ Step("finalize", "staging")
  /\ staging' = "partial"
  /\ UNCHANGED <<workspace, snapshots, journal, text, pending, spool, output,
                 k, replay, judged, live, crashes>>

CloseStaging ==
  /\ Step("staging", "staged")
  /\ staging' = SamplingStatus
  /\ UNCHANGED <<workspace, snapshots, journal, text, pending, spool, output,
                 k, replay, judged, live, crashes>>

\* Skipped when the run already counts as being finalized.
AppendFinalized ==
  /\ pc = "staged"
  /\ IF k.finalized
     THEN pc' = "rename" /\ UNCHANGED <<disk, k, replay, judged, live, crashes>>
     ELSE Persist(RunFinalized(k.records, staging), Finalized(k, staging), "rename")

RenameStaging ==
  /\ Step("rename", "publish")
  /\ output' = staging
  /\ staging' = "absent"
  /\ UNCHANGED <<workspace, snapshots, journal, text, pending, spool,
                 k, replay, judged, live, crashes>>

AppendPublished ==
  /\ pc = "publish"
  /\ Persist(RunPublished(k.records, output), Published(k, output), "done")

-----------------------------------------------------------------------------
\* Failing.

\* Where the code raises instead of going on.
Raises ==
  \/ pc = "replay" /\ text = "corrupt"
  \/ pc = "replay" /\ cur = Len(journal) /\ ~ReplayCloses
  \/ pc = "replay" /\ cur < Len(journal) /\ ~Accepts(rp, journal[cur + 1])
  \/ pc = "restore" /\ ~SpoolCloses(rp) /\ ~(Unpublished(rp) /\ pending.state = "whole")
  \/ pc = "run" /\ Complete /\ ~Preparable
  \/ pc = "committed" /\ pending # [state |-> "whole", chunk |-> ChunkOf(k)]

RaiseError ==
  /\ Raises
  /\ pc' = "rejected"
  /\ Forget
  /\ UNCHANGED <<disk, crashes>>

\* The process is killed between two writes.
Crash ==
  /\ pc \notin AtRest
  /\ Die
  /\ UNCHANGED disk

-----------------------------------------------------------------------------
Open     == OpenNew \/ WriteIdentity \/ AppendRunStarted \/ Resume
Restore  == ReplayRecord \/ FinishReplay \/ RecoverPrepared \/ RestoreKernel
RunBatch == \/ WritePlan \/ AppendPlan
            \/ StartVariant \/ ExecuteVariant \/ RegisterTerminal \/ ClosePair
Commit   == PrepareChunk \/ AppendCommit \/ PublishChunk
Finalize == \/ ReplayBeforeFinalizing \/ AdoptOutput \/ BeginStaging
            \/ CloseStaging \/ AppendFinalized \/ RenameStaging \/ AppendPublished
Fail     == TearChunk \/ RaiseError \/ Crash

Next == Open \/ Restore \/ RunBatch \/ Commit \/ Finalize \/ Fail

Spec == Init /\ [][Next]_vars

\* The process goes on whenever it can, and the operator resumes a run that is
\* at rest before it has published; nothing makes the process die.
Fairness ==
  /\ WF_vars(WriteIdentity \/ AppendRunStarted \/ Resume)
  /\ WF_vars(Restore \/ RunBatch \/ Commit \/ Finalize)

FairSpec == Spec /\ Fairness

-----------------------------------------------------------------------------
\* Reading the journal.

RecordsOf(type)  == {i \in 1 .. Len(journal) : journal[i].type = type}
CommitsBefore(n) == {journal[i].chunk : i \in {j \in RecordsOf("batch_committed") : j < n}}
Commits          == CommitsBefore(Len(journal) + 1)
PlansRecorded    == {journal[i].doc : i \in RecordsOf("batch_plan")}
HasPublished     == RecordsOf("run_published") # {}

-----------------------------------------------------------------------------
\* Properties.

Document == [t : 0 .. Horizon - 1, frozen : SUBSET Users, plan : Seq(Pairs)]

Chunk == [t : 0 .. Horizon - 1, frozen : SUBSET Users, plan : Seq(Pairs),
          results : Seq(Answers), committed : SUBSET Users]

Status == {"absent", "formal_run", "validation_run"}

Batch == [frozen : SUBSET Users, plan : Seq(Pairs), results : Seq(Answers),
          started : 0 .. Len(Variants), terms : Seq(Outcomes),
          positives : SUBSET Users]

State == [records : Nat, next : 0 .. Horizon, engaged : SUBSET Users,
          exposed : SUBSET Pairs, refs : Seq(Chunk), open : BOOLEAN,
          batch : Batch, finalized : BOOLEAN, published : BOOLEAN, source : Status]

Record ==
       [seq : Nat, type : {"run_started"}]
  \cup [seq : Nat, type : {"batch_plan"}, doc : Document]
  \cup [seq : Nat, type : {"variant_started"}, pair : Pairs, variant : VariantNames]
  \cup [seq : Nat, type : {"variant_terminal"}, pair : Pairs, variant : VariantNames,
        outcome : Outcomes]
  \cup [seq : Nat, type : {"pair_closed"}, pair : Pairs]
  \cup [seq : Nat, type : {"batch_committed"}, chunk : Chunk]
  \cup [seq : Nat, type : {"run_finalized", "run_published"}, source : Status]

Points == AtRest \cup
  {"locked", "identified", "replay", "restore", "run", "planned", "judged", "prepared",
   "committed", "finalize", "staging", "staged", "rename", "publish"}

\* Every variable holds what the code keeps in it.
TypeOK ==
  /\ workspace \in {"absent", "locked", "identified"}
  /\ snapshots \subseteq Document
  /\ journal \in Seq(Record)
  /\ text \in {"whole", "bare", "corrupt"}
  /\ pending \in [state : {"none", "torn", "whole"}, chunk : Chunk]
  /\ spool \in Seq(Chunk)
  /\ staging \in Status \cup {"partial"}
  /\ output \in Status
  /\ pc \in Points
  /\ k \in State /\ rp \in State
  /\ cur \in 0 .. Len(journal)
  /\ goal \in {"none", "resume", "finalize"}
  /\ judged \in Outcomes \cup {"none"}
  /\ live \subseteq VariantNames
  /\ crashes \in 0 .. MaxCrashes

\* No crash has left half of a write behind.
Untorn == text = "whole" /\ pending.state # "torn"

\* Wherever the process died between two writes, the next replay takes every record
\* it left and finds spool, prepared chunk and output as the journal says: no resume
\* raises.  Half of a write may be refused, and then for good.
EveryReplayCloses == Untorn => pc # "rejected"

\* The engaged users a batch is ranked with are those committed by the batches
\* before it, in the plan the journal records and in the chunk it commits:
\* never an answer of the batch itself, whatever crash and replay lie between.
FeedbackBarrier ==
  /\ \A i \in RecordsOf("batch_plan") :
       journal[i].doc.frozen = UNION {c.committed : c \in CommitsBefore(i)}
  /\ \A i \in RecordsOf("batch_committed") :
       journal[i].chunk.frozen = UNION {c.committed : c \in CommitsBefore(i)}

ExposedOnce ==
  /\ \A c, d \in Commits \cup PlansRecorded :
       c.t # d.t => Delivered(c.plan) \cap Delivered(d.plan) = {}
  /\ \A c \in Commits : \E d \in PlansRecorded : c.t = d.t /\ c.plan = d.plan

OneTerminalEach ==
  \A i, j \in RecordsOf("variant_terminal") :
    /\ journal[i].pair = journal[j].pair
    /\ journal[i].variant = journal[j].variant
    => i = j

\* No message is delivered twice to a user, over all the batches of the run, and a
\* batch commits the plan that was recorded for it; a pair's variant has one durable
\* terminal at most, and none once more after a crash: the result that was answered
\* first is the one that counts.
NothingTwice == ExposedOnce /\ OneTerminalEach

\* A batch the journal has committed is never lost: its rows are published in the
\* spool, or prepared in whole and published by the next resume.
NoCommitLost ==
  \A c \in Commits :
    \/ c.t < Len(spool) /\ spool[c.t + 1] = c
    \/ c.t = Len(spool) /\ pending = [state |-> "whole", chunk |-> c]

\* The output appears only with every batch committed and published in the spool,
\* and the journal says "published" only of the output that is there.
PublishedIsComplete ==
  /\ output # "absent" => Len(spool) = Horizon /\ {c.t : c \in Commits} = 0 .. Horizon - 1
  /\ \A i \in RecordsOf("run_published") : journal[i].source = output

\* Despite finitely many crashes, a paired run whose journal has begun gets published,
\* unless one of them has left half of a write behind.
StartedIsPublished == journal # <<>> ~> (HasPublished \/ ~Untorn)

\* The durable run, seen through its journal, keeps the campaign's promise.
Campaign == INSTANCE CampaignFeedback
              WITH batches <- Commits, published <- HasPublished
KeepsFeedbackPromise == Campaign!Spec
=============================================================================
