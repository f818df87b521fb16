------------------------- MODULE SegmentedContinuation -------------------------
(***************************************************************************)
(* The continuation of a frozen serial run: its remaining pairs go through *)
(* waves of the durable settlement, batch after batch, until source-v2 is  *)
(* closed.  One process ever dispatches; whoever comes after a kill or an  *)
(* exception only settles what the files say and writes the status.        *)
(* Source: full_pool_segmented_continuation.py, _run_complete_segmented    *)
(* and what it calls.                                                      *)
(*                                                                         *)
(* A wave is taken from DurablePairSettlement: its journal is kept as what *)
(* it has last said of each pair, the canonical ledger as the counts that  *)
(* its reader takes from it.  Left out: planning the next batch (the       *)
(* schedule is fixed), the spool, identities, hashes and the contents of   *)
(* the rows.                                                               *)
(***************************************************************************)
EXTENDS Integers, SumOver

CONSTANTS
  Suffix,         \* how many pairs of the schedule have no terminal in the prefix
  BatchSize,      \* how many of them a batch selects
  Lanes,          \* FULL_POOL_SEGMENTED_MAX_CONCURRENCY
  MaxAttempts,    \* maximum_attempts_per_dispatch
  PhysicalCap,    \* FULL_POOL_SEGMENTED_PHYSICAL_CAP
  PrefixPhysical, \* calls the prefix has accounted for
  Migrations,     \* what the prefix may leave: "none", or an unknown pair that
                  \* is "authorized" to be retried, or "unauthorized"
  MaxFailures     \* bound: kills and exceptions in one behaviour

ASSUME SizeAssumption ==
  /\ Suffix \in Nat \ {0} /\ BatchSize \in Nat \ {0} /\ Lanes \in Nat \ {0}
ASSUME CapAssumption ==
  /\ MaxAttempts \in Nat \ {0} /\ PhysicalCap \in Nat /\ PrefixPhysical \in Nat
ASSUME MigrationAssumption == Migrations \subseteq {"none", "authorized", "unauthorized"}
ASSUME FailureAssumption   == MaxFailures \in Nat

Pairs      == 1 .. Suffix
BatchOf(p) == ((p - 1) \div BatchSize) + 1

VARIABLES
  \* --- on disk ---
  migration,  \* what the frozen prefix leaves
  started,    \* the workspace's identity, manifest and first ledger event
  journal,    \* what the settlement journal has last said of each pair
  charge,     \* the attempts it has charged each pair
  closed,     \* it has no open wave
  ledger,     \* what the reader of the canonical ledger counts
  source,     \* source-v2: "none", "staged", "anchored" or "renamed"
  status,     \* the status file
  \* --- in the process ---
  pc,
  wave,       \* the pairs of the wave in flight
  spent,      \* physical_attempts
  \* --- in the world, and bound ---
  calls,
  failures

files == <<migration, started, journal, charge, closed, ledger, source, status>>
vars  == <<files, pc, wave, spent, calls, failures>>

\* A pair of a wave that was never dispatched stays reserved.
Outcomes   == {"terminal", "unknown", "implementation_failed"}
Dispatched == {p \in Pairs : journal[p] \notin {"open", "reserved"}}
Terminal   == {p \in Pairs : journal[p] = "terminal"}
Unsettled  == {p \in Pairs : journal[p] = "dispatched"}
Waves      == {p \in Pairs : journal[p] # "open"} # {}

\* The one pair whose answer the prefix has lost is the first that is left.
MigrationUnknown == IF migration = "none" THEN {} ELSE {1}
MigrationCharge  == IF migration = "authorized" THEN MaxAttempts ELSE 0
Unretried        == IF migration = "unauthorized" THEN 1 ELSE 0

-----------------------------------------------------------------------------
\* The status documents.  Counts of the prefix's terminals are left out; the
\* logical count is that of the suffix.

NoStatus == [schema |-> "none", lifecycle |-> "none", terminals |-> 0, unknown |-> {},
             failed |-> {}, pending |-> FALSE, logical |-> 0, physical |-> 0]

Plain(lifecycle, terminals, unknown, logical, physical) ==
  [NoStatus EXCEPT !.schema = "plain", !.lifecycle = lifecycle, !.terminals = terminals,
                   !.unknown = unknown, !.logical = logical, !.physical = physical]

\* _settlement_commit_pending: every wave is closed, with all its pairs terminal.
CommitPending == closed /\ \A p \in Pairs : journal[p] \in {"open", "terminal"}

\* _persist_settlement_result: from the settlement journal alone.
OfSettlement ==
  [NoStatus EXCEPT
     !.schema    = "settlement",
     !.lifecycle = IF CommitPending THEN "resumable" ELSE "reconciliation_required",
     !.terminals = Cardinality(Terminal),
     !.unknown   = {p \in Pairs : journal[p] = "unknown"},
     !.failed    = {p \in Pairs : journal[p] = "implementation_failed"},
     !.pending   = CommitPending,
     !.logical   = Cardinality(Dispatched),
     !.physical  = PrefixPhysical + MigrationCharge + Sum(charge, Dispatched)]

\* _replay_continuation_ledger: dispatches and terminals are prefixes of the
\* schedule; a reservation without its accounting makes it raise.
LedgerReads   == ~ledger.reserved
Unaccounted   == {p \in Pairs : p <= ledger.dispatched /\ p > ledger.terminals}
LedgerPhysical == PrefixPhysical + MigrationCharge + ledger.physical

OfSource == Plain("complete", Suffix, {}, Suffix, LedgerPhysical)

\* _validated_complete_status_from_source.
SourceValid ==
  /\ ledger.anchored /\ source = "renamed"
  /\ ledger.dispatched = Suffix /\ ledger.terminals = Suffix

\* What the loader demands of the status it finds.
StatusAccepted ==
  IF status.schema = "settlement" THEN Waves /\ closed /\ status = OfSettlement
  ELSE /\ LedgerReads
       /\ status.terminals = ledger.terminals
       /\ status.logical = Unretried + ledger.dispatched
       /\ status.physical = LedgerPhysical
       /\ status.lifecycle = "complete" => SourceValid /\ status = OfSource
       /\ status.lifecycle = "reconciliation_required" => status.unknown = Unaccounted

-----------------------------------------------------------------------------
NoLedger == [reserved |-> FALSE, dispatched |-> 0, terminals |-> 0, physical |-> 0,
             commits |-> 0, anchored |-> FALSE]

Init ==
  /\ migration \in Migrations
  /\ started = "absent" /\ source = "none"
  /\ journal = [p \in Pairs |-> "open"] /\ charge = [p \in Pairs |-> 0] /\ closed = TRUE
  /\ ledger = NoLedger
  /\ status = NoStatus
  /\ pc = "down" /\ wave = {} /\ spent = 0
  /\ calls = [p \in Pairs |-> 0] /\ failures = 0

Goto(l) == pc' = l

Create ==
  /\ pc = "down" /\ started = "absent"
  /\ started' = "partial" /\ Goto("create")
  /\ UNCHANGED <<migration, journal, charge, closed, ledger, source, status, wave, spent,
                 calls, failures>>

\* Without its authorization an unknown pair of the prefix ends the run here.
Begin ==
  /\ pc = "create"
  /\ started' = "started"
  /\ spent' = PrefixPhysical + MigrationCharge
  /\ Goto(IF Unretried = 1 THEN "unauthorized" ELSE "plan")
  /\ UNCHANGED <<migration, journal, charge, closed, ledger, source, status, wave, calls,
                 failures>>

PersistStatus(s) ==
  /\ status' = s
  /\ Goto("down")
  /\ UNCHANGED <<migration, started, journal, charge, closed, ledger, source, wave, spent,
                 calls, failures>>

StopUnauthorized ==
  /\ pc = "unauthorized"
  /\ PersistStatus(Plain("reconciliation_required", 0, MigrationUnknown, 1, PrefixPhysical))

-----------------------------------------------------------------------------
\* A wave of the settlement.

InBatch    == {p \in Pairs : BatchOf(p) = ledger.commits + 1}
Remaining  == {p \in InBatch : journal[p] = "open"}

\* _reserve_dynamic_wave.
Available  == IF PhysicalCap > spent THEN PhysicalCap - spent ELSE 0
WaveSize   == Min({Cardinality(Remaining), Lanes, Available \div MaxAttempts})

ReserveWave ==
  /\ pc = "plan" /\ Remaining # {} /\ WaveSize > 0
  /\ wave' = {p \in Remaining : p < Min(Remaining) + WaveSize}
  /\ journal' = [p \in Pairs |-> IF p \in wave' THEN "reserved" ELSE journal[p]]
  /\ closed' = FALSE
  /\ Goto("announce")
  /\ UNCHANGED <<migration, started, charge, ledger, source, status, spent, calls, failures>>

\* No retry window is left for another pair.
StopAtCap ==
  /\ pc = "plan" /\ Remaining # {} /\ WaveSize = 0
  /\ PersistStatus(Plain("resumable", Cardinality(Terminal), {}, Cardinality(Terminal), spent))

Tell(l) ==
  /\ ledger' = l
  /\ UNCHANGED <<migration, started, journal, charge, closed, source, status, wave, spent,
                 calls, failures>>

AnnounceWave ==
  /\ pc = "announce" /\ Goto("dispatch")
  /\ Tell([ledger EXCEPT !.reserved = TRUE])

DispatchPair ==
  /\ pc = "dispatch" /\ \E p \in wave : journal[p] = "reserved"
  /\ journal' = [journal EXCEPT ![Min({p \in wave : journal[p] = "reserved"})] = "dispatched"]
  /\ Goto("submit")
  /\ UNCHANGED <<migration, started, charge, closed, ledger, source, status, wave, spent,
                 calls, failures>>

SubmitPair ==
  /\ pc = "submit"
  /\ Goto(IF \E p \in wave : journal[p] = "reserved" THEN "dispatch" ELSE "settle")
  /\ Tell([ledger EXCEPT !.dispatched = @ + 1])

\* A worker calls its provider, also while the main thread is unwinding; no more
\* often than its window allows.
InPool  == {"dispatch", "submit", "settle", "unwind"}
Call(p) ==
  /\ pc \in InPool
  /\ journal[p] = "dispatched" /\ p <= ledger.dispatched
  /\ calls[p] < MaxAttempts
  /\ calls' = [calls EXCEPT ![p] = @ + 1]
  /\ UNCHANGED <<files, pc, wave, spent, failures>>

SettlePair(p) ==
  /\ pc = "settle" /\ journal[p] = "dispatched"
  /\ \E outcome \in Outcomes : journal' = [journal EXCEPT ![p] = outcome]
  /\ charge' = [charge EXCEPT ![p] = calls[p]]
  /\ UNCHANGED <<migration, started, closed, ledger, source, status, pc, wave, spent, calls,
                 failures>>

\* The closure of a wave in the ledger: its accounting, then its terminal frontier.
Account ==
  /\ pc = "settle" /\ Unsettled = {}
  /\ Goto("frontier")
  /\ Tell([ledger EXCEPT !.reserved = FALSE, !.physical = @ + Sum(charge, wave)])

NextTerminal == ledger.terminals + 1

TellTerminal ==
  /\ pc = "frontier" /\ NextTerminal \in wave /\ NextTerminal \in Terminal
  /\ UNCHANGED pc
  /\ Tell([ledger EXCEPT !.terminals = @ + 1])

CloseWave ==
  /\ pc = "frontier" /\ ~(NextTerminal \in wave /\ NextTerminal \in Terminal)
  /\ closed' = TRUE
  /\ spent' = spent + Sum(charge, wave)
  /\ Goto("closed")
  /\ UNCHANGED <<migration, started, journal, charge, ledger, source, status, wave, calls,
                 failures>>

\* The run goes on only when all pairs of the wave are terminal.  (Mutant: when it
\* has no unknown pair.)
NoneUnknown == \A p \in wave : journal[p] # "unknown"
AllTerminal == wave \subseteq Terminal

GoOn ==
  /\ pc = "closed" /\ AllTerminal
  /\ Goto(IF Remaining = {} THEN "commit" ELSE "plan")
  /\ UNCHANGED <<files, wave, spent, calls, failures>>

StopSettled ==
  /\ pc = "closed" /\ ~AllTerminal
  /\ PersistStatus(OfSettlement)

CommitBatch ==
  /\ pc = "commit"
  /\ Goto(IF ledger.commits + 1 = BatchOf(Suffix) THEN "stage" ELSE "plan")
  /\ Tell([ledger EXCEPT !.commits = @ + 1])

-----------------------------------------------------------------------------
\* Closing source-v2: staged, anchored in the ledger, renamed; then the status.

CloseSource(from, next, s) ==
  /\ pc = from /\ Goto(next)
  /\ source' = s
  /\ ledger' = [ledger EXCEPT !.anchored = @ \/ s = "anchored"]
  /\ UNCHANGED <<migration, started, journal, charge, closed, status, wave, spent, calls,
                 failures>>

StageSource  == CloseSource("stage", "anchor", "staged")
AnchorSource == CloseSource("anchor", "rename", "anchored")
RenameSource == CloseSource("rename", "complete", "renamed")

Complete ==
  /\ pc = "complete"
  /\ PersistStatus(Plain("complete", Suffix, {}, Suffix, spent))

-----------------------------------------------------------------------------
\* Dying: killed anywhere, or by an exception.  One inside the waves or a commit
\* is handled, once the workers have ended.

Guarded == {"plan", "announce", "dispatch", "submit", "settle", "frontier", "closed", "commit"}

Fail ==
  /\ pc # "down" /\ failures < MaxFailures
  /\ failures' = failures + 1
  /\ \/ Goto("down") /\ wave' = {} /\ spent' = 0
     \/ pc \in Guarded /\ Goto("unwind") /\ UNCHANGED <<wave, spent>>
  /\ UNCHANGED <<files, calls>>

\* The handler believes the ledger; when that does not read, it raises in its turn.
\* (Mutant: it takes what the process itself has counted.)
HandledSpent    == spent
HandledPhysical == LedgerPhysical

Handle ==
  /\ pc = "unwind" /\ LedgerReads
  /\ PersistStatus(Plain("reconciliation_required", ledger.terminals, Unaccounted,
                         ledger.dispatched, HandledPhysical))

Escape ==
  /\ pc = "unwind" /\ ~LedgerReads
  /\ Goto("down")
  /\ UNCHANGED <<files, wave, spent, calls, failures>>

-----------------------------------------------------------------------------
\* _load_complete_existing: whoever runs a workspace that is there already.  A
\* status is only checked; without one, waves are sealed and reported.  (Mutant: an
\* open wave is refused.)
LoadableClosed == started = "started" /\ status = NoStatus /\ Waves /\ closed
Loadable == started = "started" /\ status = NoStatus /\ Waves

Load ==
  /\ pc = "down" /\ Loadable
  /\ Goto("seal")
  /\ UNCHANGED <<files, wave, spent, calls, failures>>

\* replay(seal_inflight=True): a dispatch without its settlement is unknown, and
\* charged its whole window.  (Mutant: nothing.)
NoCharge     == 0
WindowCharge == MaxAttempts

SealPair ==
  /\ pc = "seal" /\ Unsettled # {}
  /\ journal' = [journal EXCEPT ![Min(Unsettled)] = "unknown"]
  /\ charge' = [charge EXCEPT ![Min(Unsettled)] = WindowCharge]
  /\ UNCHANGED <<migration, started, closed, ledger, source, status, pc, wave, spent, calls,
                 failures>>

SealWave ==
  /\ pc = "seal" /\ Unsettled = {} /\ ~closed
  /\ closed' = TRUE
  /\ UNCHANGED <<migration, started, journal, charge, ledger, source, status, pc, wave,
                 spent, calls, failures>>

ReportWaves ==
  /\ pc = "seal" /\ closed /\ source # "renamed"
  /\ PersistStatus(OfSettlement)

RebuildStatus ==
  /\ pc = "seal" /\ closed /\ source = "renamed"
  /\ IF LedgerReads /\ SourceValid THEN PersistStatus(OfSource)
     ELSE Goto("down") /\ UNCHANGED <<files, wave, spent, calls, failures>>

-----------------------------------------------------------------------------
Run ==
  \/ Begin \/ StopUnauthorized
  \/ ReserveWave \/ StopAtCap \/ AnnounceWave \/ DispatchPair \/ SubmitPair
  \/ (\E p \in Pairs : SettlePair(p)) \/ Account \/ TellTerminal \/ CloseWave
  \/ GoOn \/ StopSettled \/ CommitBatch
  \/ StageSource \/ AnchorSource \/ RenameSource \/ Complete
  \/ Handle \/ Escape
  \/ SealPair \/ SealWave \/ ReportWaves \/ RebuildStatus

Next == Create \/ Run \/ Load \/ Fail \/ \E p \in Pairs : Call(p)

Spec == Init /\ [][Next]_vars

\* A process that runs goes on, and the operator runs the workspace again.
FairSpec == Spec /\ WF_vars(Run) /\ WF_vars(Load)

-----------------------------------------------------------------------------
\* Whatever path has written the status - an ordinary end, the cap, the exception
\* handler, or the loader after a kill - the loader takes it when the same run is
\* asked for again.  A run that ended for want of an authorization is left out: its
\* status names an unknown pair of the prefix, of which the loader knows nothing.
ReloadsItsStatus == status # NoStatus /\ migration # "unauthorized" => StatusAccepted

\* The status accounts for every call that was really made, never more than the
\* cap, and names every dispatched pair that has no terminal.
StatusCoversCalls ==
  status # NoStatus =>
    /\ status.physical >= PrefixPhysical + Sum(calls, Pairs)
    /\ PrefixPhysical + MigrationCharge <= PhysicalCap => status.physical <= PhysicalCap
    /\ Dispatched \ Terminal \subseteq status.unknown \cup status.failed

\* A batch is committed only with all its pairs terminal, and no pair of a later
\* batch is reserved before that; source-v2 closes over all of them.
WholeBatchesOnly ==
  \A p \in Pairs :
    /\ BatchOf(p) <= ledger.commits => p \in Terminal
    /\ BatchOf(p) > ledger.commits + 1 => journal[p] = "open"
    /\ status.lifecycle = "complete" => p \in Terminal /\ ledger.commits = BatchOf(Suffix)

\* Once a wave has been reserved the workspace gets its status, wherever the
\* process dies and however often, by a handler or by the next one.
WavesAreReported == Waves ~> status # NoStatus
=============================================================================
