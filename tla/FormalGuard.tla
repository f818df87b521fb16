------------------------------ MODULE FormalGuard ------------------------------
(***************************************************************************)
(* One formal full-pool run and the guard around each of its calls: the    *)
(* attempt ledger and the status file it keeps beside the runtime's        *)
(* journal, the caps, what a resume reconciles and what it refuses, the    *)
(* handler of an interruption and the closing of the source.               *)
(* Source: full_pool_formal_experiment.py (FullPoolFormalExperiment.run,   *)
(* _FullPoolAttemptGuard, _close_full_pool_source) and the loop of the     *)
(* Primary-only consumer it hooks into.                                    *)
(*                                                                         *)
(* The ledger is kept as what a replay takes from it, which is also what   *)
(* the process has in memory: an append and the assignments that follow it *)
(* are one step.  Batches, the spool and the journal's own refusals are    *)
(* ConcurrentRuntime's; here a pair of the journal is started or terminal. *)
(* An OSError leaves on disk what a kill leaves, and is one.               *)
(***************************************************************************)
EXTENDS Integers, FiniteSetsExt

CONSTANTS
  Logical,          \* expected_primary_terminals, the pairs of the schedule
  AttemptsPerPair,  \* max_retries + 1
  LogicalCap,       \* active_logical_judgment_cap
  PhysicalCap,      \* active_physical_attempt_cap
  MaxFailures       \* bound: kills and failed closures in one behaviour

ASSUME PoolAssumption == Logical \in Nat \ {0} /\ AttemptsPerPair \in Nat \ {0}
ASSUME CapAssumption  == LogicalCap \in Nat /\ PhysicalCap \in Nat
ASSUME FailureAssumption == MaxFailures \in Nat

PoolPairs == 1 .. Logical

VARIABLES
  \* --- on disk ---
  workspace,   \* the operational workspace exists
  runJournal,  \* what the runtime journal says of each pair
  requests,    \* request_invocations of the pair's terminal row
  identity,    \* the guard's execution identity file exists
  ledger,      \* the attempt ledger, replayed
  status,      \* the guard's status file
  source,      \* the final source: "absent", "staged" or "closed"
  recorded,    \* the provider accounting of the closed source
  \* --- in the process ---
  guardPc,
  opened,      \* the guard: "no", "named" (identity written) or "yes"
  tries,       \* calls of the adapter for the pair in flight
  left,        \* physical attempt rows still to append
  \* --- in the world, and bound ---
  callsMade,
  total,      \* all calls ever made
  failures

disk      == <<workspace, runJournal, requests, identity, ledger, status, source, recorded>>
process   == <<guardPc, opened, tries, left>>
world     == <<callsMade, total, failures>>
guardVars == <<disk, process, world>>

None     == 0
NoStatus == [lifecycle |-> "none", logical |-> 0, physical |-> 0]
Todo     == {p \in PoolPairs : runJournal[p] # "terminal"}
Current  == Min(Todo)
Window   == IF ledger.pending = None THEN 0 ELSE AttemptsPerPair

\* a mutation: a reserved attempt is taken for one that was never sent
UnknownUnreserved ==
  \E p \in PoolPairs : runJournal[p] = "started" /\ status.lifecycle # "attempt_reserved"

\* The journal's inflight_unknown.
Unknown == \E p \in PoolPairs : runJournal[p] = "started"

GuardInit ==
  /\ workspace = FALSE /\ identity = FALSE
  /\ runJournal = [p \in PoolPairs |-> "none"]
  /\ requests = [p \in PoolPairs |-> 0]
  /\ ledger = [reads |-> TRUE, pending |-> None, rows |-> 0, logical |-> 0, physical |-> 0]
  /\ status = NoStatus
  /\ source = "absent" /\ recorded = [logical |-> 0, physical |-> 0]
  /\ guardPc = "down" /\ opened = "no" /\ tries = 0 /\ left = 0
  /\ callsMade = [p \in PoolPairs |-> 0] /\ total = 0 /\ failures = 0

-----------------------------------------------------------------------------
Goto(next) == guardPc' = next /\ UNCHANGED <<opened, tries, left>>
Stop       == guardPc' = "down" /\ opened' = "no" /\ tries' = 0 /\ left' = 0

WriteStatus(lifecycle) ==
  status' = [lifecycle |-> lifecycle, logical |-> ledger.logical, physical |-> ledger.physical]

-----------------------------------------------------------------------------
\* run(): a source that is closed is read back and nothing else happens.

Launch ==
  /\ guardPc = "down" /\ ~workspace
  /\ workspace' = TRUE
  /\ Goto("next")
  /\ UNCHANGED <<runJournal, requests, identity, ledger, status, source, recorded, world>>

Resume ==
  /\ guardPc = "down" /\ workspace /\ source # "closed"
  /\ Goto("reconcile")
  /\ UNCHANGED <<disk, world>>

\* _open, on the first use of the guard: by before() in a new workspace, by
\* reconcile_runtime() in one that is resumed.
Refused ==
  \/ ~ledger.reads
  \/ status.lifecycle = "none"
  \/ status.logical # ledger.logical
  \/ status.physical # ledger.physical

OpenExisting ==
  /\ guardPc \in {"next", "reconcile"} /\ opened = "no" /\ identity
  /\ IF Refused THEN Stop ELSE opened' = "yes" /\ UNCHANGED <<guardPc, tries, left>>
  /\ UNCHANGED <<disk, world>>

WriteIdentity ==
  /\ guardPc \in {"next", "reconcile"} /\ opened = "no" /\ ~identity
  /\ identity' = TRUE /\ opened' = "named"
  /\ UNCHANGED <<workspace, runJournal, requests, ledger, status, source, recorded, guardPc,
                 tries, left, world>>

Initialize ==
  /\ opened = "named"
  /\ WriteStatus("initialized") /\ opened' = "yes"
  /\ UNCHANGED <<workspace, runJournal, requests, identity, ledger, source, recorded, guardPc,
                 tries, left, world>>

\* A reservation whose call was never journalled is released; one whose
\* terminal is in the journal is settled as if the process had gone on.
\* a mutation: the reservation outlives its release
ReleaseRowsOnly == [ledger EXCEPT !.rows = 0]

Release == [ledger EXCEPT !.pending = None, !.rows = 0]

Reconcile ==
  /\ guardPc = "reconcile" /\ opened = "yes"
  /\ \/ /\ Unknown
        /\ Goto("interrupted") /\ UNCHANGED ledger
     \/ /\ ~Unknown /\ ledger.pending = None
        /\ Goto("next") /\ UNCHANGED ledger
     \/ /\ ~Unknown /\ ledger.pending # None
        /\ IF runJournal[ledger.pending] = "terminal"
             THEN /\ guardPc' = "after" /\ left' = requests[ledger.pending]
                  /\ UNCHANGED <<opened, tries, ledger>>
             ELSE ledger' = Release /\ Goto("running")
  /\ UNCHANGED <<workspace, runJournal, requests, identity, status, source, recorded, world>>

-----------------------------------------------------------------------------
\* One judgment.

\* a mutation: only the next call is reserved, not its retries
ExceedsByOne ==
  \/ ledger.logical + 1 > LogicalCap
  \/ ledger.physical + 1 > PhysicalCap

Exceeds ==
  \/ ledger.logical + 1 > LogicalCap
  \/ ledger.physical + AttemptsPerPair > PhysicalCap

Before ==
  /\ guardPc = "next" /\ opened = "yes" /\ Todo # {}
  /\ ledger.pending # None \/ ~Exceeds
  /\ IF ledger.pending # None
       THEN Goto("interrupted") /\ UNCHANGED ledger
       ELSE /\ ledger' = [ledger EXCEPT !.pending = Current, !.rows = 0]
            /\ Goto("reserved")
  /\ UNCHANGED <<workspace, runJournal, requests, identity, status, source, recorded, world>>

\* The event is appended and the status written unless both are there already;
\* a kill between the two leaves nothing that a replay tells apart.
StopAtCap ==
  /\ guardPc = "next" /\ opened = "yes" /\ Todo # {}
  /\ ledger.pending = None /\ Exceeds
  /\ WriteStatus("resumable_cap_stop")
  /\ Stop
  /\ UNCHANGED <<workspace, runJournal, requests, identity, ledger, source, recorded, world>>

MarkReserved ==
  /\ guardPc = "reserved"
  /\ WriteStatus("attempt_reserved")
  /\ Goto("dispatching")
  /\ UNCHANGED <<workspace, runJournal, requests, identity, ledger, source, recorded, world>>

StartPair ==
  /\ guardPc = "dispatching"
  /\ runJournal' = [runJournal EXCEPT ![ledger.pending] = "started"]
  /\ Goto("calling")
  /\ UNCHANGED <<workspace, requests, identity, ledger, status, source, recorded, world>>

CallAdapter ==
  /\ guardPc = "calling" /\ tries < AttemptsPerPair
  /\ tries' = tries + 1
  /\ callsMade' = [callsMade EXCEPT ![ledger.pending] = @ + 1]
  /\ total' = total + 1
  /\ UNCHANGED <<disk, guardPc, opened, left, failures>>

\* validate_terminal accepts the answer, and the journal gets it.
RegisterTerminal ==
  /\ guardPc = "calling" /\ tries >= 1
  /\ runJournal' = [runJournal EXCEPT ![ledger.pending] = "terminal"]
  /\ requests' = [requests EXCEPT ![ledger.pending] = tries]
  /\ guardPc' = "after" /\ left' = tries /\ tries' = 0 /\ UNCHANGED opened
  /\ UNCHANGED <<workspace, identity, ledger, status, source, recorded, world>>

\* ProviderResponseProvenanceUnknown is a RuntimeError, which run() handles.
LoseAnswer ==
  /\ guardPc = "calling" /\ tries >= 1
  /\ Goto("interrupted")
  /\ UNCHANGED <<disk, world>>

\* A drifted model, crossed usage or no call at all is a ValueError, which
\* ends run() and writes nothing.
RefuseAnswer ==
  /\ guardPc = "calling"
  /\ Stop
  /\ UNCHANGED <<disk, world>>

AccountAttempt ==
  /\ guardPc = "after" /\ left > 0
  /\ left' = left - 1
  /\ ledger' = [ledger EXCEPT !.rows = @ + 1]
  /\ UNCHANGED <<workspace, runJournal, requests, identity, status, source, recorded,
                 guardPc, opened, tries, world>>

\* judgment_terminal: a replay demands as many rows as the terminal has calls.
SettledLedger ==
  [reads    |-> ledger.reads /\ ledger.rows = requests[ledger.pending],
   pending  |-> None,
   rows     |-> 0,
   logical  |-> ledger.logical + 1,
   physical |-> ledger.physical + requests[ledger.pending]]

SettleJudgment ==
  /\ guardPc = "after" /\ left = 0
  /\ ledger' = SettledLedger
  /\ Goto("running")
  /\ UNCHANGED <<workspace, runJournal, requests, identity, status, source, recorded, world>>

WriteRunning ==
  /\ guardPc = "running"
  /\ WriteStatus("running")
  /\ Goto("next")
  /\ UNCHANGED <<workspace, runJournal, requests, identity, ledger, source, recorded, world>>

\* The handler replays the journal and writes what the run has come to.
MarkInterrupted ==
  /\ guardPc = "interrupted"
  /\ WriteStatus(IF Unknown THEN "reconciliation_required" ELSE "resumable_interruption")
  /\ Stop
  /\ UNCHANGED <<workspace, runJournal, requests, identity, ledger, source, recorded, world>>

-----------------------------------------------------------------------------
\* The source.

ReadyToClose ==
  /\ guardPc = "next" /\ opened = "yes" /\ Todo = {}
  /\ IF ledger.pending = None /\ ledger.logical = Logical
       THEN WriteStatus("ready_to_close") /\ Goto("closing")
       ELSE Stop /\ UNCHANGED status
  /\ UNCHANGED <<workspace, runJournal, requests, identity, ledger, source, recorded, world>>

Stage ==
  /\ guardPc = "closing"
  /\ IF source = "absent" THEN source' = "staged" /\ Goto("publishing")
                          ELSE Stop /\ UNCHANGED source
  /\ UNCHANGED <<workspace, runJournal, requests, identity, ledger, status, recorded, world>>

\* The counts of the guard are compared with the persisted rows' own.
ProviderAccounting == [logical  |-> ledger.logical, physical |-> ledger.physical]
Persisted == [logical  |-> Cardinality(PoolPairs \ Todo),
              physical |-> MapThenSumSet(LAMBDA p : requests[p], PoolPairs)]

Publish ==
  /\ guardPc = "publishing"
  /\ IF ProviderAccounting = Persisted THEN source' = "closed" /\ recorded' = ProviderAccounting
                                       ELSE source' = "absent" /\ UNCHANGED recorded
  /\ Stop
  /\ UNCHANGED <<workspace, runJournal, requests, identity, ledger, status, world>>

\* An exception while the source is staged removes the staging directory.
FailClosure ==
  /\ guardPc = "publishing" /\ failures < MaxFailures
  /\ failures' = failures + 1
  /\ source' = "absent" /\ Stop
  /\ UNCHANGED <<workspace, runJournal, requests, identity, ledger, status, recorded, callsMade,
                 total>>

Kill ==
  /\ guardPc # "down" /\ failures < MaxFailures
  /\ failures' = failures + 1
  /\ Stop
  /\ UNCHANGED <<disk, callsMade, total>>

-----------------------------------------------------------------------------
Step ==
  \/ Launch \/ Resume \/ OpenExisting \/ WriteIdentity \/ Initialize \/ Reconcile
  \/ Before \/ StopAtCap \/ MarkReserved \/ StartPair \/ CallAdapter \/ RegisterTerminal
  \/ LoseAnswer \/ RefuseAnswer \/ AccountAttempt \/ SettleJudgment \/ WriteRunning
  \/ MarkInterrupted \/ ReadyToClose \/ Stage \/ Publish

GuardNext == Step \/ FailClosure \/ Kill

GuardSpec == GuardInit /\ [][GuardNext]_guardVars

\* The process goes on, and its operator starts it again; nobody owes a kill.
GuardFairSpec == GuardSpec /\ WF_guardVars(Step)

-----------------------------------------------------------------------------
Lifecycles ==
  {"none", "initialized", "attempt_reserved", "running", "resumable_cap_stop",
   "reconciliation_required", "resumable_interruption", "ready_to_close"}

TypeOK ==
  /\ workspace \in BOOLEAN /\ identity \in BOOLEAN
  /\ runJournal \in [PoolPairs -> {"none", "started", "terminal"}]
  /\ requests \in [PoolPairs -> 0 .. AttemptsPerPair]
  /\ ledger \in [reads : BOOLEAN, pending : {None} \union PoolPairs, rows : Nat,
                 logical : Nat, physical : Nat]
  /\ status \in [lifecycle : Lifecycles, logical : Nat, physical : Nat]
  /\ source \in {"absent", "staged", "closed"}
  /\ recorded \in [logical : Nat, physical : Nat]
  /\ guardPc \in {"down", "next", "reconcile", "reserved", "dispatching", "calling", "after",
                  "running", "interrupted", "closing", "publishing"}
  /\ opened \in {"no", "named", "yes"}
  /\ tries \in 0 .. AttemptsPerPair /\ left \in 0 .. AttemptsPerPair
  /\ callsMade \in [PoolPairs -> Nat] /\ total \in Nat /\ failures \in 0 .. MaxFailures

(***************************************************************************)
(* Through kills, lost answers and half-written accounting, every call     *)
(* ever made is in the ledger or inside the one window it has reserved,    *)
(* the two together stay under the cap, and a source that closes has paid  *)
(* for exactly the calls that were made.                                   *)
(***************************************************************************)
LedgerCoversCalls ==
  /\ total <= ledger.physical + Window
  /\ ledger.physical + Window <= PhysicalCap
  /\ source = "closed" => recorded = [logical |-> Logical, physical |-> total]

(***************************************************************************)
(* Every run ends: with a source, at the cap, or in front of an answer     *)
(* nobody knows; but one that was killed may end in a workspace the guard  *)
(* refuses, or beside a staging directory nobody removes.                  *)
(***************************************************************************)
Ended   == source = "closed" \/ status.lifecycle \in {"resumable_cap_stop", "reconciliation_required"}
Blocked == identity /\ (Refused \/ source = "staged")
RunEnds == <>[](Ended \/ (failures > 0 /\ Blocked))

(***************************************************************************)
(* "An interruption after a terminal returns resumable": whenever a        *)
(* process ends with a terminal in the journal, the guard opens again.     *)
(***************************************************************************)
TerminalReopens ==
  (guardPc = "down" /\ Todo # PoolPairs) => ~Refused

\* The settlement promise every durable runner of this code keeps, with the
\* ledger of this one: a pair is called only while it is started, and its
\* terminal charges the calls it has had.
GuardPromise == INSTANCE PairSettlement WITH
  Pairs <- PoolPairs, MaxAttempts <- AttemptsPerPair,
  attempts <- callsMade,
  status   <- [p \in PoolPairs |-> CASE runJournal[p] = "none"    -> "open"
                                 [] runJournal[p] = "started" -> "dispatched"
                                 [] OTHER                  -> "settled"],
  outcome  <- [p \in PoolPairs |-> IF runJournal[p] = "terminal"
                                 THEN [kind |-> "terminal", charge |-> requests[p]]
                                 ELSE [kind |-> "none", charge |-> 0]]
GuardKeepsPromise == GuardPromise!Spec
=============================================================================
