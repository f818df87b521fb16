---------------------- MODULE SegmentedContinuationProofs ----------------------
(***************************************************************************)
(* Theorems about SegmentedContinuation, for every schedule, batch size,   *)
(* number of lanes, cap, prefix and number of kills: batches are committed *)
(* whole and in order, and the source closes over all of them; and the     *)
(* status accounts for every call, and is one that the loader takes.       *)
(***************************************************************************)
EXTENDS SegmentedContinuation, FiniteLemmas, TLAPS

Final  == BatchOf(Suffix)
States == {"open", "reserved", "dispatched"} \cup Outcomes

Typed ==
  /\ journal \in [Pairs -> States]
  /\ wave \in SUBSET Pairs
  /\ "commits" \in DOMAIN ledger /\ ledger.commits \in 0 .. Final

\* Where the process is, and which pairs may then be neither open nor terminal.
Closing == {"stage", "anchor", "rename", "complete"}
InWave  == {"announce", "dispatch", "submit", "settle", "frontier", "closed"}
Between == {"create", "unauthorized", "plan", "commit"}

Place ==
  /\ started = "absent" => /\ pc = "down" /\ ledger.commits = 0
                           /\ \A p \in Pairs : journal[p] = "open"
  /\ pc \in {"create", "unauthorized"} => ledger.commits = 0
  /\ pc \in Between => \A p \in Pairs : journal[p] \in {"open", "terminal"}
  /\ pc \in InWave => \A p \in Pairs \ wave : journal[p] \in {"open", "terminal"}
  /\ pc \in Between \cup InWave => ledger.commits < Final
  /\ pc = "commit" => InBatch \subseteq Terminal
  /\ pc \in Closing \/ source # "none" => ledger.commits = Final

IInv == Typed /\ Place /\ WholeBatchesOnly

-----------------------------------------------------------------------------
\* What the assumptions say of the schedule: batches follow one another in it.
LEMMA BatchType == Final \in Nat \ {0} /\ \A p \in Pairs : BatchOf(p) \in Nat \ {0}
BY SizeAssumption DEF BatchOf, Pairs, Final

\* A later pair is in no earlier batch.
LEMMA BatchesInOrder == \A p, q \in Pairs : p <= q => BatchOf(p) <= BatchOf(q)
<1> SUFFICES ASSUME NEW p \in Pairs, NEW q \in Pairs, p <= q PROVE BatchOf(p) <= BatchOf(q)
  OBVIOUS
<1> DEFINE a == (p - 1) \div BatchSize
           b == (q - 1) \div BatchSize
<1>1. p - 1 \in Nat /\ q - 1 \in Nat /\ p - 1 <= q - 1 /\ BatchSize \in Nat \ {0}
  BY SizeAssumption DEF Pairs
<1>2. a \in Nat /\ b \in Nat
  BY <1>1
<1>3. a <= b
  BY <1>1
<1> QED
  BY <1>2, <1>3 DEF BatchOf

\* The last pair of the schedule is in the last batch.
LEMMA FinalIsLast == \A p \in Pairs : BatchOf(p) <= Final
BY BatchesInOrder, SizeAssumption DEF Pairs, Final

-----------------------------------------------------------------------------
\* A workspace that is not there yet.
LEMMA InitInvariant == Init => IInv
<1> SUFFICES ASSUME Init PROVE IInv
  OBVIOUS
<1>1. Typed
  BY BatchType DEF Init, Typed, States, NoLedger
<1>2. Place
  BY DEF Init, Place, NoLedger, Between, InWave, Closing
<1>3. WholeBatchesOnly
  BY BatchType DEF Init, WholeBatchesOnly, NoLedger, NoStatus
<1> QED
  BY <1>1, <1>2, <1>3 DEF IInv

\* A step that changes neither the journal, the commits, nor the source, goes to a
\* place where less is promised, and writes no status that says complete.
Same ==
  /\ journal' = journal /\ source' = source
  /\ "commits" \in DOMAIN ledger' /\ ledger'.commits = ledger.commits

\* It keeps the promise of whole batches.
LEMMA WholeKept ==
  ASSUME IInv, Same, status'.lifecycle = "complete" => status' = status \/ ledger.commits = Final
  PROVE  WholeBatchesOnly'
<1> USE DEF IInv, Same, WholeBatchesOnly, Terminal
<1>1. ASSUME NEW p \in Pairs, status'.lifecycle = "complete"
      PROVE  journal[p] = "terminal" /\ ledger.commits = Final
  BY <1>1, FinalIsLast, BatchType DEF Final, Typed
<1> QED
  BY <1>1, BatchType DEF Final, BatchOf

\* The process stays where it is, or goes on inside its wave.
LEMMA MoveStep ==
  ASSUME IInv, Same, wave' = wave, started' = started, status' = status,
         pc' = pc \/ (pc \in InWave /\ pc' \in InWave)
  PROVE  IInv'
<1>1. Typed'
  BY DEF IInv, Typed, Same
<1>2. Place'
  BY DEF IInv, Place, Same, InWave, Between, Closing, InBatch, Terminal
<1>3. WholeBatchesOnly'
  BY WholeKept
<1> QED
  BY <1>1, <1>2, <1>3 DEF IInv

\* The process dies, unwinds, reports, or comes to seal what another has left.
LEMMA LeaveStep ==
  ASSUME IInv, Same, wave' \in SUBSET Pairs, started' = started, started # "absent",
         status'.lifecycle = "complete" => status' = status \/ ledger.commits = Final,
         pc' \in {"down", "unwind", "seal"}
  PROVE  IInv'
<1>1. Typed'
  BY DEF IInv, Typed, Same
<1>2. Place'
  BY DEF IInv, Place, Same, InWave, Between, Closing
<1>3. WholeBatchesOnly'
  BY WholeKept
<1> QED
  BY <1>1, <1>2, <1>3 DEF IInv

\* The workspace is created, by the one process that will ever dispatch.
LEMMA BeginStep == IInv /\ (Create \/ Begin) => IInv'
<1> SUFFICES ASSUME IInv, Create \/ Begin PROVE IInv'
  OBVIOUS
<1>0. Same /\ wave' = wave /\ status' = status
  BY DEF Create, Begin, Same, IInv, Typed
<1>1. Typed'
  BY <1>0 DEF IInv, Typed, Same
<1>2. Place'
  <2>1. CASE Create
    BY <1>0, <2>1, BatchType DEF IInv, Place, Same, Create, Goto, InWave, Between, Closing
  <2>2. CASE Begin
    BY <1>0, <2>2, BatchType DEF IInv, Place, Same, Begin, Goto, InWave, Between, Closing
  <2> QED
    BY <2>1, <2>2
<1>3. WholeBatchesOnly'
  BY <1>0, WholeKept
<1> QED
  BY <1>1, <1>2, <1>3 DEF IInv

-----------------------------------------------------------------------------
\* The steps that change the journal.

\* None of them touches a pair that is terminal, nor one of a later batch.
LEMMA WholeAfterJournal ==
  ASSUME IInv, ledger' = ledger, status' = status,
         \A p \in Pairs : journal'[p] = journal[p]
                          \/ (journal[p] # "terminal" /\ BatchOf(p) <= ledger.commits + 1)
  PROVE  WholeBatchesOnly'
<1> SUFFICES ASSUME NEW p \in Pairs
    PROVE  /\ BatchOf(p) <= ledger.commits => journal'[p] = "terminal"
           /\ BatchOf(p) > ledger.commits + 1 => journal'[p] = "open"
           /\ status.lifecycle = "complete" => journal'[p] = "terminal" /\ ledger.commits = Final
  BY DEF WholeBatchesOnly, Terminal, Final, BatchOf
<1>1. /\ BatchOf(p) <= ledger.commits => journal[p] = "terminal"
      /\ BatchOf(p) > ledger.commits + 1 => journal[p] = "open"
      /\ status.lifecycle = "complete" => journal[p] = "terminal" /\ ledger.commits = Final
  BY DEF IInv, WholeBatchesOnly, Terminal, Final
<1>2. BatchOf(p) \in Nat /\ ledger.commits \in Nat
  BY BatchType DEF IInv, Typed
<1> QED
  BY <1>1, <1>2

\* A wave is taken from the open pairs of the batch.
LEMMA ReserveStep == IInv /\ ReserveWave => IInv'
<1> SUFFICES ASSUME IInv, ReserveWave PROVE IInv'
  OBVIOUS
<1>1. wave' \subseteq Remaining /\ Remaining \subseteq Pairs
  BY DEF ReserveWave, Remaining, InBatch
<1>2. \A p \in Pairs : journal'[p] = IF p \in wave' THEN "reserved" ELSE journal[p]
  BY DEF ReserveWave
<1>3. Typed'
  BY <1>1 DEF IInv, Typed, ReserveWave, States
<1>4. Place'
  BY <1>2 DEF IInv, Place, ReserveWave, Goto, InWave, Between, Closing
<1>5. \A p \in wave' : journal[p] = "open" /\ BatchOf(p) = ledger.commits + 1
  BY <1>1 DEF Remaining, InBatch
<1>6. WholeBatchesOnly'
  BY <1>2, <1>5, WholeAfterJournal, BatchType DEF ReserveWave, IInv, Typed
<1> QED
  BY <1>3, <1>4, <1>6 DEF IInv

\* A dispatch, a settlement or a seal of one pair that is reserved or dispatched.
LEMMA PairStep ==
  ASSUME IInv, NEW p \in Pairs, NEW s \in States,
         journal[p] \in {"reserved", "dispatched"},
         journal' = [journal EXCEPT ![p] = s],
         ledger' = ledger, source' = source, status' = status, started' = started, wave' = wave,
         pc \in InWave \/ pc = "seal", pc' = pc \/ (pc \in InWave /\ pc' \in InWave)
  PROVE  IInv'
<1>1. \A q \in Pairs : journal'[q] = IF q = p THEN s ELSE journal[q]
  BY DEF IInv, Typed
<1>2. Typed'
  BY DEF IInv, Typed
<1>3. pc \in InWave => p \in wave
  BY DEF IInv, Place
<1>4. Place'
  BY <1>1, <1>3 DEF IInv, Place, InWave, Between, Closing
<1>5. BatchOf(p) <= ledger.commits + 1
  BY BatchType DEF IInv, WholeBatchesOnly, Typed
<1>6. WholeBatchesOnly'
  BY <1>1, <1>5, WholeAfterJournal
<1> QED
  BY <1>2, <1>4, <1>6 DEF IInv

-----------------------------------------------------------------------------
\* The steps that end a wave, a batch and the run.

\* With its pairs all terminal a wave leaves none reserved or dispatched.
LEMMA GoOnStep == IInv /\ GoOn => IInv'
<1> SUFFICES ASSUME IInv, GoOn PROVE IInv'
  OBVIOUS
<1>0. Same /\ wave' = wave /\ status' = status /\ started' = started
  BY DEF GoOn, files, Same, IInv, Typed
<1>1. Typed'
  BY <1>0 DEF IInv, Typed, Same
<1>2. \A p \in Pairs : journal[p] \in {"open", "terminal"}
  BY DEF IInv, Place, GoOn, AllTerminal, Terminal, InWave
<1>3. Remaining = {} => InBatch \subseteq Terminal
  BY <1>2 DEF Remaining, Terminal, InBatch
<1>4. Place'
  <2>1. ledger' = ledger /\ journal' = journal /\ source' = source /\ pc = "closed"
    BY DEF GoOn, files
  <2>2. \/ pc' = "commit" /\ Remaining = {}
        \/ pc' = "plan"
    BY DEF GoOn, Goto
  <2> QED
    BY <1>0, <1>2, <1>3, <2>1, <2>2
    DEF IInv, Place, InWave, Between, Closing, InBatch, Terminal
<1>5. WholeBatchesOnly'
  BY <1>0, WholeKept
<1> QED
  BY <1>1, <1>4, <1>5 DEF IInv

\* The batch has no pair that is not terminal, so that its commit keeps the order.
LEMMA CommitStep == IInv /\ CommitBatch => IInv'
<1> SUFFICES ASSUME IInv, CommitBatch PROVE IInv'
  OBVIOUS
<1>0. /\ ledger'.commits = ledger.commits + 1 /\ "commits" \in DOMAIN ledger'
      /\ UNCHANGED <<journal, source, status, started, wave>>
  BY DEF CommitBatch, Tell, IInv, Typed
<1>1. ledger.commits \in Nat /\ ledger.commits < Final /\ Final \in Nat
  BY BatchType DEF IInv, Place, Typed, CommitBatch, Between
<1>2. Typed'
  BY <1>0, <1>1 DEF IInv, Typed
<1>3. Place'
  BY <1>0, <1>1 DEF IInv, Place, CommitBatch, Goto, InWave, Between, Closing, Final
<1>4. ASSUME NEW p \in Pairs
      PROVE  /\ BatchOf(p) <= ledger.commits + 1 => p \in Terminal
             /\ BatchOf(p) > ledger.commits + 2 => journal[p] = "open"
             /\ status.lifecycle # "complete"
  BY <1>1, BatchType DEF IInv, Place, WholeBatchesOnly, InBatch, CommitBatch, Final
<1>5. WholeBatchesOnly'
  BY <1>0, <1>1, <1>4, BatchType DEF WholeBatchesOnly, Terminal, BatchOf
<1> QED
  BY <1>2, <1>3, <1>5 DEF IInv

\* source-v2 is closed when the last batch is committed.
LEMMA CloseStep == IInv /\ (StageSource \/ AnchorSource \/ RenameSource) => IInv'
<1> SUFFICES ASSUME IInv, StageSource \/ AnchorSource \/ RenameSource PROVE IInv'
  OBVIOUS
<1>0. /\ UNCHANGED <<journal, status, started, wave>> /\ pc \in Closing /\ pc' \in Closing
      /\ "commits" \in DOMAIN ledger' /\ ledger'.commits = ledger.commits
  BY DEF StageSource, AnchorSource, RenameSource, CloseSource, Goto, Closing, IInv, Typed
<1>1. Typed'
  BY <1>0 DEF IInv, Typed
<1>2. Place'
  BY <1>0 DEF IInv, Place, InWave, Between, Closing
<1>3. WholeBatchesOnly'
  BY <1>0 DEF IInv, WholeBatchesOnly, Terminal, BatchOf
<1> QED
  BY <1>1, <1>2, <1>3 DEF IInv

-----------------------------------------------------------------------------
\* A status written by a process that stops says complete only of a closed source.
LEMMA StopStep ==
  ASSUME IInv,
         StopUnauthorized \/ StopAtCap \/ StopSettled \/ Complete \/ Handle \/ Escape
           \/ ReportWaves \/ RebuildStatus
  PROVE  IInv'
<1>1. pc # "down" /\ started' = started /\ started # "absent" /\ wave' = wave
  BY DEF IInv, Place, StopUnauthorized, StopAtCap, StopSettled, Complete, Handle, Escape,
     ReportWaves, RebuildStatus, PersistStatus, files
<1>2. Same /\ pc' \in {"down", "unwind", "seal"}
  BY DEF Same, IInv, Typed, StopUnauthorized, StopAtCap, StopSettled, Complete, Handle, Escape,
     ReportWaves, RebuildStatus, PersistStatus, files, Goto
<1>3. status'.lifecycle = "complete" => status' = status \/ ledger.commits = Final
  <2>1. CASE Complete \/ RebuildStatus
    BY <2>1 DEF IInv, Place, Complete, RebuildStatus, Closing, files
  <2>2. CASE Escape
    BY <2>2 DEF Escape, files
  <2>3. CASE StopUnauthorized \/ StopAtCap \/ Handle
    BY <2>3 DEF StopUnauthorized, StopAtCap, Handle, PersistStatus, Plain, NoStatus
  <2>4. CASE StopSettled \/ ReportWaves
    BY <2>4 DEF StopSettled, ReportWaves, PersistStatus, OfSettlement, NoStatus
  <2> QED
    BY <2>1, <2>2, <2>3, <2>4
<1>4. wave' \in SUBSET Pairs
  BY <1>1 DEF IInv, Typed
<1> QED
  BY <1>1, <1>2, <1>3, <1>4, LeaveStep

\* Killed, or unwinding from an exception.
LEMMA FailStep == IInv /\ Fail => IInv'
<1> SUFFICES ASSUME IInv, Fail PROVE IInv'
  OBVIOUS
<1>1. /\ Same /\ started' = started /\ started # "absent" /\ status' = status
      /\ wave' \in SUBSET Pairs /\ pc' \in {"down", "unwind", "seal"}
  BY DEF IInv, Typed, Place, Fail, Same, files, Goto
<1> QED
  BY <1>1, LeaveStep

\* A process that comes later finds a workspace that was started.
LEMMA LoadStep == IInv /\ Load => IInv'
<1> SUFFICES ASSUME IInv, Load PROVE IInv'
  OBVIOUS
<1>1. /\ Same /\ started' = started /\ started # "absent" /\ status' = status
      /\ wave' \in SUBSET Pairs /\ pc' \in {"down", "unwind", "seal"}
  BY DEF IInv, Typed, Load, Loadable, Same, files, Goto
<1> QED
  BY <1>1, LeaveStep

\* Calls, announcements, accounting, and the closing of waves.
LEMMA WaveStep ==
  ASSUME IInv,
         AnnounceWave \/ SubmitPair \/ Account \/ TellTerminal \/ CloseWave \/ SealWave
           \/ (\E p \in Pairs : Call(p)) \/ UNCHANGED vars
  PROVE  IInv'
<1>1. Same
  BY DEF Same, IInv, Typed, AnnounceWave, SubmitPair, Account, TellTerminal, CloseWave, SealWave,
     Call, Tell, files, vars
<1>2. wave' = wave /\ started' = started /\ status' = status
  BY DEF AnnounceWave, SubmitPair, Account, TellTerminal, CloseWave, SealWave, Call, Tell, files,
     vars
<1>3. pc' = pc \/ (pc \in InWave /\ pc' \in InWave)
  BY DEF AnnounceWave, SubmitPair, Account, TellTerminal, CloseWave, SealWave, Call, Tell, files,
     vars, Goto, InWave
<1> QED
  BY <1>1, <1>2, <1>3, MoveStep

\* A worker's pair is dispatched, settled, or sealed by the next process.
LEMMA JournalStep ==
  ASSUME IInv, DispatchPair \/ (\E p \in Pairs : SettlePair(p)) \/ SealPair
  PROVE  IInv'
<1>0. Pairs \subseteq Nat
  BY DEF Pairs
<1>1. CASE DispatchPair
  <2> DEFINE D == {q \in wave : journal[q] = "reserved"}
             p == Min(D)
  <2>1. D # {} /\ D \subseteq Nat
    BY <1>0, <1>1 DEF DispatchPair, IInv, Typed
  <2>2. p \in D
    BY <2>1, MinIsMember
  <2>3. p \in Pairs /\ journal[p] = "reserved"
    BY <2>2 DEF IInv, Typed
  <2>4. journal' = [journal EXCEPT ![p] = "dispatched"] /\ "dispatched" \in States
    BY <1>1 DEF DispatchPair, States
  <2>5. /\ UNCHANGED <<ledger, source, status, started, wave>>
        /\ pc \in InWave /\ pc' \in InWave
    BY <1>1 DEF DispatchPair, Goto, InWave
  <2> QED
    BY <2>3, <2>4, <2>5, PairStep
<1>2. CASE \E p \in Pairs : SettlePair(p)
  <2>1. PICK p \in Pairs : SettlePair(p)
    BY <1>2
  <2>2. PICK s \in Outcomes : journal' = [journal EXCEPT ![p] = s]
    BY <2>1 DEF SettlePair
  <2>3. /\ UNCHANGED <<ledger, source, status, started, wave, pc>>
        /\ pc \in InWave /\ journal[p] = "dispatched" /\ s \in States
    BY <2>1 DEF SettlePair, InWave, States
  <2> QED
    BY <2>2, <2>3, PairStep
<1>3. CASE SealPair
  <2> DEFINE p == Min(Unsettled)
  <2>1. Unsettled # {} /\ Unsettled \subseteq Nat
    BY <1>0, <1>3 DEF SealPair, Unsettled
  <2>2. p \in Unsettled
    BY <2>1, MinIsMember
  <2>3. p \in Pairs /\ journal[p] = "dispatched"
    BY <2>2 DEF Unsettled
  <2>4. journal' = [journal EXCEPT ![p] = "unknown"] /\ "unknown" \in States
    BY <1>3 DEF SealPair, States, Outcomes
  <2>5. UNCHANGED <<ledger, source, status, started, wave, pc>> /\ pc = "seal"
    BY <1>3 DEF SealPair
  <2> QED
    BY <2>3, <2>4, <2>5, PairStep
<1> QED
  BY <1>1, <1>2, <1>3

-----------------------------------------------------------------------------
\* The invariant is inductive: one lemma for each kind of step.
LEMMA NextInvariant == IInv /\ [Next]_vars => IInv'
<1> SUFFICES ASSUME IInv, [Next]_vars PROVE IInv'
  OBVIOUS
<1>1. CASE Create \/ Begin
  BY <1>1, BeginStep
<1>2. CASE ReserveWave
  BY <1>2, ReserveStep
<1>3. CASE DispatchPair \/ (\E p \in Pairs : SettlePair(p)) \/ SealPair
  BY <1>3, JournalStep
<1>4. CASE AnnounceWave \/ SubmitPair \/ Account \/ TellTerminal \/ CloseWave \/ SealWave
             \/ (\E p \in Pairs : Call(p)) \/ UNCHANGED vars
  BY <1>4, WaveStep
<1>5. CASE GoOn
  BY <1>5, GoOnStep
<1>6. CASE CommitBatch
  BY <1>6, CommitStep
<1>7. CASE StageSource \/ AnchorSource \/ RenameSource
  BY <1>7, CloseStep
<1>8. CASE StopUnauthorized \/ StopAtCap \/ StopSettled \/ Complete \/ Handle \/ Escape
             \/ ReportWaves \/ RebuildStatus
  BY <1>8, StopStep
<1>9. CASE Fail
  BY <1>9, FailStep
<1>10. CASE Load
  BY <1>10, LoadStep
<1> QED
  BY <1>1, <1>2, <1>3, <1>4, <1>5, <1>6, <1>7, <1>8, <1>9, <1>10 DEF Next, Run

\* Types, the place of the process, and WholeBatchesOnly, in every reachable state.
THEOREM InvariantHolds == Spec => []IInv
<1> QED
  BY InitInvariant, NextInvariant, PTL DEF Spec

\* However often the process is killed or raises: a batch is committed only with all
\* its pairs terminal, none of a later batch is reserved before, and a status says
\* complete only when every pair of the schedule is terminal.
THEOREM BatchesAreWhole == Spec => []WholeBatchesOnly
<1>1. IInv => WholeBatchesOnly
  BY DEF IInv
<1> QED
  BY <1>1, InvariantHolds, PTL

-----------------------------------------------------------------------------
\* What the statuses rest on: the charges and the ledger tell every call.

Before == PrefixPhysical + MigrationCharge

\* What a pair may still cost: a pair of a wave its whole window, until it is settled.
Exposure == [p \in Pairs |-> IF journal[p] \in {"reserved", "dispatched"} THEN MaxAttempts
                             ELSE charge[p]]

\* Places of a process that has a wave before it or in flight, and what it has accounted for.
Dispatching == {"dispatch", "submit", "settle"}
OpenWave    == Dispatching \cup {"announce", "frontier"}
Running     == Between \cup InWave \cup Closing
Places      == Running \cup {"down", "unwind", "seal"}
Counted     == IF pc \in OpenWave THEN Pairs \ wave ELSE Pairs

Ledgers == [reserved : BOOLEAN, dispatched : 0 .. Suffix, terminals : 0 .. Suffix,
            physical : Nat, commits : 0 .. Final, anchored : BOOLEAN]

CountsTyped ==
  /\ charge \in [Pairs -> 0 .. MaxAttempts] /\ calls \in [Pairs -> 0 .. MaxAttempts]
  /\ spent \in Nat /\ pc \in Places
  /\ ledger \in Ledgers

Charged ==
  \A p \in Pairs :
    /\ journal[p] \in {"open", "reserved"} => calls[p] = 0
    /\ journal[p] \in {"open", "reserved", "dispatched"} => charge[p] = 0
    /\ journal[p] \in Outcomes => calls[p] <= charge[p]

UnderCap == Before <= PhysicalCap => Before + Sum(Exposure, Pairs) <= PhysicalCap

\* The ledger's reservation stands from before the first dispatch to the accounting.
Booked ==
  /\ ~ledger.reserved => Unsettled = {} /\ ledger.physical = Sum(charge, Pairs)
  /\ pc \in Dispatching => ledger.reserved /\ ledger.physical = Sum(charge, Pairs \ wave)
  /\ pc \in Running \ Dispatching => ~ledger.reserved
  /\ pc \in Running \ {"create"} => spent = Before + Sum(charge, Counted)

Shut ==
  /\ closed => Unsettled = {}
  /\ pc \in OpenWave => ~closed
  /\ pc \in Running \ OpenWave => closed
  /\ pc = "seal" => Waves /\ status = NoStatus

\* Waves are intervals of the schedule, and follow one another in it.
Reached == IF pc = "submit" THEN ledger.dispatched + 1 ELSE ledger.dispatched

Frontier ==
  /\ ~ledger.reserved => \A p \in Pairs : p \in Dispatched <=> p <= ledger.dispatched
  /\ pc \in Dispatching => \A p \in Pairs : p \in Dispatched <=> p <= Reached
  /\ pc \in InWave => \A p \in Pairs : journal[p] = "open" => p \notin wave /\ \A q \in wave : q < p
  /\ pc \in Running => \A p \in Pairs : journal[p] = "reserved" => p \in wave
  /\ pc \in Running \ {"announce", "dispatch", "submit"} =>
       \A p \in Pairs : journal[p] # "reserved"
  /\ pc = "announce" => \A p \in wave : journal[p] = "reserved"
  /\ pc = "submit" => ledger.dispatched + 1 \in Pairs

Terminals ==
  /\ \A p \in Pairs : p <= ledger.terminals => p \in Terminal
  /\ pc \in InWave => \A p \in Dispatched \ wave : p <= ledger.terminals
  /\ pc = "closed" => ~(NextTerminal \in wave /\ NextTerminal \in Terminal)
  /\ pc \in Between \cup Closing => ledger.terminals = ledger.dispatched

SourceKept ==
  /\ pc \in {"rename", "complete"} \/ source = "renamed" => ledger.anchored
  /\ pc = "complete" => source = "renamed"

Begun ==
  /\ started = "absent" \/ pc \in {"create", "unauthorized"} =>
       ledger = NoLedger /\ closed /\ \A p \in Pairs : journal[p] = "open"
  /\ pc = "unauthorized" => migration = "unauthorized"

Books == /\ CountsTyped /\ Charged /\ UnderCap /\ Booked /\ Shut /\ Frontier /\ Terminals
         /\ SourceKept /\ Begun

\* A status is the last thing that happens to a workspace.
Written ==
  status # NoStatus => /\ pc = "down" /\ started # "absent"
                       /\ StatusCoversCalls /\ ReloadsItsStatus

Accounts == Books /\ Written

-----------------------------------------------------------------------------
\* The pairs are finitely many, and what is charged or called is a number.
LEMMA PairsFinite == IsFiniteSet(Pairs) /\ \A S \in SUBSET Pairs : IsFiniteSet(S)
<1>1. IsFiniteSet(Pairs)
  BY SizeAssumption, FS_Interval DEF Pairs
<1> QED
  BY <1>1, FS_Subset

\* So are their sums.
LEMMA SumsAreNat ==
  ASSUME CountsTyped, NEW S \in SUBSET Pairs
  PROVE  Sum(charge, S) \in Nat /\ Sum(calls, S) \in Nat
<1>1. \A p \in S : charge[p] \in Nat /\ calls[p] \in Nat
  BY CapAssumption DEF CountsTyped
<1> QED
  BY <1>1, PairsFinite, SumNat

\* Where nothing is charged, the sum is zero.
LEMMA NothingCharged ==
  ASSUME NEW f, NEW S \in SUBSET Pairs, \A p \in S : f[p] = 0
  PROVE  Sum(f, S) = 0
<1>1. \A p \in S : f[p] \in Nat /\ f[p] <= 0
  OBVIOUS
<1>2. Sum(f, S) <= Cardinality(S) * 0 /\ Sum(f, S) \in Nat
  BY <1>1, PairsFinite, SumBound, SumNat
<1>3. Cardinality(S) * 0 = 0
  BY PairsFinite, FS_CardinalityType
<1> QED
  BY <1>2, <1>3

\* What an unauthorized retry would have cost is charged only when it is authorized.
LEMMA BeforeIsNat == Before \in Nat /\ PrefixPhysical <= Before
BY CapAssumption DEF Before, MigrationCharge

\* The exposure of each pair is within its window, and covers what it is charged.
LEMMA ExposureType ==
  ASSUME CountsTyped, Charged
  PROVE  \A p \in Pairs : /\ Exposure[p] \in Nat /\ charge[p] \in Nat /\ calls[p] \in Nat
                          /\ charge[p] <= Exposure[p]
BY CapAssumption DEF CountsTyped, Charged, Exposure

\* So the sum of the charges is covered too.
LEMMA ExposureCovers ==
  ASSUME CountsTyped, Charged
  PROVE  /\ Sum(Exposure, Pairs) \in Nat
         /\ Sum(charge, Pairs) <= Sum(Exposure, Pairs)
<1>1. \A p \in Pairs : /\ Exposure[p] \in Nat /\ charge[p] \in Nat
                       /\ charge[p] <= Exposure[p]
  BY ExposureType
<1>2. Sum(Exposure, Pairs) \in Nat
  BY <1>1, PairsFinite, SumNat
<1>3. Sum(charge, Pairs) <= Sum(Exposure, Pairs)
  BY <1>1, PairsFinite, SumLeq
<1> QED
  BY <1>2, <1>3

\* Once every dispatch is settled the charges cover the calls.
LEMMA ChargesCover ==
  ASSUME IInv, CountsTyped, Charged, Unsettled = {}
  PROVE  Sum(calls, Pairs) <= Sum(charge, Pairs)
<1>1. \A p \in Pairs : calls[p] \in Int /\ charge[p] \in Int /\ calls[p] <= charge[p]
  BY CapAssumption DEF CountsTyped, Charged, Unsettled, IInv, Typed, States
<1> QED
  BY <1>1, PairsFinite, SumLeq

\* A pair that was never dispatched is charged nothing.
LEMMA DispatchedSum ==
  ASSUME CountsTyped, Charged
  PROVE  Sum(charge, Dispatched) = Sum(charge, Pairs)
<1>1. Dispatched \in SUBSET Pairs /\ Pairs \ Dispatched \in SUBSET Pairs
  BY DEF Dispatched
<1>2. \A p \in Pairs : charge[p] \in Int
  BY CapAssumption DEF CountsTyped
<1>3. Sum(charge, Dispatched) \in Int /\ Sum(charge, Pairs \ Dispatched) \in Int
  BY <1>1, <1>2, PairsFinite, SumUnion
<1>4. Sum(charge, Pairs) = Sum(charge, Dispatched) + Sum(charge, Pairs \ Dispatched)
  BY <1>1, <1>2, PairsFinite, SumUnion
<1>5. Sum(charge, Pairs \ Dispatched) = 0
  BY <1>1, NothingCharged DEF Charged, Dispatched
<1> QED
  BY <1>3, <1>4, <1>5

\* With the whole wave and what lies outside it, all charges.
LEMMA WaveSum ==
  ASSUME IInv, CountsTyped
  PROVE  Sum(charge, Pairs) = Sum(charge, Pairs \ wave) + Sum(charge, wave)
<1>1. \A p \in Pairs : charge[p] \in Int
  BY CapAssumption DEF CountsTyped
<1>2. wave \in SUBSET Pairs
  BY DEF IInv, Typed
<1>3. Sum(charge, wave) \in Int /\ Sum(charge, Pairs \ wave) \in Int
  BY <1>1, <1>2, PairsFinite, SumUnion
<1>4. Sum(charge, Pairs) = Sum(charge, wave) + Sum(charge, Pairs \ wave)
  BY <1>1, <1>2, PairsFinite, SumUnion
<1> QED
  BY <1>3, <1>4

-----------------------------------------------------------------------------
\* A workspace that is not there yet has nothing to account for.
LEMMA InitAccounts == Init => Accounts
<1> SUFFICES ASSUME Init PROVE Accounts
  OBVIOUS
<1>1. CountsTyped
  BY SizeAssumption, CapAssumption, BatchType
  DEF Init, CountsTyped, Ledgers, NoLedger, Places, Running
<1>2. Charged
  BY DEF Init, Charged, Outcomes
<1>3. Unsettled = {} /\ ledger.reserved = FALSE /\ ledger.physical = 0 /\ ledger.terminals = 0
      /\ ledger.dispatched = 0
  BY DEF Init, Unsettled, NoLedger
<1>4. Sum(charge, Pairs) = 0
  BY NothingCharged DEF Init
<1>5. UnderCap
  <2>1. Sum(Exposure, Pairs) = Sum(charge, Pairs)
    <3>1. \A p \in Pairs : charge[p] \in Int /\ Exposure[p] = charge[p]
      BY DEF Init, Exposure
    <3> QED
      BY <3>1, PairsFinite, SumSame
  <2> QED
    BY <1>4, <2>1, BeforeIsNat DEF UnderCap
<1>6. pc = "down" /\ closed /\ status = NoStatus /\ source = "none"
  BY DEF Init
<1> USE DEF Running, Between, InWave, Closing, OpenWave, Dispatching
<1>7. Booked
  BY <1>3, <1>4, <1>6 DEF Booked
<1>8. Shut
  BY <1>3, <1>6 DEF Shut
<1>9. Frontier /\ Terminals
  BY <1>3, <1>6 DEF Frontier, Terminals, Init, Dispatched, Pairs
<1>10. SourceKept /\ Begun /\ Written
  BY <1>6 DEF SourceKept, Begun, Written, Init
<1> QED
  BY <1>1, <1>2, <1>5, <1>7, <1>8, <1>9, <1>10 DEF Accounts, Books

\* Nothing happens to a workspace that has its status.
LEMMA StatusIsLast == Accounts /\ status # NoStatus /\ [Next]_vars => UNCHANGED vars
BY DEF Accounts, Written, Next, Run, Create, Begin, StopUnauthorized, ReserveWave, StopAtCap,
   AnnounceWave, DispatchPair, SubmitPair, SettlePair, Account, TellTerminal, CloseWave, GoOn,
   StopSettled, CommitBatch, StageSource, AnchorSource, RenameSource, CloseSource, Complete,
   Handle, Escape, SealPair, SealWave, ReportWaves, RebuildStatus, Load, Loadable, Fail, Call,
   InPool

\* What is on disk beside the status, and the calls.
Kept == UNCHANGED <<migration, started, journal, charge, closed, ledger, source, calls>>

\* Who leaves, or comes to seal, changes none of it.
LEMMA LeaveBooks ==
  ASSUME IInv, Books, Kept, started # "absent", spent' \in Nat,
         \/ pc' \in {"down", "unwind"}
         \/ pc' = "seal" /\ Waves /\ status' = NoStatus
  PROVE  Books'
<1> USE DEF Kept, Running, Between, InWave, Closing, OpenWave, Dispatching
<1>1. CountsTyped'
  BY DEF Books, CountsTyped, Ledgers, Places
<1>2. Charged'
  BY DEF Books, Charged
<1>3. UnderCap'
  <2>1. Exposure' = Exposure /\ Before' = Before
    BY DEF Exposure, Before, MigrationCharge
  <2> QED
    BY <2>1 DEF Books, UnderCap
<1>4. Booked'
  BY DEF Books, Booked, Unsettled
<1>5. Shut'
  BY DEF Books, Shut, Unsettled, Waves
<1>6. Frontier' /\ Terminals'
  BY DEF Books, Frontier, Terminals, Dispatched, Terminal
<1>7. SourceKept' /\ Begun'
  BY DEF Books, SourceKept, Begun
<1> QED
  BY <1>1, <1>2, <1>3, <1>4, <1>5, <1>6, <1>7 DEF Books

\* Killed, unwinding, escaping, or coming later.
LEMMA GoneAccounts ==
  ASSUME IInv, Accounts, status = NoStatus,
         Fail \/ Escape \/ Load \/ (RebuildStatus /\ ~(LedgerReads /\ SourceValid))
  PROVE  Accounts'
<1>0. started # "absent"
  BY DEF IInv, Place, Fail, Escape, Load, Loadable, RebuildStatus
<1>1. UNCHANGED files /\ calls' = calls
  BY DEF Fail, Escape, Load, RebuildStatus, PersistStatus
<1>2. spent' \in Nat
  BY DEF Accounts, Books, CountsTyped, Ledgers, Fail, Escape, Load, RebuildStatus, PersistStatus
<1>3. \/ pc' \in {"down", "unwind"}
      \/ pc' = "seal" /\ Waves
  BY DEF Fail, Escape, Load, Loadable, RebuildStatus, Goto
<1>4. Books'
  BY <1>0, <1>1, <1>2, <1>3, LeaveBooks DEF Accounts, Kept, files
<1> QED
  BY <1>1, <1>4 DEF Accounts, Written, files

-----------------------------------------------------------------------------
\* What a status must say to account for every call.

\* With every dispatch settled, the charges cover the calls and keep under the cap.
LEMMA ChargesTell ==
  ASSUME IInv, Books, Unsettled = {}
  PROVE  /\ Before + Sum(charge, Pairs) >= PrefixPhysical + Sum(calls, Pairs)
         /\ Before <= PhysicalCap => Before + Sum(charge, Pairs) <= PhysicalCap
<1>1. CountsTyped /\ Charged /\ UnderCap
  BY DEF Books
<1>2. Sum(calls, Pairs) <= Sum(charge, Pairs)
  BY <1>1, ChargesCover
<1>3. Sum(charge, Pairs) \in Nat /\ Sum(calls, Pairs) \in Nat
  BY <1>1, SumsAreNat
<1>4. Sum(Exposure, Pairs) \in Nat /\ Sum(charge, Pairs) <= Sum(Exposure, Pairs)
  BY <1>1, ExposureCovers
<1> QED
  BY <1>1, <1>2, <1>3, <1>4, BeforeIsNat, CapAssumption DEF UnderCap

\* A ledger that reads has accounted for all of them.
LEMMA LedgerTells ==
  ASSUME Books, LedgerReads
  PROVE  Unsettled = {} /\ LedgerPhysical = Before + Sum(charge, Pairs)
BY DEF Books, Booked, LedgerReads, LedgerPhysical, Before

\* Whoever writes a status covers the calls with it, and writes what the loader takes.
LEMMA WriteAccounts ==
  ASSUME IInv, Accounts, NEW s, PersistStatus(s), started # "absent",
         s.physical >= PrefixPhysical + Sum(calls, Pairs),
         Before <= PhysicalCap => s.physical <= PhysicalCap,
         Dispatched \ Terminal \subseteq s.unknown \cup s.failed,
         ReloadsItsStatus'
  PROVE  Accounts'
<1>1. Kept /\ spent' = spent /\ pc' = "down" /\ status' = s
  BY DEF PersistStatus, Kept, Goto
<1>2. Books'
  BY <1>1, LeaveBooks DEF Accounts, Books, CountsTyped, Ledgers
<1>3. StatusCoversCalls'
  BY <1>1 DEF StatusCoversCalls, Kept, Before, MigrationCharge, Dispatched, Terminal
<1> QED
  BY <1>1, <1>2, <1>3 DEF Accounts, Written, Kept

\* The plain documents.
LEMMA PlainFields ==
  ASSUME NEW l, NEW t, NEW u, NEW n, NEW m
  PROVE  /\ Plain(l, t, u, n, m).schema = "plain" /\ Plain(l, t, u, n, m).lifecycle = l
         /\ Plain(l, t, u, n, m).terminals = t /\ Plain(l, t, u, n, m).unknown = u
         /\ Plain(l, t, u, n, m).failed = {}
         /\ Plain(l, t, u, n, m).logical = n /\ Plain(l, t, u, n, m).physical = m
BY DEF Plain, NoStatus

\* One that agrees with the ledger is taken.
LEMMA PlainReloads ==
  ASSUME NEW l \in {"resumable", "reconciliation_required", "complete"}, NEW t, NEW u, NEW n, NEW m,
         PersistStatus(Plain(l, t, u, n, m)),
         LedgerReads, t = ledger.terminals, n = ledger.dispatched, n \in Nat, m = LedgerPhysical,
         l = "complete" => SourceValid /\ t = Suffix /\ n = Suffix /\ u = {},
         l = "reconciliation_required" => u = Unaccounted
  PROVE  ReloadsItsStatus'
<1>1. status' = Plain(l, t, u, n, m) /\ Kept /\ migration' = migration
  BY DEF PersistStatus, Kept
<1>2. SUFFICES ASSUME migration # "unauthorized" PROVE StatusAccepted'
  BY <1>1 DEF ReloadsItsStatus
<1>3. /\ LedgerReads' = LedgerReads /\ LedgerPhysical' = LedgerPhysical
      /\ Unaccounted' = Unaccounted /\ SourceValid' = SourceValid
      /\ OfSource' = OfSource /\ Unretried' = 0
  BY <1>1, <1>2 DEF Kept, LedgerReads, LedgerPhysical, MigrationCharge, Unaccounted, SourceValid,
     OfSource, Unretried
<1>4. status'.schema # "settlement"
  BY <1>1, PlainFields
<1>5. l = "complete" => status' = OfSource
  BY <1>1 DEF OfSource
<1> QED
  BY <1>1, <1>3, <1>4, <1>5, PlainFields DEF StatusAccepted, Kept

\* The prefix's unknown pair is not to be retried.
LEMMA UnauthorizedAccounts == IInv /\ Accounts /\ StopUnauthorized => Accounts'
<1> SUFFICES ASSUME IInv, Accounts, StopUnauthorized PROVE Accounts'
  OBVIOUS
<1> DEFINE s == Plain("reconciliation_required", 0, MigrationUnknown, 1, PrefixPhysical)
<1>1. PersistStatus(s) /\ pc = "unauthorized" /\ started # "absent"
  BY DEF StopUnauthorized, IInv, Place
<1>2. migration = "unauthorized" /\ \A p \in Pairs : journal[p] = "open"
  BY <1>1 DEF Accounts, Books, Begun
<1>3. Before = PrefixPhysical /\ PrefixPhysical \in Nat
  BY <1>2, CapAssumption DEF Before, MigrationCharge
<1>4. Sum(calls, Pairs) = 0
  BY <1>2, NothingCharged DEF Accounts, Books, Charged
<1>5. s.physical = PrefixPhysical
  BY PlainFields
<1>6. Dispatched = {}
  BY <1>2 DEF Dispatched
<1>7. ReloadsItsStatus'
  BY <1>1, <1>2 DEF ReloadsItsStatus, PersistStatus
<1> HIDE DEF s
<1> QED
  BY <1>1, <1>3, <1>4, <1>5, <1>6, <1>7, WriteAccounts

\* The exception handler takes what the ledger says.
LEMMA HandleAccounts == IInv /\ Accounts /\ Handle => Accounts'
<1> SUFFICES ASSUME IInv, Accounts, Handle PROVE Accounts'
  OBVIOUS
<1> DEFINE s == Plain("reconciliation_required", ledger.terminals, Unaccounted,
                      ledger.dispatched, LedgerPhysical)
<1>1. PersistStatus(s) /\ LedgerReads /\ started # "absent"
  BY DEF Handle, HandledPhysical, IInv, Place
<1>2. Books /\ Unsettled = {} /\ LedgerPhysical = Before + Sum(charge, Pairs)
  BY <1>1, LedgerTells DEF Accounts
<1>3. /\ s.physical >= PrefixPhysical + Sum(calls, Pairs)
      /\ Before <= PhysicalCap => s.physical <= PhysicalCap
  BY <1>2, ChargesTell, PlainFields
<1>4. Dispatched \ Terminal \subseteq Unaccounted
  <2>1. \A p \in Dispatched \ Terminal : p <= ledger.dispatched /\ ~(p <= ledger.terminals)
    BY <1>1, <1>2 DEF LedgerReads, Books, Frontier, Terminals, Dispatched
  <2>2. \A p \in Dispatched \ Terminal : p > ledger.terminals
    BY <1>2, <2>1 DEF Books, CountsTyped, Ledgers, Dispatched, Pairs
  <2> QED
    BY <2>1, <2>2 DEF Unaccounted, Dispatched
<1>5. s.unknown = Unaccounted
  BY PlainFields
<1>6. ReloadsItsStatus'
  <2>1. ledger.dispatched \in Nat
    BY <1>2 DEF Books, CountsTyped, Ledgers
  <2> QED
    BY <1>1, <2>1, PlainReloads
<1> HIDE DEF s
<1> QED
  BY <1>1, <1>3, <1>4, <1>5, <1>6, WriteAccounts

\* The settlement's document, over waves that are all closed.
LEMMA SettlementAccounts ==
  ASSUME IInv, Accounts, PersistStatus(OfSettlement), started # "absent", Waves, closed
  PROVE  Accounts'
<1> DEFINE s == OfSettlement
<1>1. /\ s.physical = Before + Sum(charge, Dispatched)
      /\ s.unknown = {p \in Pairs : journal[p] = "unknown"}
      /\ s.failed = {p \in Pairs : journal[p] = "implementation_failed"}
      /\ s.schema = "settlement"
  BY DEF OfSettlement, NoStatus, Before
<1>2. Books /\ Unsettled = {}
  BY DEF Accounts, Books, Shut
<1>3. Sum(charge, Dispatched) = Sum(charge, Pairs)
  BY <1>2, DispatchedSum DEF Books
<1>4. /\ s.physical >= PrefixPhysical + Sum(calls, Pairs)
      /\ Before <= PhysicalCap => s.physical <= PhysicalCap
  BY <1>1, <1>2, <1>3, ChargesTell
<1>5. Dispatched \ Terminal \subseteq s.unknown \cup s.failed
  BY <1>1, <1>2 DEF Dispatched, Terminal, Unsettled, IInv, Typed, States, Outcomes
<1>6. ReloadsItsStatus'
  <2>1. UNCHANGED <<migration, journal, charge, closed>> /\ status' = s
    BY DEF PersistStatus
  <2>2. OfSettlement' = OfSettlement /\ Waves' = Waves
    BY <2>1 DEF OfSettlement, CommitPending, Waves, Terminal, Dispatched, MigrationCharge
  <2>3. status'.schema = "settlement"
    BY <1>1, <2>1
  <2> HIDE DEF s
  <2>4. StatusAccepted'
    BY <2>1, <2>2, <2>3 DEF StatusAccepted, s
  <2> QED
    BY <2>4 DEF ReloadsItsStatus
<1> HIDE DEF s
<1> QED
  BY <1>4, <1>5, <1>6, WriteAccounts DEF s

\* A wave that does not leave all its pairs terminal, or that another process closes.
LEMMA ReportAccounts == IInv /\ Accounts /\ (StopSettled \/ ReportWaves) => Accounts'
<1> SUFFICES ASSUME IInv, Accounts, StopSettled \/ ReportWaves PROVE Accounts'
  OBVIOUS
<1>1. PersistStatus(OfSettlement) /\ started # "absent" /\ closed
  BY DEF StopSettled, ReportWaves, IInv, Place, Accounts, Books, Shut, Running, InWave, OpenWave,
     Dispatching
<1>2. Waves
  <2>1. CASE StopSettled
    <3>1. pc \in InWave /\ ~(wave \subseteq Terminal) /\ wave \subseteq Pairs
      BY <2>1 DEF StopSettled, AllTerminal, InWave, IInv, Typed
    <3>2. PICK p \in wave : p \in Pairs
      BY <3>1
    <3>3. journal[p] # "open"
      BY <3>1, <3>2 DEF Accounts, Books, Frontier
    <3> QED
      BY <3>2, <3>3 DEF Waves
  <2>2. CASE ReportWaves
    BY <2>2 DEF ReportWaves, Accounts, Books, Shut
  <2> QED
    BY <2>1, <2>2
<1> QED
  BY <1>1, <1>2, SettlementAccounts

\* A document that counts every pair as terminal, and what the ledger has accounted for.
LEMMA PlainAccounts ==
  ASSUME IInv, Accounts, started # "absent", LedgerReads,
         NEW l \in {"resumable", "complete"}, NEW t, NEW n, NEW m,
         PersistStatus(Plain(l, t, {}, n, m)),
         t = ledger.terminals, n = ledger.dispatched, m = LedgerPhysical,
         ledger.terminals = ledger.dispatched,
         l = "complete" => SourceValid
  PROVE  Accounts'
<1> DEFINE s == Plain(l, t, {}, n, m)
<1>1. Books /\ Unsettled = {} /\ LedgerPhysical = Before + Sum(charge, Pairs)
  BY LedgerTells DEF Accounts
<1>2. /\ s.physical >= PrefixPhysical + Sum(calls, Pairs)
      /\ Before <= PhysicalCap => s.physical <= PhysicalCap
  BY <1>1, ChargesTell, PlainFields
<1>3. Dispatched \ Terminal = {}
  BY DEF Accounts, Books, Frontier, Terminals, LedgerReads, Dispatched
<1>4. n \in Nat /\ (l = "complete" => t = Suffix /\ n = Suffix)
  BY <1>1 DEF Books, CountsTyped, Ledgers, SourceValid
<1>5. ReloadsItsStatus'
  BY <1>4, PlainReloads
<1> HIDE DEF s
<1> QED
  BY <1>2, <1>3, <1>5, WriteAccounts DEF s

\* Before a wave, and when all are done, every dispatched pair is terminal, and the
\* process has counted what the ledger has.
LEMMA PlaceTells ==
  ASSUME IInv, Accounts, pc \in {"plan", "complete"}
  PROVE  /\ LedgerReads /\ started # "absent"
         /\ ledger.terminals = ledger.dispatched /\ Terminal = 1 .. ledger.dispatched
         /\ Cardinality(Terminal) = ledger.dispatched
         /\ spent = LedgerPhysical
<1> USE DEF Accounts, Books, Running, Between, Closing, InWave, OpenWave, Dispatching
<1>1. LedgerReads /\ ledger.terminals = ledger.dispatched /\ started # "absent"
  BY DEF LedgerReads, Booked, Terminals, IInv, Place
<1>2. ledger.dispatched \in 0 .. Suffix
  BY DEF CountsTyped, Ledgers
<1>3. \A p \in Pairs : p \in Terminal <=> p <= ledger.dispatched
  BY <1>1 DEF Frontier, Terminals, LedgerReads, Terminal, Dispatched
<1>4. Terminal = 1 .. ledger.dispatched
  BY <1>2, <1>3, SizeAssumption DEF Pairs, Terminal
<1>5. Cardinality(Terminal) = ledger.dispatched
  BY <1>2, <1>4, FS_Interval, SizeAssumption
<1>6. spent = LedgerPhysical
  <2>1. spent = Before + Sum(charge, Pairs)
    BY DEF Booked, Counted
  <2> QED
    BY <1>1, <2>1, LedgerTells
<1> QED
  BY <1>1, <1>4, <1>5, <1>6

\* No retry window is left; or the source is closed.
LEMMA EndAccounts == IInv /\ Accounts /\ (StopAtCap \/ Complete) => Accounts'
<1> SUFFICES ASSUME IInv, Accounts, StopAtCap \/ Complete PROVE Accounts'
  OBVIOUS
<1>1. pc \in {"plan", "complete"}
  BY DEF StopAtCap, Complete
<1>2. CASE StopAtCap
  <2>1. PersistStatus(Plain("resumable", ledger.terminals, {}, ledger.dispatched, LedgerPhysical))
    BY <1>1, <1>2, PlaceTells DEF StopAtCap
  <2> QED
    BY <1>1, <2>1, PlaceTells, PlainAccounts
<1>3. CASE Complete
  <2>1. \A p \in Pairs : p \in Terminal
    BY <1>3, FinalIsLast DEF Complete, IInv, Place, Closing, WholeBatchesOnly
  <2>2. Suffix \in Terminal
    BY <2>1, SizeAssumption DEF Pairs
  <2>3. ledger.dispatched = Suffix
    BY <1>1, <2>2, PlaceTells, SizeAssumption DEF Accounts, Books, CountsTyped, Ledgers
  <2>4. SourceValid
    BY <1>1, <1>3, <2>3, PlaceTells DEF SourceValid, Complete, Accounts, Books, SourceKept
  <2>5. PersistStatus(Plain("complete", ledger.terminals, {}, ledger.dispatched, LedgerPhysical))
    BY <1>1, <1>3, <2>3, PlaceTells DEF Complete
  <2> QED
    BY <1>1, <2>4, <2>5, PlaceTells, PlainAccounts
<1> QED
  BY <1>2, <1>3

\* The status of a closed source is rebuilt by who finds it without one.
LEMMA RebuildAccounts == IInv /\ Accounts /\ status = NoStatus /\ RebuildStatus => Accounts'
<1> SUFFICES ASSUME IInv, Accounts, status = NoStatus, RebuildStatus PROVE Accounts'
  OBVIOUS
<1>1. CASE LedgerReads /\ SourceValid
  <2>1. PersistStatus(Plain("complete", Suffix, {}, Suffix, LedgerPhysical))
    BY <1>1 DEF RebuildStatus, OfSource
  <2>2. ledger.terminals = Suffix /\ ledger.dispatched = Suffix /\ started # "absent"
    BY <1>1 DEF SourceValid, RebuildStatus, IInv, Place
  <2> QED
    BY <1>1, <2>1, <2>2, PlainAccounts
<1>2. CASE ~(LedgerReads /\ SourceValid)
  BY <1>2, GoneAccounts
<1> QED
  BY <1>1, <1>2

-----------------------------------------------------------------------------
\* The steps that leave the pairs as they are.

\* Where no pair is charged, called or settled, the charges and the cap stand.
LEMMA PairsSame ==
  ASSUME Books, UNCHANGED <<migration, journal, charge, calls>>
  PROVE  /\ Charged' /\ UnderCap' /\ Before' = Before
         /\ Unsettled' = Unsettled /\ Dispatched' = Dispatched /\ Terminal' = Terminal
         /\ Waves' = Waves
<1>1. Exposure' = Exposure /\ Before' = Before
  BY DEF Exposure, Before, MigrationCharge
<1>2. Charged' /\ UnderCap'
  BY <1>1 DEF Books, Charged, UnderCap
<1> QED
  BY <1>1, <1>2 DEF Unsettled, Dispatched, Terminal, Waves

\* The workspace is created; what the prefix leaves is counted first.
LEMMA BeginBooks == IInv /\ Books /\ (Create \/ Begin) => Books'
<1> SUFFICES ASSUME IInv, Books, Create \/ Begin PROVE Books'
  OBVIOUS
<1> USE DEF Running, Between, InWave, Closing, OpenWave, Dispatching
<1>1. /\ UNCHANGED <<migration, journal, charge, closed, ledger, source, status, wave, calls>>
      /\ started' # "absent"
  BY DEF Create, Begin
<1>2. ledger = NoLedger /\ closed /\ \A p \in Pairs : journal[p] = "open"
  BY DEF Create, Begin, Books, Begun
<1>3. Charged' /\ UnderCap' /\ Before' = Before /\ Unsettled' = Unsettled
      /\ Dispatched' = Dispatched /\ Terminal' = Terminal
  BY <1>1, PairsSame
<1>4. pc' \in {"create", "unauthorized", "plan"}
  BY DEF Create, Begin, Goto
<1>5. CountsTyped'
  BY <1>1, <1>4, BeforeIsNat DEF Books, CountsTyped, Ledgers, Places, Create, Begin, Before
<1>6. Booked'
  <2>1. ~ledger.reserved /\ ledger.physical = 0 /\ Sum(charge, Pairs) = 0
    BY <1>2 DEF Books, Booked, NoLedger
  <2>2. pc' # "create" => spent' = Before
    BY DEF Create, Begin, Before, Goto
  <2>3. Counted' = Pairs
    BY <1>4 DEF Counted
  <2> QED
    BY <1>1, <1>3, <1>4, <2>1, <2>2, <2>3, BeforeIsNat DEF Books, Booked
<1>7. Shut'
  BY <1>1, <1>2, <1>3, <1>4 DEF Books, Shut
<1>8. Frontier'
  BY <1>1, <1>2, <1>3, <1>4 DEF Books, Frontier
<1>9. Terminals'
  BY <1>1, <1>2, <1>3, <1>4 DEF Books, Terminals, NoLedger
<1>10. SourceKept'
  BY <1>1, <1>4 DEF Books, SourceKept
<1>11. Begun'
  <2>1. pc' = "unauthorized" => migration = "unauthorized"
    BY DEF Create, Begin, Goto, Unretried
  <2> QED
    BY <1>1, <1>2, <2>1 DEF Begun
<1> QED
  BY <1>3, <1>5, <1>6, <1>7, <1>8, <1>9, <1>10, <1>11 DEF Books

\* The ledger is told of the wave before any of its pairs is dispatched.
LEMMA AnnounceBooks == IInv /\ Books /\ AnnounceWave => Books'
<1> SUFFICES ASSUME IInv, Books, AnnounceWave PROVE Books'
  OBVIOUS
<1> USE DEF Running, Between, InWave, Closing, OpenWave, Dispatching
<1>1. /\ UNCHANGED <<migration, started, journal, charge, closed, source, status, wave, spent,
                     calls>>
      /\ pc = "announce" /\ pc' = "dispatch" /\ started # "absent"
      /\ ledger' = [ledger EXCEPT !.reserved = TRUE]
  BY DEF AnnounceWave, Tell, Goto, IInv, Place
<1>2. /\ ledger'.reserved = TRUE /\ ledger'.dispatched = ledger.dispatched
      /\ ledger'.terminals = ledger.terminals /\ ledger'.physical = ledger.physical
      /\ ledger'.anchored = ledger.anchored
      /\ ledger' \in Ledgers
  BY <1>1 DEF Books, CountsTyped, Ledgers
<1>3. Charged' /\ UnderCap' /\ Before' = Before /\ Unsettled' = Unsettled
      /\ Dispatched' = Dispatched /\ Terminal' = Terminal
  BY <1>1, PairsSame
<1>4. CountsTyped'
  BY <1>1, <1>2 DEF Books, CountsTyped, Ledgers, Places
<1>5. Booked'
  <2>1. ~ledger.reserved /\ ledger.physical = Sum(charge, Pairs)
        /\ spent = Before + Sum(charge, Pairs \ wave)
    BY <1>1 DEF Books, Booked, Counted
  <2>2. Sum(charge, Pairs) = Sum(charge, Pairs \ wave) + Sum(charge, wave)
    BY WaveSum DEF Books
  <2>3. Sum(charge, wave) = 0
    <3>1. wave \in SUBSET Pairs
      BY DEF IInv, Typed
    <3>2. \A p \in wave : charge[p] = 0
      BY <1>1, <3>1 DEF Books, Charged, Frontier
    <3> QED
      BY <3>1, <3>2, NothingCharged
  <2>4. Sum(charge, Pairs \ wave) \in Nat
    BY SumsAreNat DEF Books
  <2> QED
    BY <1>1, <1>2, <1>3, <2>1, <2>2, <2>3, <2>4 DEF Booked, Counted
<1>6. Shut'
  BY <1>1, <1>3 DEF Books, Shut
<1>7. Frontier'
  BY <1>1, <1>2, <1>3 DEF Books, Booked, Frontier, Reached
<1>8. Terminals'
  BY <1>1, <1>2, <1>3 DEF Books, Terminals
<1>9. SourceKept' /\ Begun'
  BY <1>1, <1>2 DEF Books, SourceKept, Begun
<1> QED
  BY <1>3, <1>4, <1>5, <1>6, <1>7, <1>8, <1>9 DEF Books

\* What every step that tells the ledger leaves.
LEMMA TellSame ==
  ASSUME Books, NEW l, Tell(l)
  PROVE  /\ UNCHANGED <<migration, started, journal, charge, closed, source, status, wave, spent,
                        calls>>
         /\ Charged' /\ UnderCap' /\ Before' = Before
         /\ Unsettled' = Unsettled /\ Dispatched' = Dispatched /\ Terminal' = Terminal
<1>1. UNCHANGED <<migration, started, journal, charge, closed, source, status, wave, spent, calls>>
  BY DEF Tell
<1> QED
  BY <1>1, PairsSame

\* The ledger is told of the dispatch, and counts it.
LEMMA SubmitBooks == IInv /\ Books /\ SubmitPair => Books'
<1> SUFFICES ASSUME IInv, Books, SubmitPair PROVE Books'
  OBVIOUS
<1> USE DEF Running, Between, InWave, Closing, OpenWave, Dispatching
<1> DEFINE l == [ledger EXCEPT !.dispatched = @ + 1]
<1>1. /\ Tell(l) /\ pc = "submit" /\ pc' \in {"dispatch", "settle"}
      /\ started # "absent" /\ ledger' = l
      /\ pc' = "settle" => \A p \in wave : journal[p] # "reserved"
  BY DEF SubmitPair, Goto, Tell, IInv, Place
<1>2. /\ UNCHANGED <<migration, started, journal, charge, closed, source, status, wave, spent,
                     calls>>
      /\ Charged' /\ UnderCap' /\ Before' = Before /\ Unsettled' = Unsettled
      /\ Dispatched' = Dispatched /\ Terminal' = Terminal
  BY <1>1, TellSame
<1>3. ledger.dispatched + 1 \in Pairs
  BY <1>1 DEF Books, Frontier
<1>4. /\ ledger'.reserved = ledger.reserved /\ ledger'.dispatched = ledger.dispatched + 1
      /\ ledger'.terminals = ledger.terminals /\ ledger'.physical = ledger.physical
      /\ ledger'.anchored = ledger.anchored
      /\ ledger' \in Ledgers
  <2>1. ledger \in Ledgers
    BY DEF Books, CountsTyped
  <2>2. ledger.dispatched + 1 \in 0 .. Suffix
    BY <1>3 DEF Pairs
  <2> QED
    BY <1>1, <2>1, <2>2 DEF Ledgers
<1> HIDE DEF l
<1>5. CountsTyped'
  BY <1>1, <1>2, <1>4 DEF Books, CountsTyped, Ledgers, Places
<1>6. Booked'
  BY <1>1, <1>2, <1>4 DEF Books, Booked, Counted
<1>7. Shut'
  BY <1>1, <1>2 DEF Books, Shut
<1>8. Frontier'
  BY <1>1, <1>2, <1>4 DEF Books, Booked, Frontier, Reached
<1>9. Terminals'
  BY <1>1, <1>2, <1>4 DEF Books, Terminals
<1>10. SourceKept' /\ Begun'
  BY <1>1, <1>2, <1>4 DEF Books, SourceKept, Begun
<1> QED
  BY <1>2, <1>5, <1>6, <1>7, <1>8, <1>9, <1>10 DEF Books

\* The wave's charges are accounted for, all of them at once.
LEMMA AccountBooks == IInv /\ Books /\ Account => Books'
<1> SUFFICES ASSUME IInv, Books, Account PROVE Books'
  OBVIOUS
<1> USE DEF Running, Between, InWave, Closing, OpenWave, Dispatching
<1> DEFINE l == [ledger EXCEPT !.reserved = FALSE, !.physical = @ + Sum(charge, wave)]
<1>1. /\ Tell(l) /\ pc = "settle" /\ pc' = "frontier" /\ Unsettled = {}
      /\ started # "absent" /\ ledger' = l
  BY DEF Account, Goto, Tell, IInv, Place
<1>2. /\ UNCHANGED <<migration, started, journal, charge, closed, source, status, wave, spent,
                     calls>>
      /\ Charged' /\ UnderCap' /\ Before' = Before /\ Unsettled' = Unsettled
      /\ Dispatched' = Dispatched /\ Terminal' = Terminal
  BY <1>1, TellSame
<1>3. Sum(charge, wave) \in Nat /\ Sum(charge, Pairs \ wave) \in Nat
  BY SumsAreNat DEF Books, IInv, Typed
<1>4. /\ ledger'.reserved = FALSE /\ ledger'.dispatched = ledger.dispatched
      /\ ledger'.terminals = ledger.terminals
      /\ ledger'.physical = ledger.physical + Sum(charge, wave)
      /\ ledger'.anchored = ledger.anchored
      /\ ledger' \in Ledgers
  <2>1. ledger \in Ledgers
    BY DEF Books, CountsTyped
  <2>2. ledger.physical + Sum(charge, wave) \in Nat
    BY <1>3, <2>1 DEF Ledgers
  <2> QED
    BY <1>1, <2>1, <2>2 DEF Ledgers
<1> HIDE DEF l
<1>5. CountsTyped'
  BY <1>1, <1>2, <1>4 DEF Books, CountsTyped, Ledgers, Places
<1>6. Booked'
  <2>1. ledger.physical = Sum(charge, Pairs \ wave)
    BY <1>1 DEF Books, Booked
  <2>2. Sum(charge, Pairs) = Sum(charge, Pairs \ wave) + Sum(charge, wave)
    BY WaveSum DEF Books
  <2>3. spent = Before + Sum(charge, Pairs \ wave)
    BY <1>1 DEF Books, Booked, Counted
  <2>4. Counted' = Pairs \ wave
    BY <1>1, <1>2 DEF Counted
  <2> QED
    BY <1>1, <1>2, <1>4, <2>1, <2>2, <2>3, <2>4 DEF Booked
<1>7. Shut'
  BY <1>1, <1>2 DEF Books, Shut
<1>8. Frontier'
  BY <1>1, <1>2, <1>4 DEF Books, Frontier, Reached
<1>9. Terminals'
  BY <1>1, <1>2, <1>4 DEF Books, Terminals
<1>10. SourceKept' /\ Begun'
  BY <1>1, <1>2, <1>4 DEF Books, SourceKept, Begun
<1> QED
  BY <1>2, <1>5, <1>6, <1>7, <1>8, <1>9, <1>10 DEF Books

\* The next pair of the schedule is terminal, and the ledger says so.
LEMMA TellTerminalBooks == IInv /\ Books /\ TellTerminal => Books'
<1> SUFFICES ASSUME IInv, Books, TellTerminal PROVE Books'
  OBVIOUS
<1> USE DEF Running, Between, InWave, Closing, OpenWave, Dispatching
<1> DEFINE l == [ledger EXCEPT !.terminals = @ + 1]
<1>1. /\ Tell(l) /\ pc = "frontier" /\ pc' = "frontier" /\ ledger' = l
      /\ NextTerminal \in Terminal /\ started # "absent"
  BY DEF TellTerminal, Tell, IInv, Place
<1>2. /\ UNCHANGED <<migration, started, journal, charge, closed, source, status, wave, spent,
                     calls>>
      /\ Charged' /\ UnderCap' /\ Before' = Before /\ Unsettled' = Unsettled
      /\ Dispatched' = Dispatched /\ Terminal' = Terminal
  BY <1>1, TellSame
<1>3. ledger.terminals + 1 \in Pairs /\ ledger.terminals + 1 \in Terminal
  BY <1>1 DEF NextTerminal, Terminal
<1>4. /\ ledger'.reserved = ledger.reserved /\ ledger'.dispatched = ledger.dispatched
      /\ ledger'.terminals = ledger.terminals + 1 /\ ledger'.physical = ledger.physical
      /\ ledger'.anchored = ledger.anchored
      /\ ledger' \in Ledgers
  <2>1. ledger \in Ledgers
    BY DEF Books, CountsTyped
  <2>2. ledger.terminals + 1 \in 0 .. Suffix
    BY <1>3 DEF Pairs
  <2> QED
    BY <1>1, <2>1, <2>2 DEF Ledgers
<1> HIDE DEF l
<1>5. CountsTyped'
  BY <1>1, <1>2, <1>4 DEF Books, CountsTyped, Ledgers, Places
<1>6. Booked'
  BY <1>1, <1>2, <1>4 DEF Books, Booked, Counted
<1>7. Shut'
  BY <1>1, <1>2 DEF Books, Shut
<1>8. Frontier'
  BY <1>1, <1>2, <1>4 DEF Books, Frontier, Reached
<1>9. Terminals'
  <2>1. ledger.terminals \in Nat
    BY DEF Books, CountsTyped, Ledgers
  <2>2. \A p \in Pairs : p <= ledger.terminals + 1 => p <= ledger.terminals \/ p = ledger.terminals + 1
    BY <2>1 DEF Pairs
  <2>3. \A p \in Pairs : p <= ledger.terminals => p <= ledger.terminals + 1
    BY <2>1 DEF Pairs
  <2>4. Dispatched \subseteq Pairs
    BY DEF Dispatched
  <2> QED
    BY <1>1, <1>2, <1>3, <1>4, <2>2, <2>3, <2>4 DEF Books, Terminals
<1>10. SourceKept' /\ Begun'
  BY <1>1, <1>2, <1>4 DEF Books, SourceKept, Begun
<1> QED
  BY <1>2, <1>5, <1>6, <1>7, <1>8, <1>9, <1>10 DEF Books

\* A batch is committed, or the source is staged, anchored, renamed.
LEMMA CommitBooks ==
  IInv /\ Books /\ (CommitBatch \/ StageSource \/ AnchorSource \/ RenameSource) => Books'
<1> SUFFICES ASSUME IInv, Books, CommitBatch \/ StageSource \/ AnchorSource \/ RenameSource
             PROVE Books'
  OBVIOUS
<1> USE DEF Running, Between, InWave, Closing, OpenWave, Dispatching
<1>1. UNCHANGED <<migration, started, journal, charge, closed, status, wave, spent, calls>>
  BY DEF CommitBatch, Tell, StageSource, AnchorSource, RenameSource, CloseSource
<1>2. Charged' /\ UnderCap' /\ Before' = Before /\ Unsettled' = Unsettled
      /\ Dispatched' = Dispatched /\ Terminal' = Terminal
  BY <1>1, PairsSame
<1>3. /\ pc \in {"commit", "stage", "anchor", "rename"} /\ started # "absent"
      /\ pc' \in {"plan", "stage", "anchor", "rename", "complete"}
      /\ pc' \in {"rename", "complete"} => pc \in {"anchor", "rename"}
      /\ pc' = "complete" => source' = "renamed"
      /\ source' = "renamed" => source = "renamed" \/ pc = "rename"
      /\ pc = "anchor" => source' = "anchored"
  BY DEF CommitBatch, StageSource, AnchorSource, RenameSource, CloseSource, Tell, Goto, IInv, Place
<1>4. /\ ledger'.reserved = ledger.reserved /\ ledger'.dispatched = ledger.dispatched
      /\ ledger'.terminals = ledger.terminals /\ ledger'.physical = ledger.physical
      /\ ledger.anchored \/ pc = "anchor" => ledger'.anchored
      /\ ledger' \in Ledgers
  <2>1. ledger \in Ledgers
    BY DEF Books, CountsTyped
  <2>2. CASE CommitBatch
    <3>1. ledger' = [ledger EXCEPT !.commits = @ + 1] /\ pc = "commit"
      BY <2>2 DEF CommitBatch, Tell
    <3>2. ledger.commits + 1 \in 0 .. Final
      BY <2>1, <3>1, BatchType DEF IInv, Place, Ledgers
    <3> QED
      BY <2>1, <3>1, <3>2 DEF Ledgers
  <2>3. CASE StageSource \/ AnchorSource \/ RenameSource
    <3>1. PICK b \in BOOLEAN : /\ ledger' = [ledger EXCEPT !.anchored = b]
                               /\ ledger.anchored \/ pc = "anchor" => b
      BY <2>1, <2>3 DEF Ledgers, StageSource, AnchorSource, RenameSource, CloseSource
    <3> QED
      BY <2>1, <3>1 DEF Ledgers
  <2> QED
    BY <2>2, <2>3
<1>5. CountsTyped'
  BY <1>1, <1>3, <1>4 DEF Books, CountsTyped, Ledgers, Places
<1>6. Booked'
  BY <1>1, <1>2, <1>3, <1>4 DEF Books, Booked, Counted
<1>7. Shut'
  BY <1>1, <1>2, <1>3 DEF Books, Shut
<1>8. Frontier'
  BY <1>1, <1>2, <1>3, <1>4 DEF Books, Frontier
<1>9. Terminals'
  BY <1>1, <1>2, <1>3, <1>4 DEF Books, Terminals
<1>10. SourceKept' /\ Begun'
  BY <1>1, <1>2, <1>3, <1>4 DEF Books, SourceKept, Begun
<1> QED
  BY <1>2, <1>5, <1>6, <1>7, <1>8, <1>9, <1>10 DEF Books

\* The wave is closed when the ledger has accounted for it, and the process counts it.
LEMMA CloseWaveBooks == IInv /\ Books /\ CloseWave => Books'
<1> SUFFICES ASSUME IInv, Books, CloseWave PROVE Books'
  OBVIOUS
<1> USE DEF Running, Between, InWave, Closing, OpenWave, Dispatching
<1>1. /\ UNCHANGED <<migration, started, journal, charge, ledger, source, status, wave, calls>>
      /\ pc = "frontier" /\ pc' = "closed" /\ closed' = TRUE /\ started # "absent"
      /\ ~(NextTerminal \in wave /\ NextTerminal \in Terminal)
  BY DEF CloseWave, Goto, IInv, Place
<1>2. Charged' /\ UnderCap' /\ Before' = Before /\ Unsettled' = Unsettled
      /\ Dispatched' = Dispatched /\ Terminal' = Terminal
  BY <1>1, PairsSame
<1>3. spent = Before + Sum(charge, Pairs \ wave) /\ ~ledger.reserved
  BY <1>1 DEF Books, Booked, Counted
<1>4. Sum(charge, wave) \in Nat /\ Sum(charge, Pairs \ wave) \in Nat /\ Sum(charge, Pairs) \in Nat
  BY SumsAreNat DEF Books, IInv, Typed
<1>5. spent' = Before + Sum(charge, Pairs)
  <2>1. spent' = spent + Sum(charge, wave)
    BY DEF CloseWave
  <2>2. Sum(charge, Pairs) = Sum(charge, Pairs \ wave) + Sum(charge, wave)
    BY WaveSum DEF Books
  <2> QED
    BY <1>3, <1>4, <2>1, <2>2, BeforeIsNat
<1>6. CountsTyped'
  <2>1. spent' \in Nat
    BY <1>4, <1>5, BeforeIsNat
  <2> QED
    BY <1>1, <2>1 DEF Books, CountsTyped, Places
<1>7. Booked'
  <2>1. Counted' = Pairs
    BY <1>1 DEF Counted
  <2> QED
    BY <1>1, <1>2, <1>3, <1>5, <2>1 DEF Books, Booked
<1>8. Shut'
  BY <1>1, <1>2, <1>3 DEF Books, Booked, Shut
<1>9. Frontier'
  BY <1>1, <1>2 DEF Books, Frontier
<1>10. Terminals'
  BY <1>1, <1>2 DEF Books, Terminals, NextTerminal
<1>11. SourceKept' /\ Begun'
  BY <1>1 DEF Books, SourceKept, Begun
<1> QED
  BY <1>2, <1>6, <1>7, <1>8, <1>9, <1>10, <1>11 DEF Books

\* With all its pairs terminal the frontier has passed the wave.
LEMMA GoOnBooks == IInv /\ Books /\ GoOn => Books'
<1> SUFFICES ASSUME IInv, Books, GoOn PROVE Books'
  OBVIOUS
<1> USE DEF Running, Between, InWave, Closing, OpenWave, Dispatching
<1>1. /\ UNCHANGED <<migration, started, journal, charge, closed, ledger, source, status, wave,
                     spent, calls>>
      /\ pc = "closed" /\ pc' \in {"commit", "plan"} /\ wave \subseteq Terminal
      /\ started # "absent"
  BY DEF GoOn, AllTerminal, Goto, files, IInv, Place
<1>2. Charged' /\ UnderCap' /\ Before' = Before /\ Unsettled' = Unsettled
      /\ Dispatched' = Dispatched /\ Terminal' = Terminal
  BY <1>1, PairsSame
<1>3. ledger.terminals = ledger.dispatched
  <2>1. ledger.terminals \in 0 .. Suffix /\ ledger.dispatched \in 0 .. Suffix /\ ~ledger.reserved
    BY <1>1 DEF Books, CountsTyped, Ledgers, Booked
  <2>2. NextTerminal \notin wave
    BY <1>1 DEF Books, Terminals
  <2>3. ~(NextTerminal <= ledger.dispatched)
    <3> SUFFICES ASSUME NextTerminal <= ledger.dispatched PROVE FALSE
      OBVIOUS
    <3>1. NextTerminal \in Pairs /\ ~(NextTerminal <= ledger.terminals)
      BY <2>1, SizeAssumption DEF NextTerminal, Pairs
    <3>2. NextTerminal \in Dispatched
      BY <2>1, <3>1 DEF Books, Frontier
    <3> QED
      BY <1>1, <2>2, <3>1, <3>2 DEF Books, Terminals
  <2>4. ledger.terminals <= ledger.dispatched
    <3>1. CASE ledger.terminals = 0
      BY <2>1, <3>1
    <3>2. CASE ledger.terminals # 0
      <4>1. ledger.terminals \in Pairs /\ ledger.terminals <= ledger.terminals
        BY <2>1, <3>2 DEF Pairs
      <4>2. ledger.terminals \in Dispatched
        BY <4>1 DEF Books, Terminals, Terminal, Dispatched
      <4> QED
        BY <2>1, <4>1, <4>2 DEF Books, Frontier
    <3> QED
      BY <3>1, <3>2
  <2> QED
    BY <2>1, <2>3, <2>4 DEF NextTerminal
<1>4. CountsTyped'
  BY <1>1 DEF Books, CountsTyped, Places
<1>5. Booked'
  BY <1>1, <1>2 DEF Books, Booked, Counted
<1>6. Shut'
  BY <1>1, <1>2 DEF Books, Shut
<1>7. Frontier'
  BY <1>1, <1>2 DEF Books, Frontier
<1>8. Terminals'
  BY <1>1, <1>2, <1>3 DEF Books, Terminals
<1>9. SourceKept' /\ Begun'
  BY <1>1 DEF Books, SourceKept, Begun
<1> QED
  BY <1>2, <1>4, <1>5, <1>6, <1>7, <1>8, <1>9 DEF Books

\* The process that seals closes a wave whose dispatches it has all sealed.
LEMMA SealWaveBooks == IInv /\ Books /\ SealWave => Books'
<1> SUFFICES ASSUME IInv, Books, SealWave PROVE Books'
  OBVIOUS
<1> USE DEF Running, Between, InWave, Closing, OpenWave, Dispatching
<1>1. /\ UNCHANGED <<migration, started, journal, charge, ledger, source, status, wave, spent,
                     pc, calls>>
      /\ pc = "seal" /\ Unsettled = {} /\ started # "absent"
  BY DEF SealWave, IInv, Place
<1>2. Charged' /\ UnderCap' /\ Before' = Before /\ Unsettled' = Unsettled
      /\ Dispatched' = Dispatched /\ Terminal' = Terminal /\ Waves' = Waves
  BY <1>1, PairsSame
<1>3. CountsTyped'
  BY <1>1 DEF Books, CountsTyped
<1>4. Booked' /\ Shut'
  BY <1>1, <1>2 DEF Books, Booked, Shut
<1>5. Frontier' /\ Terminals'
  BY <1>1, <1>2 DEF Books, Frontier, Terminals
<1>6. SourceKept' /\ Begun'
  BY <1>1 DEF Books, SourceKept, Begun
<1> QED
  BY <1>2, <1>3, <1>4, <1>5, <1>6 DEF Books

\* A call is within the window of a pair whose dispatch is not settled.
LEMMA CallBooks == ASSUME IInv, Books, NEW p \in Pairs, Call(p) PROVE Books'
<1> USE DEF Running, Between, InWave, Closing, OpenWave, Dispatching
<1>1. /\ UNCHANGED <<migration, started, journal, charge, closed, ledger, source, status, wave,
                     spent, pc>>
      /\ journal[p] = "dispatched" /\ calls[p] < MaxAttempts
      /\ calls' = [calls EXCEPT ![p] = @ + 1]
  BY DEF Call, files
<1>2. calls' \in [Pairs -> 0 .. MaxAttempts] /\ \A q \in Pairs : q # p => calls'[q] = calls[q]
  <2>1. calls[p] + 1 \in 0 .. MaxAttempts /\ calls \in [Pairs -> 0 .. MaxAttempts]
    BY <1>1, CapAssumption DEF Books, CountsTyped
  <2> QED
    BY <1>1, <2>1
<1>3. CountsTyped'
  BY <1>1, <1>2 DEF Books, CountsTyped
<1>4. Charged'
  BY <1>1, <1>2 DEF Books, Charged, Outcomes
<1>5. UnderCap' /\ Before' = Before
  <2>1. Exposure' = Exposure /\ Before' = Before
    BY <1>1 DEF Exposure, Before, MigrationCharge
  <2> QED
    BY <2>1 DEF Books, UnderCap
<1>6. Unsettled' = Unsettled /\ Dispatched' = Dispatched /\ Terminal' = Terminal /\ Waves' = Waves
  BY <1>1 DEF Unsettled, Dispatched, Terminal, Waves
<1>7. Booked' /\ Shut'
  BY <1>1, <1>5, <1>6 DEF Books, Booked, Shut, Counted
<1>8. Frontier' /\ Terminals'
  BY <1>1, <1>6 DEF Books, Frontier, Terminals, Reached, NextTerminal
<1>9. SourceKept' /\ Begun'
  BY <1>1 DEF Books, SourceKept, Begun
<1> QED
  BY <1>3, <1>4, <1>5, <1>7, <1>8, <1>9 DEF Books

-----------------------------------------------------------------------------
\* The steps that change the journal.

\* The least of the pairs of a set that is not empty.
LEMMA LeastPair ==
  ASSUME NEW S \in SUBSET Pairs, S # {}
  PROVE  Min(S) \in S /\ \A p \in S : Min(S) <= p
<1>1. S \subseteq Nat
  BY DEF Pairs
<1> QED
  BY <1>1, MinIsMember, MinIsLeast

\* No pair may cost more than before.
LEMMA CapKept ==
  ASSUME Books, CountsTyped', Charged', migration' = migration,
         \A p \in Pairs : Exposure'[p] <= Exposure[p]
  PROVE  UnderCap'
<1>1. \A p \in Pairs : Exposure[p] \in Nat
  BY ExposureType DEF Books
<1>2. \A p \in Pairs : Exposure'[p] \in Nat
  BY CapAssumption DEF CountsTyped, Exposure
<1>3. Sum(Exposure', Pairs) <= Sum(Exposure, Pairs)
  BY <1>1, <1>2, PairsFinite, SumLeq
<1>4. Sum(Exposure', Pairs) \in Nat /\ Sum(Exposure, Pairs) \in Nat
  BY <1>1, <1>2, PairsFinite, SumNat
<1>5. Before' = Before
  BY DEF Before, MigrationCharge
<1> QED
  BY <1>3, <1>4, <1>5, BeforeIsNat, CapAssumption DEF Books, UnderCap

\* A pair is dispatched in the order of the schedule, under the wave's reservation.
LEMMA DispatchBooks == IInv /\ Books /\ DispatchPair => Books'
<1> SUFFICES ASSUME IInv, Books, DispatchPair PROVE Books'
  OBVIOUS
<1> USE DEF Running, Between, InWave, Closing, OpenWave, Dispatching
<1> DEFINE D == {q \in wave : journal[q] = "reserved"}
           d == ledger.dispatched
<1>1. PICK p \in Pairs : /\ p = Min(D) /\ p \in D /\ \A q \in D : p <= q
  <2>1. D \in SUBSET Pairs /\ D # {}
    BY DEF DispatchPair, IInv, Typed
  <2> QED
    BY <2>1, LeastPair
<1>2. /\ journal' = [journal EXCEPT ![p] = "dispatched"] /\ journal[p] = "reserved" /\ p \in wave
      /\ UNCHANGED <<migration, started, charge, closed, ledger, source, status, wave, spent, calls>>
      /\ pc = "dispatch" /\ pc' = "submit" /\ started # "absent"
  BY <1>1 DEF DispatchPair, Goto, IInv, Place
<1>3. \A q \in Pairs : journal'[q] = IF q = p THEN "dispatched" ELSE journal[q]
  BY <1>2 DEF IInv, Typed
<1>4. p = d + 1
  <2>1. d \in 0 .. Suffix /\ p > d /\ p \in 1 .. Suffix
    BY <1>2 DEF Books, CountsTyped, Ledgers, Frontier, Reached, Dispatched, Pairs
  <2>2. d + 1 \in Pairs /\ ~(d + 1 <= d) /\ ~(p < d + 1)
    BY <2>1, SizeAssumption DEF Pairs
  <2>3. journal[d + 1] \in {"open", "reserved"}
    BY <1>2, <2>2 DEF Books, Frontier, Reached, Dispatched
  <2>4. journal[d + 1] = "reserved" /\ d + 1 \in wave
    BY <1>2, <2>2, <2>3 DEF Books, Frontier
  <2>5. p <= d + 1
    BY <1>1, <2>4
  <2> QED
    BY <2>1, <2>5
<1> HIDE DEF D, d
<1>5. CountsTyped'
  BY <1>2 DEF Books, CountsTyped, Places
<1>6. Charged'
  BY <1>2, <1>3 DEF Books, Charged, Outcomes
<1>7. UnderCap'
  <2>1. \A q \in Pairs : Exposure'[q] = Exposure[q]
    BY <1>2, <1>3 DEF Exposure
  <2>2. \A q \in Pairs : Exposure[q] \in Nat
    BY ExposureType DEF Books
  <2> QED
    BY <1>2, <1>5, <1>6, <2>1, <2>2, CapKept
<1>8. Before' = Before /\ Terminal' = Terminal /\ Counted' = Counted
  BY <1>2, <1>3 DEF Before, MigrationCharge, Terminal, Counted
<1>9. Booked' /\ Shut'
  BY <1>2, <1>8 DEF Books, Booked, Shut
<1>10. Frontier'
  <2>1. Reached = d /\ Reached' = d + 1 /\ d \in Nat
    BY <1>2 DEF Reached, d, Books, CountsTyped, Ledgers
  <2>2. \A q \in Pairs : q <= d + 1 <=> q <= d \/ q = p
    BY <1>4, <2>1 DEF Pairs
  <2>3. \A q \in Pairs : q \in Dispatched' <=> q \in Dispatched \/ q = p
    BY <1>3 DEF Dispatched
  <2>4. \A q \in Pairs : q \in Dispatched' <=> q <= Reached'
    BY <1>2, <2>1, <2>2, <2>3 DEF Books, Frontier
  <2>5. ledger'.reserved
    BY <1>2 DEF Books, Booked
  <2>6. ledger'.dispatched + 1 \in Pairs
    BY <1>2, <1>4 DEF d
  <2> QED
    BY <1>2, <1>3, <2>4, <2>5, <2>6 DEF Books, Frontier
<1>11. Terminals'
  BY <1>2, <1>3, <1>8 DEF Books, Terminals, Dispatched
<1>12. SourceKept' /\ Begun'
  BY <1>2 DEF Books, SourceKept, Begun
<1> QED
  BY <1>5, <1>6, <1>7, <1>9, <1>10, <1>11, <1>12 DEF Books

\* A settlement charges what was called; only a pair of the wave has one.
LEMMA SettleBooks == ASSUME IInv, Books, NEW p \in Pairs, SettlePair(p) PROVE Books'
<1> USE DEF Running, Between, InWave, Closing, OpenWave, Dispatching
<1>1. PICK outcome \in Outcomes : journal' = [journal EXCEPT ![p] = outcome]
  BY DEF SettlePair
<1>2. /\ journal[p] = "dispatched" /\ charge' = [charge EXCEPT ![p] = calls[p]]
      /\ UNCHANGED <<migration, started, closed, ledger, source, status, wave, spent, pc, calls>>
      /\ pc = "settle" /\ started # "absent"
  BY DEF SettlePair, IInv, Place
<1>3. \A q \in Pairs : /\ journal'[q] = IF q = p THEN outcome ELSE journal[q]
                       /\ charge'[q] = IF q = p THEN calls[p] ELSE charge[q]
  BY <1>1, <1>2 DEF IInv, Typed, Books, CountsTyped
<1>4. p \in wave
  BY <1>2 DEF IInv, Place
<1>5. calls[p] \in 0 .. MaxAttempts /\ charge' \in [Pairs -> 0 .. MaxAttempts]
  BY <1>2 DEF Books, CountsTyped
<1>6. CountsTyped'
  BY <1>2, <1>5 DEF Books, CountsTyped
<1>7. Charged'
  BY <1>2, <1>3, <1>5 DEF Books, Charged, Outcomes
<1>8. UnderCap'
  <2>1. \A q \in Pairs : q # p => Exposure'[q] = Exposure[q]
    BY <1>2, <1>3 DEF Exposure
  <2>2. Exposure[p] = MaxAttempts /\ Exposure'[p] = calls[p]
    BY <1>2, <1>3 DEF Exposure, Outcomes
  <2>3. \A q \in Pairs : Exposure'[q] <= Exposure[q]
    BY <1>5, <2>1, <2>2, ExposureType, CapAssumption DEF Books
  <2> QED
    BY <1>2, <1>6, <1>7, <2>3, CapKept
<1>9. Before' = Before /\ Dispatched' = Dispatched /\ Terminal \subseteq Terminal'
      /\ Counted' = Pairs \ wave /\ Counted = Pairs \ wave
  BY <1>2, <1>3 DEF Before, MigrationCharge, Terminal, Dispatched, Counted, Outcomes
<1>10. Booked'
  <2>1. Sum(charge', Pairs \ wave) = Sum(charge, Pairs \ wave)
    <3>1. \A q \in Pairs \ wave : charge[q] \in Int /\ charge'[q] = charge[q]
      BY <1>3, <1>4, CapAssumption DEF Books, CountsTyped
    <3>2. IsFiniteSet(Pairs \ wave)
      BY PairsFinite
    <3> QED
      BY <3>1, <3>2, SumSame
  <2> QED
    BY <1>2, <1>9, <2>1 DEF Books, Booked
<1>11. Shut'
  BY <1>2 DEF Books, Shut
<1>12. Frontier'
  <2>1. \A q \in Pairs : /\ journal'[q] = "open" <=> journal[q] = "open"
                         /\ journal'[q] = "reserved" <=> journal[q] = "reserved"
    BY <1>2, <1>3 DEF Outcomes
  <2>2. ledger.reserved
    BY <1>2 DEF Books, Booked
  <2> QED
    BY <1>2, <1>9, <2>1, <2>2 DEF Books, Frontier, Reached
<1>13. Terminals'
  BY <1>2, <1>9 DEF Books, Terminals
<1>14. SourceKept' /\ Begun'
  BY <1>2 DEF Books, SourceKept, Begun
<1> QED
  BY <1>6, <1>7, <1>8, <1>10, <1>11, <1>12, <1>13, <1>14 DEF Books

\* A dispatch that nobody settled is charged the whole window it was allowed.
LEMMA SealPairBooks == IInv /\ Books /\ SealPair => Books'
<1> SUFFICES ASSUME IInv, Books, SealPair PROVE Books'
  OBVIOUS
<1> USE DEF Running, Between, InWave, Closing, OpenWave, Dispatching
<1>1. PICK p \in Pairs : p = Min(Unsettled) /\ p \in Unsettled
  <2>1. Unsettled \in SUBSET Pairs /\ Unsettled # {}
    BY DEF SealPair, Unsettled
  <2> QED
    BY <2>1, LeastPair
<1>2. /\ journal' = [journal EXCEPT ![p] = "unknown"] /\ journal[p] = "dispatched"
      /\ charge' = [charge EXCEPT ![p] = MaxAttempts]
      /\ UNCHANGED <<migration, started, closed, ledger, source, status, wave, spent, pc, calls>>
      /\ pc = "seal" /\ started # "absent" /\ Unsettled # {}
  BY <1>1 DEF SealPair, WindowCharge, Unsettled, IInv, Place
<1>3. \A q \in Pairs : /\ journal'[q] = IF q = p THEN "unknown" ELSE journal[q]
                       /\ charge'[q] = IF q = p THEN MaxAttempts ELSE charge[q]
  BY <1>2 DEF IInv, Typed, Books, CountsTyped
<1>4. CountsTyped'
  BY <1>2, CapAssumption DEF Books, CountsTyped
<1>5. Charged'
  BY <1>2, <1>3, CapAssumption DEF Books, CountsTyped, Charged, Outcomes
<1>6. UnderCap'
  <2>1. \A q \in Pairs : Exposure'[q] = Exposure[q]
    BY <1>2, <1>3 DEF Exposure
  <2>2. \A q \in Pairs : Exposure[q] \in Nat
    BY ExposureType DEF Books
  <2> QED
    BY <1>2, <1>4, <1>5, <2>1, <2>2, CapKept
<1>7. ledger.reserved /\ ~closed
  BY <1>2 DEF Books, Booked, Shut
<1>8. Booked' /\ Frontier'
  BY <1>2, <1>7 DEF Booked, Frontier
<1>9. Shut'
  BY <1>2, <1>3, <1>7 DEF Books, Shut, Waves
<1>10. Terminals'
  BY <1>2, <1>3 DEF Books, Terminals, Terminal
<1>11. SourceKept' /\ Begun'
  BY <1>2 DEF Books, SourceKept, Begun
<1> QED
  BY <1>4, <1>5, <1>6, <1>8, <1>9, <1>10, <1>11 DEF Books

\* What as many windows cost as the cap leaves room for.
LEMMA WindowsFit ==
  ASSUME NEW a \in Nat, NEW m \in Nat \ {0}, NEW n \in Nat, n <= a \div m
  PROVE  n * m <= a
<1> DEFINE k == a \div m
<1>1. k \in Nat /\ n <= k /\ k * m <= a
  OBVIOUS
<1>2. n * m <= k * m
  <2> DEFINE d == k - n
  <2> HIDE DEF k
  <2>1. d \in Nat /\ k = n + d
    BY <1>1
  <2>2. d * m \in Nat /\ n * m \in Nat
    BY <2>1
  <2>3. k * m = n * m + d * m
    <3> HIDE DEF d
    <3> QED
      BY <2>1
  <2> QED
    BY <2>2, <2>3
<1> QED
  BY <1>1, <1>2

\* The wave's size: no more than the batch, the lanes, and the cap allow.
LEMMA SizeFits ==
  ASSUME Books
  PROVE  /\ WaveSize \in Nat
         /\ Before <= PhysicalCap /\ spent <= PhysicalCap =>
              spent + WaveSize * MaxAttempts <= PhysicalCap
<1> DEFINE q == Available \div MaxAttempts
           S == {Cardinality(Remaining), Lanes, q}
<1>1. Available \in Nat
  BY CapAssumption DEF Available, Books, CountsTyped
<1>2. q \in Nat
  BY <1>1, CapAssumption
<1>3. Cardinality(Remaining) \in Nat
  <2>1. Remaining \in SUBSET Pairs
    BY DEF Remaining, InBatch
  <2> QED
    BY <2>1, PairsFinite, FS_CardinalityType
<1>4. S \subseteq Nat /\ S # {} /\ q \in S
  BY <1>2, <1>3, SizeAssumption
<1>5. WaveSize = Min(S)
  BY DEF WaveSize
<1> HIDE DEF S
<1>6. WaveSize \in Nat /\ WaveSize <= q
  BY <1>4, <1>5, MinIsMember, MinIsLeast
<1>7. WaveSize * MaxAttempts <= Available
  BY <1>1, <1>6, CapAssumption, WindowsFit
<1>8. WaveSize * MaxAttempts \in Nat
  BY <1>6, CapAssumption
<1>9. spent \in Nat /\ PhysicalCap \in Nat
  BY CapAssumption DEF Books, CountsTyped
<1> HIDE DEF q
<1> DEFINE w == WaveSize * MaxAttempts
<1>10. w \in Nat /\ w <= Available
  BY <1>7, <1>8
<1>11. spent <= PhysicalCap => spent + w <= PhysicalCap
  <2> HIDE DEF w
  <2> QED
    BY <1>9, <1>10 DEF Available
<1> QED
  BY <1>6, <1>11

\* A wave takes the next open pairs of the batch, its windows within the cap.
LEMMA ReserveBooks == IInv /\ Books /\ ReserveWave => Books'
<1> SUFFICES ASSUME IInv, Books, ReserveWave PROVE Books'
  OBVIOUS
<1> USE DEF Running, Between, InWave, Closing, OpenWave, Dispatching
<1> DEFINE n == WaveSize
           m == Min(Remaining)
<1>1. /\ UNCHANGED <<migration, started, charge, ledger, source, status, spent, calls>>
      /\ pc = "plan" /\ pc' = "announce" /\ closed' = FALSE /\ started # "absent"
      /\ wave' = {p \in Remaining : p < m + n} /\ Remaining # {}
  BY DEF ReserveWave, Goto, IInv, Place
<1>2. \A p \in Pairs : journal'[p] = IF p \in wave' THEN "reserved" ELSE journal[p]
  BY DEF ReserveWave
<1>3. Remaining \in SUBSET Pairs /\ wave' \in SUBSET Pairs
      /\ \A p \in Remaining : journal[p] = "open" /\ BatchOf(p) = ledger.commits + 1
  BY <1>1 DEF Remaining, InBatch
<1>4. m \in Nat /\ n \in Nat /\ \A p \in Remaining : m <= p
  <2>1. n \in Nat
    BY SizeFits
  <2>2. m \in Remaining /\ \A p \in Remaining : m <= p
    BY <1>1, <1>3, LeastPair
  <2>3. Pairs \subseteq Nat
    BY DEF Pairs
  <2> HIDE DEF m, n
  <2> QED
    BY <1>3, <2>1, <2>2, <2>3
<1>5. \A p \in Pairs : journal[p] \in {"open", "terminal"}
  BY <1>1 DEF IInv, Place
<1> HIDE DEF n, m
<1>6. CountsTyped'
  BY <1>1 DEF Books, CountsTyped, Places
<1>7. Charged'
  BY <1>1, <1>2, <1>3 DEF Books, Charged, Outcomes
<1>8. /\ Before' = Before /\ Dispatched' = Dispatched /\ Terminal' = Terminal
      /\ Unsettled' = Unsettled
  BY <1>1, <1>2, <1>3 DEF Before, MigrationCharge, Dispatched, Terminal, Unsettled
<1>9. ~ledger.reserved /\ spent = Before + Sum(charge, Pairs)
      /\ ledger.physical = Sum(charge, Pairs) /\ Unsettled = {}
  BY <1>1 DEF Books, Booked, Counted
<1>10. Sum(charge, wave') = 0
  <2>1. \A p \in wave' : charge[p] = 0
    BY <1>1, <1>3 DEF Books, Charged
  <2> QED
    BY <1>3, <2>1, NothingCharged
<1>11. \A p \in Pairs : charge[p] \in Int
  BY CapAssumption DEF Books, CountsTyped
<1>12. Sum(charge, Pairs \ wave') \in Nat /\ Sum(charge, Pairs) \in Nat
  BY SumsAreNat DEF Books
<1>13. Sum(charge, Pairs \ wave') = Sum(charge, Pairs)
  <2>1. Sum(charge, Pairs) = Sum(charge, wave') + Sum(charge, Pairs \ wave')
    BY <1>3, <1>11, PairsFinite, SumUnion
  <2> QED
    BY <1>10, <1>12, <2>1
<1>14. UnderCap'
  <2>1. \A p \in Pairs : Exposure'[p] \in Nat
    BY <1>6, CapAssumption DEF CountsTyped, Exposure
  <2>2. /\ \A p \in wave' : Exposure'[p] = MaxAttempts
        /\ \A p \in Pairs \ wave' : charge[p] \in Int /\ Exposure'[p] = charge[p]
    BY <1>1, <1>2, <1>3, <1>5, <1>11 DEF Exposure
  <2>3. Sum(Exposure', Pairs \ wave') = Sum(charge, Pairs)
    <3>1. IsFiniteSet(Pairs \ wave')
      BY PairsFinite
    <3>2. Sum(Exposure', Pairs \ wave') = Sum(charge, Pairs \ wave')
      BY <2>2, <3>1, SumSame
    <3> QED
      BY <1>13, <3>2
  <2>4. Cardinality(wave') \in Nat /\ Cardinality(wave') <= n
    <3> DEFINE I == m .. (m + n - 1)
    <3>1. wave' \subseteq I
      BY <1>1, <1>3, <1>4 DEF Pairs
    <3>2. IsFiniteSet(I) /\ Cardinality(I) = n
      BY <1>4, FS_Interval
    <3> HIDE DEF I
    <3> QED
      BY <3>1, <3>2, FS_Subset, FS_CardinalityType
  <2>5. Sum(Exposure', wave') <= Cardinality(wave') * MaxAttempts
    <3>1. \A p \in wave' : Exposure'[p] \in Nat /\ Exposure'[p] <= MaxAttempts
      BY <2>2, CapAssumption
    <3>2. IsFiniteSet(wave')
      BY <1>3, PairsFinite
    <3> QED
      BY <3>1, <3>2, SumBound, CapAssumption
  <2>6. Cardinality(wave') * MaxAttempts <= n * MaxAttempts /\ n * MaxAttempts \in Nat
        /\ Cardinality(wave') * MaxAttempts \in Nat
    BY <2>4, <1>4, CapAssumption
  <2>7. Sum(Exposure', wave') \in Nat
    BY <1>3, <2>1, PairsFinite, SumNat
  <2>8. Sum(Exposure', Pairs) = Sum(Exposure', wave') + Sum(Exposure', Pairs \ wave')
    <3>1. \A p \in Pairs : Exposure'[p] \in Int
      BY <2>1
    <3> QED
      BY <1>3, <3>1, PairsFinite, SumUnion
  <2>9. Before <= PhysicalCap => spent <= PhysicalCap
    <3>1. Sum(Exposure, Pairs) \in Nat /\ Sum(charge, Pairs) <= Sum(Exposure, Pairs)
      BY ExposureCovers DEF Books
    <3> QED
      BY <1>9, <1>12, <3>1, BeforeIsNat, CapAssumption DEF Books, UnderCap
  <2> DEFINE c == Cardinality(wave') * MaxAttempts
             w == n * MaxAttempts
  <2>10. Before <= PhysicalCap => spent + w <= PhysicalCap
    BY <2>9, SizeFits DEF n
  <2>11. c \in Nat /\ w \in Nat /\ c <= w /\ Sum(Exposure', wave') <= c
    BY <2>5, <2>6
  <2> HIDE DEF c, w
  <2>12. Before <= PhysicalCap => Before + Sum(Exposure', Pairs) <= PhysicalCap
    BY <1>9, <1>12, <2>3, <2>7, <2>8, <2>10, <2>11, BeforeIsNat, CapAssumption
  <2> QED
    BY <1>8, <2>12 DEF UnderCap
<1>15. Booked'
  <2>1. Counted' = Pairs \ wave'
    BY <1>1 DEF Counted
  <2> QED
    BY <1>1, <1>8, <1>9, <1>13, <2>1 DEF Booked
<1>16. Shut'
  BY <1>1 DEF Shut
<1>17. Frontier'
  <2>1. ASSUME NEW p \in Pairs, journal'[p] = "open", NEW q \in wave'
        PROVE  p \notin wave' /\ q < p
    <3>1. p \notin wave' /\ journal[p] = "open" /\ q \in Pairs /\ q \in Remaining /\ q < m + n
      BY <1>1, <1>2, <1>3, <2>1
    <3>2. SUFFICES ASSUME p < q PROVE FALSE
      BY <3>1, <2>1 DEF Pairs
    <3>3. BatchOf(p) \in Nat /\ BatchOf(p) <= ledger.commits + 1 /\ ledger.commits \in Nat
      <4>1. BatchOf(p) <= BatchOf(q) /\ BatchOf(q) = ledger.commits + 1
        BY <1>3, <3>1, <3>2, BatchesInOrder DEF Pairs
      <4> QED
        BY <4>1, BatchType DEF Books, CountsTyped, Ledgers
    <3>4. ~(BatchOf(p) <= ledger.commits)
      BY <3>1 DEF IInv, WholeBatchesOnly, Terminal
    <3>5. p \in Remaining
      BY <3>1, <3>3, <3>4 DEF Remaining, InBatch
    <3>6. p < m + n
      BY <1>4, <3>1, <3>2 DEF Pairs
    <3> QED
      BY <1>1, <3>1, <3>5, <3>6
  <2>2. \A p \in Pairs : journal'[p] = "open" => p \notin wave' /\ \A q \in wave' : q < p
    BY <1>2, <2>1
  <2>3. \A p \in Pairs : journal'[p] = "reserved" => p \in wave'
    BY <1>2, <1>5
  <2>4. \A p \in wave' : journal'[p] = "reserved"
    BY <1>2, <1>3
  <2> QED
    BY <1>1, <1>8, <2>2, <2>3, <2>4 DEF Books, Frontier
<1>18. Terminals'
  <2>1. \A p \in Dispatched : p <= ledger.terminals
    BY <1>1, <1>9 DEF Books, Frontier, Terminals, Dispatched
  <2> QED
    BY <1>1, <1>8, <2>1 DEF Books, Terminals
<1>19. SourceKept' /\ Begun'
  BY <1>1 DEF Books, SourceKept, Begun
<1> QED
  BY <1>6, <1>7, <1>14, <1>15, <1>16, <1>17, <1>18, <1>19 DEF Books

-----------------------------------------------------------------------------
\* A step that writes no status keeps the accounts when it keeps the books.
LEMMA BooksStep ==
  ASSUME IInv, Accounts, status = NoStatus,
         \/ Create \/ Begin \/ ReserveWave \/ AnnounceWave \/ DispatchPair \/ SubmitPair
         \/ (\E p \in Pairs : SettlePair(p)) \/ Account \/ TellTerminal \/ CloseWave \/ GoOn
         \/ CommitBatch \/ StageSource \/ AnchorSource \/ RenameSource
         \/ SealPair \/ SealWave \/ (\E p \in Pairs : Call(p))
  PROVE  Accounts'
<1>1. Books'
  BY BeginBooks, ReserveBooks, AnnounceBooks, DispatchBooks, SubmitBooks, SettleBooks,
     AccountBooks, TellTerminalBooks, CloseWaveBooks, GoOnBooks, CommitBooks, SealPairBooks,
     SealWaveBooks, CallBooks DEF Accounts
<1>2. status' = NoStatus
  BY DEF Create, Begin, ReserveWave, AnnounceWave, DispatchPair, SubmitPair, SettlePair, Account,
     TellTerminal, CloseWave, GoOn, CommitBatch, StageSource, AnchorSource, RenameSource,
     CloseSource, SealPair, SealWave, Call, Tell, files
<1> QED
  BY <1>1, <1>2 DEF Accounts, Written

\* A step that changes nothing keeps them.
LEMMA IdleAccounts == Accounts /\ UNCHANGED vars => Accounts'
<1> SUFFICES ASSUME Accounts, UNCHANGED vars PROVE Accounts'
  OBVIOUS
<1>1. UNCHANGED <<migration, started, journal, charge, closed, ledger, source, status, pc, wave,
                  spent, calls>>
  BY DEF vars, files
<1>2. Charged' /\ UnderCap' /\ Before' = Before /\ Unsettled' = Unsettled
      /\ Dispatched' = Dispatched /\ Terminal' = Terminal /\ Waves' = Waves
  BY <1>1, PairsSame DEF Accounts
<1>3. CountsTyped' /\ Booked' /\ Shut'
  BY <1>1, <1>2 DEF Accounts, Books, CountsTyped, Booked, Shut, Counted
<1>4. Frontier' /\ Terminals' /\ SourceKept' /\ Begun'
  BY <1>1, <1>2 DEF Accounts, Books, Frontier, Terminals, SourceKept, Begun, Reached, NextTerminal
<1>5. StatusCoversCalls' = StatusCoversCalls
  BY <1>1, <1>2 DEF StatusCoversCalls, MigrationCharge
<1>6. ReloadsItsStatus' = ReloadsItsStatus
  BY <1>1, <1>2 DEF ReloadsItsStatus, StatusAccepted, OfSettlement, CommitPending, LedgerReads,
     Unretried, LedgerPhysical, MigrationCharge, SourceValid, OfSource, Unaccounted
<1> QED
  BY <1>1, <1>2, <1>3, <1>4, <1>5, <1>6 DEF Accounts, Books, Written

\* The accounts are inductive.
LEMMA NextAccounts == IInv /\ Accounts /\ [Next]_vars => Accounts'
<1> SUFFICES ASSUME IInv, Accounts, [Next]_vars PROVE Accounts'
  OBVIOUS
<1>1. CASE status # NoStatus
  BY <1>1, StatusIsLast, IdleAccounts
<1>2. CASE UNCHANGED vars
  BY <1>2, IdleAccounts
<1>3. CASE status = NoStatus /\ Next
  <2>1. CASE \/ Create \/ Begin \/ ReserveWave \/ AnnounceWave \/ DispatchPair \/ SubmitPair
             \/ (\E p \in Pairs : SettlePair(p)) \/ Account \/ TellTerminal \/ CloseWave \/ GoOn
             \/ CommitBatch \/ StageSource \/ AnchorSource \/ RenameSource
             \/ SealPair \/ SealWave \/ (\E p \in Pairs : Call(p))
    BY <1>3, <2>1, BooksStep
  <2>2. CASE Fail \/ Escape \/ Load
    BY <1>3, <2>2, GoneAccounts
  <2>3. CASE StopUnauthorized
    BY <2>3, UnauthorizedAccounts
  <2>4. CASE StopAtCap \/ Complete
    BY <2>4, EndAccounts
  <2>5. CASE StopSettled \/ ReportWaves
    BY <2>5, ReportAccounts
  <2>6. CASE Handle
    BY <2>6, HandleAccounts
  <2>7. CASE RebuildStatus
    BY <1>3, <2>7, RebuildAccounts
  <2> QED
    BY <1>3, <2>1, <2>2, <2>3, <2>4, <2>5, <2>6, <2>7 DEF Next, Run
<1> QED
  BY <1>1, <1>2, <1>3

\* Charges, frontiers, the reservation and the status agree in every reachable state.
THEOREM AccountsHold == Spec => []Accounts
<1> QED
  BY InitAccounts, NextAccounts, InvariantHolds, PTL DEF Spec

\* Whatever path has written the status, and however often processes died before:
\* it accounts for every call that was made, never more than the cap, and names every
\* dispatched pair that has no terminal.
THEOREM CallsAreCovered == Spec => []StatusCoversCalls
<1>1. Accounts => StatusCoversCalls
  BY DEF Accounts, Written, StatusCoversCalls
<1> QED
  BY <1>1, AccountsHold, PTL

\* And the loader takes it when the same run is asked for again, but for a run that
\* ended for want of an authorization.
THEOREM StatusReloads == Spec => []ReloadsItsStatus
<1>1. Accounts => ReloadsItsStatus
  BY DEF Accounts, Written, ReloadsItsStatus
<1> QED
  BY <1>1, AccountsHold, PTL
=============================================================================
