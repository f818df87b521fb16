----------------------------- MODULE StudyProofs -----------------------------
(***************************************************************************)
(* Theorems about the two studies that keep attempt ledgers.               *)
(*                                                                         *)
(* The robustness study, for every number of models, cells and pairs,      *)
(* every batch size and retry limit, and any kills: the two journals of a  *)
(* cell agree, pairs are called one after another, and the status file     *)
(* never says more than they do.  The parameter study, for every number of *)
(* pairs and transports and all retry budgets: the ledger reads, and a     *)
(* closure is what the evidence recomputes.  Both keep the promise of      *)
(* AttemptLedger.                                                          *)
(***************************************************************************)
EXTENDS ParameterCollection, RobustnessStudy, FiniteLemmas, FiniteSetTheorems,
        SequenceTheorems, TLAPS

-----------------------------------------------------------------------------
\* The robustness study.

L(c, p) == ledger[<<c, p>>]

\* A cell that is over.
Done(c) ==
  /\ scope[c] # "absent" /\ runtime[c].committed = BatchCount
  /\ \A p \in Positions : L(c, p) = "settled"

\* Where the pairs of a cell are, seen from its runtime.
SettledBefore(c, p) == \A q \in Positions : q < p => L(c, q) = "settled"

CellOk(c) ==
  /\ runtime[c].terminal => runtime[c].closed < PerCell /\ L(c, runtime[c].closed + 1) = "realized"
  /\ \A p \in Positions :
       /\ p < runtime[c].closed => L(c, p) = "settled"
       /\ p = runtime[c].closed => L(c, p) \in {"realized", "settled"}
       /\ p > runtime[c].closed => L(c, p) # "settled"
       /\ p > runtime[c].closed + 1 => L(c, p) = "none"
       /\ p = runtime[c].closed + 1 /\ L(c, p) # "none" =>
            BatchOf(p) = runtime[c].committed + 1 /\ SettledBefore(c, p)
       /\ p <= runtime[c].closed => BatchOf(p) <= runtime[c].committed + 1
       /\ BatchOf(p) <= runtime[c].committed => L(c, p) = "settled"
       /\ scope[c] # "open" => L(c, p) = "none"

CellsOk == \A c \in Cells : CellOk(c)

\* Which cells there are, and where the process is.
Driven == {"drive", "dispatched", "calling"}

Place ==
  /\ \A c \in Cells : scope[c] # "absent" => \A d \in 1 .. c - 1 : Done(d)
  /\ pc # "down" => \A d \in 1 .. cell - 1 : Done(d)
  /\ pc \in {"counted", "next"} => Done(cell)
  /\ pc \in Recording => scope[cell] = "open"
  /\ pc = "making" => scope[cell] # "open"
  /\ pc \in Driven => SettledBefore(cell, NextPair)
  /\ pc \in {"dispatched", "calling"} => NextPair \in Positions /\ Here(NextPair) = "dispatching"
  /\ pc = "settle" => Run.closed \in Positions

\* What is known of the calls of a pair.
Account(x) ==
  /\ ledger[x] \in {"none", "pending", "reserved", "pre_dispatch"} => evidence[x] = 0
  /\ ledger[x] \in {"retry_wait", "dispatching"} => evidence[x] < MaxAttempts
  /\ evidence[x] <= MaxAttempts
  /\ calls[x] = evidence[x] \/ (ledger[x] = "dispatching" /\ calls[x] = evidence[x] + 1)

Accounts ==
  /\ \A x \in Pairs : Account(x)
  /\ pc = "dispatched" => calls[<<cell, NextPair>>] = evidence[<<cell, NextPair>>]
  /\ pc = "calling" => calls[<<cell, NextPair>>] = evidence[<<cell, NextPair>>] + 1

IInv == TypeOK /\ CellsOk /\ Place /\ Accounts

-----------------------------------------------------------------------------
\* The batches of a cell: one after another, all of one size.
LEMMA BatchBound ==
  \A p \in Positions, n \in Nat : BatchOf(p) \in Nat \ {0} /\ (BatchOf(p) <= n <=> p <= n * BatchSize)
<1> SUFFICES ASSUME NEW p \in Positions, NEW n \in Nat
             PROVE  BatchOf(p) \in Nat \ {0} /\ (BatchOf(p) <= n <=> p <= n * BatchSize)
  OBVIOUS
<1> DEFINE q == (p - 1) \div BatchSize
<1>1. p \in Nat \ {0} /\ BatchSize \in Nat \ {0}
  BY SizeAssumption DEF Positions
<1>2. q \in Nat
  BY <1>1
<1>3. q * BatchSize <= p - 1 /\ p - 1 < (q + 1) * BatchSize
  BY <1>1
<1>4. BatchOf(p) = q + 1
  BY DEF BatchOf
<1> HIDE DEF q
<1>5. CASE q + 1 <= n
  <2>1. (q + 1) * BatchSize <= n * BatchSize
    BY <1>1, <1>2, <1>5
  <2> QED
    BY <1>1, <1>2, <1>3, <1>4, <1>5, <2>1
<1>6. CASE ~(q + 1 <= n)
  <2>1. n * BatchSize <= q * BatchSize
    BY <1>1, <1>2, <1>6
  <2> QED
    BY <1>1, <1>2, <1>3, <1>4, <1>6, <2>1
<1> QED
  BY <1>5, <1>6

\* So that a later pair is in no earlier batch.
LEMMA BatchesInOrder == \A p, q \in Positions : p <= q => BatchOf(p) <= BatchOf(q)
<1> SUFFICES ASSUME NEW p \in Positions, NEW q \in Positions, p <= q
             PROVE  BatchOf(p) <= BatchOf(q)
  OBVIOUS
<1> DEFINE n == BatchOf(q)
<1>1. n \in Nat
  BY BatchBound
<1>2. q <= n * BatchSize
  BY <1>1, BatchBound
<1>3. p <= n * BatchSize
  <2>1. n * BatchSize \in Int /\ p \in Int /\ q \in Int
    BY <1>1, SizeAssumption DEF Positions
  <2> QED
    BY <1>2, <2>1
<1> QED
  BY <1>1, <1>3, BatchBound

\* An invocation ends with the last cell of a model.
LEMMA LastIsCell == 1 \in Cells /\ CellsPerModel \in 1 .. CellCount /\ InvocationEnd \in Int /\ InvocationEnd <= CellCount
<1> DEFINE n == Completed
<1>0. /\ Models \in Nat \ {0} /\ CellsPerModel \in Nat \ {0} /\ CellCount \in Nat
      /\ CellCount = Models * CellsPerModel
  BY SizeAssumption DEF CellCount
<1>1. n \in Nat /\ n <= CellCount
  <2>1. IsFiniteSet(Cells) /\ Cardinality(Cells) = CellCount
    <3>1. IsFiniteSet(1 .. CellCount) /\ Cardinality(1 .. CellCount) = IF 1 > CellCount THEN 0 ELSE CellCount - 1 + 1
      BY <1>0, FS_Interval
    <3> QED
      BY <1>0, <3>1 DEF Cells
  <2>2. {c \in Cells : Complete(c)} \in SUBSET Cells
    OBVIOUS
  <2> QED
    BY <2>1, <2>2, FS_Subset, FS_CardinalityType DEF Completed
<1> HIDE DEF n
<1>2. ASSUME n # CellCount PROVE InvocationEnd \in Int /\ InvocationEnd <= CellCount
  <2> DEFINE q == n \div CellsPerModel
  <2>1. q \in Nat /\ q * CellsPerModel <= n
    BY <1>0, <1>1
  <2> HIDE DEF q
  <2>2. q < Models
    <3>1. CASE q >= Models
      <4>1. q * CellsPerModel >= Models * CellsPerModel
        BY <1>0, <2>1, <3>1
      <4> QED
        BY <1>0, <1>1, <1>2, <2>1, <4>1
    <3> QED
      BY <1>0, <2>1, <3>1
  <2>3. (q + 1) * CellsPerModel <= Models * CellsPerModel
    BY <1>0, <2>1, <2>2
  <2> QED
    BY <1>0, <1>2, <2>1, <2>3 DEF InvocationEnd, n, q
<1>3. ASSUME n = CellCount PROVE InvocationEnd \in Int /\ InvocationEnd <= CellCount
  BY <1>0, <1>3 DEF InvocationEnd, n
<1>4. CellsPerModel <= CellCount
  BY <1>0
<1>5. 1 \in Cells
  BY <1>0, <1>4 DEF Cells
<1> QED
  BY <1>0, <1>2, <1>3, <1>4, <1>5

\* Cells before a cell are cells.
LEMMA EarlierCells == \A c \in Cells : c \in Nat /\ \A d \in 1 .. c - 1 : d \in Cells /\ d # c
BY SizeAssumption DEF Cells, CellCount

\* Making a cell never goes back.
LEMMA StagesAdvance ==
  \A s \in {"absent", "made", "identity", "ledger", "locked"} :
    NextStage(s) \in {"made", "identity", "ledger", "locked", "open"}
<1> SUFFICES ASSUME NEW s \in {"absent", "made", "identity", "ledger", "locked"}
             PROVE  NextStage(s) \in {"made", "identity", "ledger", "locked", "open"}
  OBVIOUS
<1> DEFINE i == CHOOSE j \in 1 .. 5 : Stages[j] = s
<1>1. \E j \in 1 .. 5 : Stages[j] = s
  <2>1. Stages[1] = "absent" /\ Stages[2] = "made" /\ Stages[3] = "identity"
        /\ Stages[4] = "ledger" /\ Stages[5] = "locked"
    BY DEF Stages
  <2> QED
    BY <2>1
<1>2. i \in 1 .. 5
  BY <1>1
<1> HIDE DEF i
<1>3. Stages[1 + i] \in {"made", "identity", "ledger", "locked", "open"}
  BY <1>2 DEF Stages
<1> QED
  BY <1>3 DEF NextStage, i

-----------------------------------------------------------------------------
\* Before the study is created.
LEMMA InitInvariant == Init => IInv
<1> SUFFICES ASSUME Init PROVE IInv
  OBVIOUS
<1>0. BatchCount \in Nat /\ PerCell \in Nat
  BY SizeAssumption DEF BatchCount
<1>1. TypeOK
  <2>1. runtime \in [Cells -> [closed : 0 .. PerCell, terminal : BOOLEAN, committed : 0 .. BatchCount]]
    BY <1>0 DEF Init
  <2>2. ledger \in [Pairs -> States] /\ evidence \in [Pairs -> Nat] /\ calls \in [Pairs -> Nat]
    BY DEF Init, States
  <2> QED
    BY <2>1, <2>2 DEF Init, TypeOK
<1>2. CellsOk
  BY BatchBound DEF Init, CellsOk, CellOk, L, Pairs, Positions
<1>3. Place
  BY DEF Init, Place, Recording, Driven
<1>4. Accounts
  BY AttemptsAssumption DEF Init, Accounts, Account
<1> QED
  BY <1>1, <1>2, <1>3, <1>4 DEF IInv

-----------------------------------------------------------------------------
\* Steps that leave the records of all cells as they are.
Same == UNCHANGED <<ledger, evidence, runtime, calls>>

\* A step that makes no cell forgets nothing of them.
LEMMA CellsKept ==
  ASSUME IInv, Same, scope' = scope
  PROVE  /\ CellsOk' /\ (\A x \in Pairs : Account(x)')
         /\ \A c : Done(c)' <=> Done(c)
<1>1. \A c, p : L(c, p)' = L(c, p)
  BY DEF Same, L
<1>2. \A c : CellOk(c)' <=> CellOk(c)
  BY <1>1 DEF Same, CellOk, SettledBefore
<1>3. \A c : Done(c)' <=> Done(c)
  BY <1>1 DEF Same, Done
<1>4. \A x : Account(x)' <=> Account(x)
  BY DEF Same, Account
<1> QED
  BY <1>2, <1>3, <1>4 DEF IInv, CellsOk, Accounts

\* The process goes on with its cell, where nothing more is promised, or dies.
LEMMA MoveStep ==
  ASSUME IInv, Same, scope' = scope, cell' = cell, last' = last, pc # "down",
         pc' \notin Recording \cup {"counted", "next", "making"} \/ (pc' = "next" /\ pc = "counted")
  PROVE  IInv'
<1>1. TypeOK'
  BY DEF IInv, TypeOK, Same
<1>2. Place'
  BY CellsKept DEF IInv, Place, Recording, Driven
<1>3. Accounts'
  BY CellsKept DEF Accounts, Recording
<1> QED
  BY <1>1, <1>2, <1>3, CellsKept DEF IInv

\* All steps that write a status, or files beside the cells.
LEMMA OutsideStep ==
  ASSUME IInv,
         Reconcile \/ WriteRunning \/ Checkpoint \/ StageExecution \/ Publish \/ CloseStudy
           \/ Stop \/ NeedReconciliation \/ FailUnknown \/ Crash
  PROVE  IInv'
<1>1. Same /\ scope' = scope /\ cell' = cell /\ last' = last
  BY DEF Reconcile, WriteRunning, Checkpoint, StageExecution, Publish, CloseStudy, Stop,
     NeedReconciliation, FailUnknown, Crash, WriteStatus, Same, records
<1>2. pc # "down"
  BY DEF Reconcile, WriteRunning, Checkpoint, StageExecution, Publish, CloseStudy, Stop,
     NeedReconciliation, FailUnknown, Crash
<1>3. pc' \notin Recording \cup {"counted", "next", "making"} \/ (pc' = "next" /\ pc = "counted")
  BY DEF Reconcile, WriteRunning, Checkpoint, StageExecution, Publish, CloseStudy, Stop,
     NeedReconciliation, FailUnknown, Crash, WriteStatus, Goto, Recording
<1> QED
  BY <1>1, <1>2, <1>3, MoveStep

\* The study is created or opened, at its first cell.
LEMMA OpenStep == ASSUME IInv, Create \/ Reopen PROVE IInv'
<1>1. Same /\ scope' = scope /\ cell' = 1 /\ pc' \in {"cell", "reconcile", "down"}
  BY DEF Create, Reopen, Same, records, Goto
<1>2. last' \in Int /\ last' <= CellCount /\ 1 \in Cells
  BY LastIsCell DEF Create, Reopen
<1>3. TypeOK'
  BY <1>1, <1>2 DEF IInv, TypeOK, Same
<1>4. Place'
  BY <1>1, CellsKept DEF IInv, Place, Recording, Driven
<1>5. Accounts'
  BY <1>1, CellsKept DEF Accounts
<1> QED
  BY <1>1, <1>3, <1>4, <1>5, CellsKept DEF IInv

\* A cell is entered, resumed, left, or made.
LEMMA EnterStep == ASSUME IInv, EnterCell \/ Resume \/ FinishCell PROVE IInv'
<1>1. /\ Same /\ scope' = scope /\ cell' = cell /\ last' = last /\ pc # "down"
  BY DEF EnterCell, Resume, FinishCell, Same, records
<1>2. TypeOK'
  BY <1>1 DEF IInv, TypeOK, Same
<1>3. /\ pc = "cell" \/ pc \in Recording
      /\ \/ pc' = "sync" /\ scope[cell] = "open"
         \/ pc' = "making" /\ scope[cell] # "open"
         \/ pc' = "drive" /\ pc = "sync" /\ Unsynced = {}
         \/ pc' = "counted" /\ Run.committed = BatchCount /\ Complete(cell)
         \/ pc' \in {"down", "stopping", "reconciling"}
  BY DEF EnterCell, Resume, FinishCell, Goto, Recording
<1>4. pc' = "drive" => SettledBefore(cell, NextPair)
  <2> SUFFICES ASSUME Unsynced = {}, NEW q \in Positions, q < NextPair PROVE L(cell, q) = "settled"
    BY <1>3 DEF SettledBefore
  <2>1. cell \in Cells /\ CellOk(cell) /\ runtime[cell].closed \in 0 .. PerCell
        /\ runtime[cell].committed \in Nat /\ BatchOf(q) \in Nat
    BY <1>1, BatchBound, SizeAssumption DEF IInv, TypeOK, CellsOk, BatchCount
  <2>2. q \in 1 .. Run.closed
    BY <2>1 DEF NextPair, Run, Positions
  <2>3. ~(BatchOf(q) > Run.committed /\ Here(q) = "realized")
    BY <2>2 DEF Unsynced
  <2> QED
    BY <2>1, <2>2, <2>3 DEF CellOk, Run, Here, L, Positions
<1>5. pc' = "counted" => Done(cell)
  BY <1>3 DEF Done, Complete, Run, L
<1>6. Place'
  <2>1. L(cell, NextPair)' = L(cell, NextPair) /\ NextPair' = NextPair
        /\ SettledBefore(cell, NextPair)' = SettledBefore(cell, NextPair)
    BY <1>1 DEF Same, L, NextPair, Run, SettledBefore
  <2> QED
    BY <1>1, <1>3, <1>4, <1>5, <2>1, CellsKept DEF IInv, Place, Recording, Driven
<1>7. Accounts'
  BY <1>1, <1>3, CellsKept DEF Accounts
<1> QED
  BY <1>1, <1>2, <1>6, <1>7, CellsKept DEF IInv

\* The process takes up the next cell or leaves the schedule: no journal
\* changes, and the cell behind it is done.
LEMMA NextCellStep == ASSUME IInv, NextCell PROVE IInv'
<1>1. Same /\ scope' = scope /\ last' = last /\ pc = "next" /\ pc' \in {"cell", "checkpoint", "publish"}
  BY DEF NextCell, Same, records, Goto
<1>2. cell \in Cells /\ cell \in Int /\ last <= CellCount /\ last \in Int /\ Done(cell)
  BY <1>1 DEF IInv, TypeOK, Place
<1>3. cell' = cell \/ (cell' = cell + 1 /\ cell < last)
  BY DEF NextCell
<1>4. cell' \in Cells
  BY <1>2, <1>3, SizeAssumption DEF Cells, CellCount
<1>5. TypeOK'
  BY <1>1, <1>2, <1>4 DEF IInv, TypeOK, Same, Cells
<1>6. \A d \in 1 .. cell' - 1 : Done(d)
  BY <1>1, <1>2, <1>3 DEF IInv, Place, Cells
<1>7. Place'
  BY <1>1, <1>6, CellsKept DEF IInv, Place, Recording, Driven
<1>8. Accounts'
  BY <1>1, CellsKept DEF Accounts
<1> QED
  BY <1>1, <1>5, <1>7, <1>8, CellsKept DEF IInv

\* Making the directory and the files of a cell, one by one, keeps the
\* invariant: its pairs have no record before it is open.
LEMMA MakeStep == ASSUME IInv, MakeCell PROVE IInv'
<1>1. /\ Same /\ cell' = cell /\ last' = last /\ pc = "making" /\ cell \in Cells
      /\ scope' = [scope EXCEPT ![cell] = NextStage(scope[cell])]
  BY DEF MakeCell, Same, records, IInv, TypeOK
<1>2. scope[cell] \in {"absent", "made", "identity", "ledger", "locked"}
  BY <1>1 DEF IInv, TypeOK, Place
<1>3. /\ scope'[cell] \in {"made", "identity", "ledger", "locked", "open"}
      /\ \A c \in Cells : c # cell => scope'[c] = scope[c]
  BY <1>1, <1>2, StagesAdvance DEF IInv, TypeOK
<1>4. TypeOK'
  BY <1>1, <1>3 DEF IInv, TypeOK, Same
<1>5. pc' = IF scope'[cell] = "open" THEN "sync" ELSE "making"
  BY DEF MakeCell, Goto
<1>6. \A c, p : L(c, p)' = L(c, p)
  BY <1>1 DEF Same, L
<1>7. \A c \in Cells : Done(c) => Done(c)'
  BY <1>1, <1>3, <1>6 DEF Done, Same
<1>8. CellsOk'
  BY <1>1, <1>2, <1>3, <1>6 DEF IInv, CellsOk, CellOk, SettledBefore, Same
<1>9. Place'
  <2>1. ASSUME NEW c \in Cells, scope'[c] # "absent", NEW d \in 1 .. c - 1 PROVE Done(d)'
    <3>1. d \in Cells
      BY EarlierCells
    <3>2. CASE c = cell
      BY <1>1, <1>7, <3>1, <3>2 DEF IInv, Place
    <3>3. CASE c # cell
      BY <1>3, <1>7, <2>1, <3>1, <3>3 DEF IInv, Place
    <3> QED
      BY <3>2, <3>3
  <2>2. \A d \in 1 .. cell - 1 : Done(d)'
    BY <1>1, <1>7, EarlierCells DEF IInv, Place
  <2> QED
    BY <1>1, <1>5, <2>1, <2>2 DEF Place, Recording, Driven
<1>10. Accounts'
  BY <1>1, <1>5 DEF IInv, Accounts, Account, Same
<1> QED
  BY <1>4, <1>8, <1>9, <1>10 DEF IInv

-----------------------------------------------------------------------------
\* Steps that write a record of a cell that is at work.

\* The next pair of the cell moves on, but is not settled.
LEMMA ForwardStep ==
  ASSUME IInv, pc \in Driven, NEW s \in States \ {"none", "settled"},
         NextPair \in Positions, Here(NextPair) # "settled", Run.terminal => s = "realized",
         BatchOf(NextPair) = Run.committed + 1,
         ledger' = [ledger EXCEPT ![<<cell, NextPair>>] = s],
         UNCHANGED <<scope, runtime, cell>>
  PROVE  CellsOk' /\ (\A c \in Cells : Done(c) => Done(c)') /\ SettledBefore(cell, NextPair)'
<1> DEFINE n == NextPair
<1>0. /\ cell \in Cells /\ TypeOK /\ CellsOk /\ SettledBefore(cell, n) /\ scope[cell] = "open"
      /\ n = runtime[cell].closed + 1 /\ n \in Positions /\ n' = n
      /\ runtime[cell].closed \in Int
  BY DEF IInv, TypeOK, Place, Driven, Recording, NextPair, Run
<1>1. \A c \in Cells, p \in Positions :
        L(c, p)' = IF c = cell /\ p = n THEN s ELSE L(c, p)
  BY <1>0 DEF TypeOK, L, Pairs
<1>2. runtime' = runtime /\ scope' = scope /\ cell' = cell
  OBVIOUS
<1>3. L(cell, n) # "settled" /\ (runtime[cell].terminal => s = "realized")
      /\ BatchOf(n) = runtime[cell].committed + 1
  BY DEF Here, L, Run
<1> HIDE DEF n
<1>4. \A c \in Cells : Done(c) => Done(c)'
  BY <1>0, <1>1, <1>2, <1>3 DEF Done
<1>5. SettledBefore(cell, n)'
  BY <1>0, <1>1, <1>2 DEF SettledBefore, Positions
<1>6. ASSUME NEW c \in Cells, c # cell PROVE CellOk(c)'
  <2>1. \A p \in Positions : L(c, p)' = L(c, p)
    BY <1>1, <1>6
  <2>2. CellOk(c) /\ (runtime[c].terminal => runtime[c].closed + 1 \in Positions)
    <3>1. CellOk(c) /\ runtime[c].closed \in 0 .. PerCell /\ PerCell \in Nat
      BY <1>0, SizeAssumption DEF CellsOk, TypeOK
    <3> QED
      BY <3>1 DEF CellOk, Positions
  <2> QED
    BY <1>2, <2>1, <2>2 DEF CellOk, SettledBefore
<1>7. CellOk(cell)'
  <2>1. CellOk(cell) /\ \A p \in Positions : BatchOf(p) \in Int
    BY <1>0, BatchBound DEF CellsOk
  <2>2. runtime[cell].committed \in Int
    BY <1>0 DEF TypeOK
  <2>3. \A p \in Positions : p # n => L(cell, p)' = L(cell, p)
    BY <1>0, <1>1
  <2>4. L(cell, n)' = s
    BY <1>0, <1>1
  <2>5. SettledBefore(cell, n)' /\ scope[cell] = "open"
    BY <1>0, <1>5
  <2> HIDE DEF L
  <2> QED
    BY <1>0, <1>2, <1>3, <2>1, <2>2, <2>3, <2>4, <2>5 DEF CellOk, SettledBefore, Positions
<1> QED
  BY <1>0, <1>2, <1>4, <1>5, <1>6, <1>7 DEF CellsOk, n

\* The pair that its runtime has closed last is settled.
LEMMA SettlingStep ==
  ASSUME IInv, pc \in {"sync", "settle"}, Run.closed \in Positions, Here(Run.closed) = "realized",
         ledger' = [ledger EXCEPT ![<<cell, Run.closed>>] = "settled"],
         UNCHANGED <<scope, runtime, cell>>
  PROVE  CellsOk' /\ (\A c \in Cells : Done(c) => Done(c)') /\ SettledBefore(cell, NextPair)'
<1> DEFINE n == Run.closed
<1>0. /\ cell \in Cells /\ TypeOK /\ CellsOk /\ scope[cell] = "open"
      /\ n = runtime[cell].closed /\ n \in Positions /\ n' = n /\ n \in Int
      /\ NextPair' = n + 1
  BY DEF IInv, TypeOK, Place, Recording, NextPair, Run, Positions
<1>1. \A c \in Cells, p \in Positions :
        L(c, p)' = IF c = cell /\ p = n THEN "settled" ELSE L(c, p)
  BY <1>0 DEF TypeOK, L, Pairs
<1>2. runtime' = runtime /\ scope' = scope /\ cell' = cell
  OBVIOUS
<1> HIDE DEF n
<1>4. \A c \in Cells : Done(c) => Done(c)'
  BY <1>0, <1>1, <1>2 DEF Done
<1>5. SettledBefore(cell, NextPair)'
  <2>1. CellOk(cell)
    BY <1>0 DEF CellsOk
  <2>2. \A q \in Positions : q < n + 1 => q < n \/ q = n
    BY <1>0 DEF Positions
  <2> QED
    BY <1>0, <1>1, <1>2, <2>1, <2>2 DEF SettledBefore, CellOk
<1>6. ASSUME NEW c \in Cells PROVE CellOk(c)'
  <2>1. \A p \in Positions : L(c, p)' = L(c, p) \/ (c = cell /\ p = n /\ L(c, p)' = "settled")
    BY <1>1
  <2>2. CellOk(c) /\ (runtime[c].terminal => runtime[c].closed + 1 \in Positions)
        /\ runtime[c].closed \in Int /\ \A p \in Positions : p \in Int
    <3>1. CellOk(c) /\ runtime[c].closed \in 0 .. PerCell /\ PerCell \in Nat
      BY <1>0, SizeAssumption DEF CellsOk, TypeOK
    <3> QED
      BY <3>1 DEF CellOk, Positions
  <2>3. \A p \in Positions : SettledBefore(c, p) => SettledBefore(c, p)'
    BY <2>1 DEF SettledBefore
  <2>4. CASE c # cell
    <3>1. \A p \in Positions : L(c, p)' = L(c, p)
      BY <2>1, <2>4
    <3> QED
      BY <1>2, <2>2, <2>3, <3>1 DEF CellOk
  <2>5. CASE c = cell
    <3>1. \A p \in Positions : p # n => L(c, p)' = L(c, p)
      BY <2>1
    <3>2. L(c, n)' = "settled" /\ n = runtime[c].closed
      BY <1>0, <1>1, <2>5
    <3>3. L(c, n) \in {"realized", "settled"}
      BY <1>0, <2>2, <3>2 DEF CellOk
    <3> DEFINE Fine(p) ==
           /\ p < runtime[c].closed => L(c, p)' = "settled"
           /\ p = runtime[c].closed => L(c, p)' \in {"realized", "settled"}
           /\ p > runtime[c].closed => L(c, p)' # "settled"
           /\ p > runtime[c].closed + 1 => L(c, p)' = "none"
           /\ p = runtime[c].closed + 1 /\ L(c, p)' # "none" =>
                BatchOf(p) = runtime[c].committed + 1 /\ SettledBefore(c, p)'
           /\ p <= runtime[c].closed => BatchOf(p) <= runtime[c].committed + 1
           /\ BatchOf(p) <= runtime[c].committed => L(c, p)' = "settled"
           /\ scope[c] # "open" => L(c, p)' = "none"
    <3>4. Fine(n)
      BY <1>0, <2>2, <2>5, <3>2, <3>3 DEF CellOk
    <3>5. \A p \in Positions : p # n => Fine(p)
      BY <2>2, <2>3, <3>1 DEF CellOk
    <3>6. runtime[c].terminal => L(c, runtime[c].closed + 1)' = "realized"
      BY <2>2, <3>1, <3>2 DEF CellOk
    <3> QED
      BY <1>0, <1>2, <2>2, <3>4, <3>5, <3>6 DEF CellOk
  <2> QED
    BY <2>4, <2>5
<1> QED
  BY <1>4, <1>5, <1>6 DEF CellsOk

\* Inside a cell the process keeps its place.
LEMMA PlaceKept ==
  ASSUME IInv, UNCHANGED <<scope, cell>>, pc \in Recording,
         \A c \in Cells : Done(c) => Done(c)',
         pc' \in Recording \cup {"stopping"},
         pc' \in Driven => SettledBefore(cell, NextPair)',
         pc' \in {"dispatched", "calling"} => (NextPair \in Positions /\ Here(NextPair) = "dispatching")',
         pc' = "settle" => Run.closed' \in Positions
  PROVE  Place'
<1>1. cell \in Cells
  BY DEF IInv, TypeOK, Recording
<1>2. ASSUME NEW c \in Cells, scope[c] # "absent", NEW d \in 1 .. c - 1 PROVE Done(d)'
  BY <1>2, EarlierCells DEF IInv, Place
<1>3. \A d \in 1 .. cell - 1 : Done(d)'
  BY <1>1, EarlierCells DEF IInv, Place, Recording
<1>4. scope[cell] = "open"
  BY DEF IInv, Place
<1>5. pc' \notin {"counted", "next", "making"}
  BY DEF Recording
<1> QED
  BY <1>2, <1>3, <1>4, <1>5 DEF Place

\* Accounts change for one pair at most.
LEMMA AccountsKept ==
  ASSUME IInv, NEW x \in Pairs, Account(x)',
         \A y \in Pairs : y # x => UNCHANGED <<ledger[y], evidence[y], calls[y]>>,
         pc' \in {"dispatched", "calling"} => x = <<cell, NextPair>>',
         pc' = "dispatched" => calls'[x] = evidence'[x],
         pc' = "calling" => calls'[x] = evidence'[x] + 1
  PROVE  Accounts'
<1>1. ASSUME NEW y \in Pairs PROVE Account(y)'
  <2>1. CASE y # x
    BY <2>1 DEF IInv, Accounts, Account
  <2> QED
    BY <2>1
<1> QED
  BY <1>1 DEF Accounts

\* What Put changes, at a pair that is there.
LEMMA PutTells ==
  ASSUME IInv, pc \in Recording, NEW p \in Positions, NEW s \in States, NEW next, Put(p, s, next)
  PROVE  /\ ledger' = [ledger EXCEPT ![<<cell, p>>] = s] /\ ledger' \in [Pairs -> States]
         /\ pc' = next /\ UNCHANGED <<scope, runtime, cell, last>>
         /\ cell \in Cells /\ last <= CellCount /\ <<cell, p>> \in Pairs /\ Here(p) \in States
BY DEF IInv, TypeOK, Put, Goto, Pairs, Here, Recording

-----------------------------------------------------------------------------
\* The next pair of the cell, as the value it has now.
LEMMA NextIsPair ==
  ASSUME IInv, pc \in Driven, NextPair \in Positions
  PROVE  \E x \in Pairs : x = <<cell, NextPair>>
BY DEF IInv, TypeOK, Driven, Pairs

\* It is planned, reserved, prepared, and its judgment realized.
LEMMA PlanStep == ASSUME IInv, Pending \/ Reserve \/ Prepare \/ Realize PROVE IInv'
<1>1. /\ pc = "drive" /\ NextPair \in Positions /\ UNCHANGED <<evidence, calls>>
      /\ Here(NextPair) \in {"none", "pending", "reserved", "judged"}
      /\ Here(NextPair) = "none" => Open
  BY DEF Pending, Reserve, Prepare, Realize, Driving
<1>2. PICK s \in {"pending", "reserved", "pre_dispatch", "realized"} :
        /\ Put(NextPair, s, "drive")
        /\ s = "realized" => Here(NextPair) = "judged"
        /\ s # "realized" => Here(NextPair) \in {"none", "pending", "reserved"}
  BY DEF Pending, Reserve, Prepare, Realize, Driving
<1>3. s \in States \ {"none", "settled"} /\ pc \in Recording /\ pc \in Driven
  BY <1>1 DEF States, Attempting, Answered, Recording, Driven
<1>4. PICK x \in Pairs : x = <<cell, NextPair>>
  BY <1>1, <1>3, NextIsPair
<1>5. /\ ledger' = [ledger EXCEPT ![x] = s] /\ ledger' \in [Pairs -> States] /\ pc' = "drive"
      /\ UNCHANGED <<scope, runtime, cell, last>> /\ cell \in Cells /\ last <= CellCount
  BY <1>1, <1>2, <1>3, <1>4, PutTells
<1>6. TypeOK'
  BY <1>1, <1>5 DEF IInv, TypeOK
<1>7. BatchOf(NextPair) = Run.committed + 1 /\ ~Run.terminal
  BY <1>1, <1>5 DEF IInv, CellsOk, CellOk, NextPair, Run, Here, L, Open
<1>8. CellsOk' /\ (\A c \in Cells : Done(c) => Done(c)') /\ SettledBefore(cell, NextPair)'
  BY <1>1, <1>3, <1>4, <1>5, <1>7, ForwardStep
<1>9. Place'
  BY <1>3, <1>5, <1>8, PlaceKept DEF Recording
<1>10. Account(x)'
  BY <1>1, <1>2, <1>4, <1>5 DEF IInv, TypeOK, Accounts, Account, Here
<1>11. \A y \in Pairs : y # x => ledger'[y] = ledger[y]
  BY <1>5 DEF IInv, TypeOK
<1>12. Accounts'
  BY <1>1, <1>5, <1>10, <1>11, AccountsKept
<1> QED
  BY <1>6, <1>8, <1>9, <1>12 DEF IInv

\* An attempt is recorded ahead of its call.
LEMMA DispatchStep == ASSUME IInv, Dispatch PROVE IInv'
<1>1. /\ pc = "drive" /\ NextPair \in Positions /\ UNCHANGED <<evidence, calls>>
      /\ Here(NextPair) \in Resumable /\ Put(NextPair, "dispatching", "dispatched")
  BY DEF Dispatch, Driving
<1>3. "dispatching" \in States \ {"none", "settled"} /\ pc \in Recording /\ pc \in Driven
  BY <1>1 DEF States, Attempting, Recording, Driven
<1>4. PICK x \in Pairs : x = <<cell, NextPair>>
  BY <1>1, <1>3, NextIsPair
<1>5. /\ ledger' = [ledger EXCEPT ![x] = "dispatching"] /\ ledger' \in [Pairs -> States]
      /\ pc' = "dispatched"
      /\ UNCHANGED <<scope, runtime, cell, last>> /\ cell \in Cells /\ last <= CellCount
  BY <1>1, <1>3, <1>4, PutTells
<1>6. TypeOK'
  BY <1>1, <1>5 DEF IInv, TypeOK
<1>7. BatchOf(NextPair) = Run.committed + 1 /\ ~Run.terminal
  BY <1>1, <1>5 DEF IInv, CellsOk, CellOk, NextPair, Run, Here, L, Resumable
<1>8. CellsOk' /\ (\A c \in Cells : Done(c) => Done(c)') /\ SettledBefore(cell, NextPair)'
  BY <1>1, <1>3, <1>4, <1>5, <1>7, ForwardStep DEF Resumable
<1>9. NextPair' = NextPair /\ x = <<cell, NextPair>>' /\ ledger'[x] = "dispatching"
  BY <1>4, <1>5 DEF NextPair, Run, IInv, TypeOK
<1>10. Place'
  BY <1>1, <1>3, <1>5, <1>8, <1>9, PlaceKept DEF Recording, Here
<1>11. Account(x)' /\ calls'[x] = evidence'[x]
  BY <1>1, <1>4, <1>5, AttemptsAssumption DEF IInv, TypeOK, Accounts, Account, Here, Resumable
<1>12. \A y \in Pairs : y # x => ledger'[y] = ledger[y]
  BY <1>5 DEF IInv, TypeOK
<1>13. Accounts'
  BY <1>1, <1>5, <1>9, <1>11, <1>12, AccountsKept
<1> QED
  BY <1>6, <1>8, <1>10, <1>13 DEF IInv

\* Then the provider is called.
LEMMA CallStep == ASSUME IInv, Call PROVE IInv'
<1>1. /\ pc = "dispatched" /\ pc' = "calling" /\ NextPair \in Positions
      /\ UNCHANGED <<scope, ledger, evidence, runtime, cell, last>>
      /\ calls' = [calls EXCEPT ![<<cell, NextPair>>] = @ + 1]
      /\ Here(NextPair) = "dispatching"
  BY DEF Call, Goto, records, IInv, Place
<1>2. PICK x \in Pairs : x = <<cell, NextPair>>
  BY <1>1, NextIsPair DEF Driven
<1>3. TypeOK'
  BY <1>1, <1>2 DEF IInv, TypeOK
<1>4. \A c, p : L(c, p)' = L(c, p)
  BY <1>1 DEF L
<1>5. CellsOk' /\ (\A c \in Cells : Done(c) => Done(c)')
  BY <1>1, <1>4 DEF IInv, CellsOk, CellOk, SettledBefore, Done
<1>6. /\ NextPair' = NextPair /\ Here(NextPair)' = "dispatching" /\ x = <<cell, NextPair>>'
      /\ SettledBefore(cell, NextPair)'
  BY <1>1, <1>2, <1>4 DEF NextPair, Run, Here, IInv, Place, Driven, SettledBefore
<1>7. Place'
  BY <1>1, <1>5, <1>6, PlaceKept DEF Recording
<1>8. /\ calls'[x] = calls[x] + 1 /\ calls[x] = evidence[x] /\ evidence[x] \in Nat
      /\ ledger[x] = "dispatching"
  BY <1>1, <1>2 DEF IInv, TypeOK, Accounts, Here
<1>9. Account(x)' /\ calls'[x] = evidence'[x] + 1
  BY <1>1, <1>8 DEF IInv, Accounts, Account
<1>10. \A y \in Pairs : y # x => calls'[y] = calls[y]
  BY <1>1, <1>2 DEF IInv, TypeOK
<1>11. Accounts'
  BY <1>1, <1>6, <1>9, <1>10, AccountsKept
<1> QED
  BY <1>3, <1>5, <1>7, <1>11 DEF IInv

\* Its outcome is recorded, whatever it is.
LEMMA OutcomeStep == ASSUME IInv, Succeed \/ FailRetryable \/ FailForGood PROVE IInv'
<1>1. /\ pc = "calling" /\ NextPair \in Positions /\ calls' = calls /\ Noted
      /\ Here(NextPair) = "dispatching"
  BY DEF Succeed, FailRetryable, FailForGood, IInv, Place
<1>2. PICK s \in {"judged", "retry_wait", "stopped"}, next \in {"drive", "stopping"} :
        /\ Put(NextPair, s, next)
        /\ s = "retry_wait" => Attempt < MaxAttempts
  BY DEF Succeed, FailRetryable, FailForGood
<1>3. s \in States \ {"none", "settled"} /\ pc \in Recording /\ pc \in Driven
  BY <1>1 DEF States, Attempting, Answered, Recording, Driven
<1>4. PICK x \in Pairs : x = <<cell, NextPair>>
  BY <1>1, <1>3, NextIsPair
<1>5. /\ ledger' = [ledger EXCEPT ![x] = s] /\ ledger' \in [Pairs -> States] /\ pc' = next
      /\ UNCHANGED <<scope, runtime, cell, last>> /\ cell \in Cells /\ last <= CellCount
      /\ evidence' = [evidence EXCEPT ![x] = @ + 1]
  <2>1. evidence' = [evidence EXCEPT ![x] = @ + 1]
    BY <1>1, <1>4 DEF Noted
  <2> QED
    BY <1>1, <1>2, <1>3, <1>4, <2>1, PutTells
<1>6. TypeOK'
  BY <1>1, <1>5 DEF IInv, TypeOK
<1>7. BatchOf(NextPair) = Run.committed + 1 /\ ~Run.terminal
  BY <1>1, <1>5 DEF IInv, CellsOk, CellOk, NextPair, Run, Here, L
<1>8. CellsOk' /\ (\A c \in Cells : Done(c) => Done(c)') /\ SettledBefore(cell, NextPair)'
  BY <1>1, <1>3, <1>4, <1>5, <1>7, ForwardStep
<1>9. Place'
  BY <1>3, <1>5, <1>8, PlaceKept DEF Recording
<1>10. /\ evidence'[x] = evidence[x] + 1 /\ calls[x] = evidence[x] + 1 /\ evidence[x] < MaxAttempts
       /\ ledger'[x] = s /\ evidence[x] \in Nat /\ MaxAttempts \in Nat
       /\ s = "retry_wait" => evidence[x] + 1 < MaxAttempts
  BY <1>1, <1>2, <1>4, <1>5, AttemptsAssumption DEF IInv, TypeOK, Accounts, Account, Here, Attempt
<1>11. Account(x)'
  BY <1>1, <1>10 DEF Account
<1>12. \A y \in Pairs : y # x => ledger'[y] = ledger[y] /\ evidence'[y] = evidence[y]
  BY <1>5 DEF IInv, TypeOK
<1>13. Accounts'
  BY <1>1, <1>5, <1>11, <1>12, AccountsKept
<1> QED
  BY <1>6, <1>8, <1>9, <1>13 DEF IInv

-----------------------------------------------------------------------------
\* The pair that is settled is the last that its runtime has closed.
LEMMA ClosedPair ==
  ASSUME IInv, Sync \/ Settle
  PROVE  /\ pc \in {"sync", "settle"} /\ UNCHANGED <<evidence, calls>> /\ cell \in Cells
         /\ pc \in Recording /\ CellOk(cell) /\ Run.closed \in Int /\ Run = runtime[cell]
         /\ Run.closed \in Positions /\ Here(Run.closed) \in {"realized", "settled"}
         /\ \E next \in {"sync", "drive"} : Put(Run.closed, "settled", next)
<1>1. /\ pc \in {"sync", "settle"} /\ UNCHANGED <<evidence, calls>> /\ cell \in Cells
      /\ pc \in Recording
  BY DEF Sync, Settle, IInv, TypeOK, Recording
<1>2. CellOk(cell) /\ Run.closed \in Int /\ Run = runtime[cell]
  BY <1>1 DEF IInv, CellsOk, TypeOK, Run
<1>3. /\ Run.closed \in Positions /\ Here(Run.closed) \in {"realized", "settled"}
      /\ \E next \in {"sync", "drive"} : Put(Run.closed, "settled", next)
  <2>1. CASE Settle
    BY <1>2, <2>1 DEF Settle, IInv, Place, CellOk, Here, L
  <2>2. CASE Sync
    <3>0. Run.closed \in 0 .. PerCell /\ PerCell \in Nat
      BY <1>1, <1>2, SizeAssumption DEF IInv, TypeOK
    <3>1. Unsynced \subseteq {Run.closed} /\ Unsynced \subseteq Positions
      BY <1>2, <3>0 DEF Unsynced, CellOk, Here, L, Positions
    <3>2. Unsynced # {} /\ Put(Min(Unsynced), "settled", "sync")
      BY <2>2 DEF Sync
    <3>3. Unsynced = {Run.closed}
      BY <3>1, <3>2
    <3>4. Min(Unsynced) = Run.closed
      BY <1>2, <3>3 DEF Min
    <3> QED
      BY <1>2, <3>1, <3>2, <3>3, <3>4 DEF CellOk, Here, L
  <2> QED
    BY <2>1, <2>2
<1> QED
  BY <1>1, <1>2, <1>3

\* As a value, for what it does to the ledger.
LEMMA SettledPair ==
  ASSUME IInv, Sync \/ Settle
  PROVE  \E x \in Pairs : /\ x = <<cell, Run.closed>>
                          /\ ledger[x] \in {"realized", "settled"}
                          /\ ledger' = [ledger EXCEPT ![x] = "settled"]
<1>1. PICK x \in Pairs : x = <<cell, Run.closed>>
  BY ClosedPair DEF Pairs
<1>2. ledger[x] \in {"realized", "settled"} /\ ledger' = [ledger EXCEPT ![x] = "settled"]
  BY <1>1, ClosedPair DEF Here, Put
<1> QED
  BY <1>1, <1>2

\* A closed pair is settled, by the process that closed it or by the next one.
LEMMA SettleStep == ASSUME IInv, Sync \/ Settle PROVE IInv'
<1>1. /\ pc \in {"sync", "settle"} /\ UNCHANGED <<evidence, calls>> /\ cell \in Cells
      /\ pc \in Recording
  BY ClosedPair
<1>2. CellOk(cell) /\ Run.closed \in Int /\ Run = runtime[cell]
  BY ClosedPair
<1>3. /\ Run.closed \in Positions /\ Here(Run.closed) \in {"realized", "settled"}
      /\ \E next \in {"sync", "drive"} : Put(Run.closed, "settled", next)
  BY ClosedPair
<1>4. PICK x \in Pairs : x = <<cell, Run.closed>>
  BY <1>1, <1>3 DEF Pairs
<1>5. "settled" \in States
  BY DEF States, Answered
<1>6. /\ ledger' = [ledger EXCEPT ![x] = "settled"] /\ ledger' \in [Pairs -> States]
      /\ pc' \in {"sync", "drive"} /\ UNCHANGED <<scope, runtime, cell, last>> /\ last <= CellCount
  BY <1>1, <1>3, <1>4, <1>5, PutTells
<1>7. TypeOK'
  BY <1>1, <1>6 DEF IInv, TypeOK
<1>8. CellsOk' /\ (\A c \in Cells : Done(c) => Done(c)') /\ SettledBefore(cell, NextPair)'
  <2>1. CASE Here(Run.closed) = "realized"
    BY <1>1, <1>3, <1>4, <1>6, <2>1, SettlingStep
  <2>2. CASE Here(Run.closed) = "settled"
    <3>1. ledger' = ledger
      BY <1>4, <1>6, <2>2 DEF Here, IInv, TypeOK
    <3>2. \A c, p : L(c, p)' = L(c, p)
      BY <3>1 DEF L
    <3>3. SettledBefore(cell, NextPair)
      BY <1>2, <2>2 DEF SettledBefore, CellOk, NextPair, Here, L, Positions
    <3> QED
      BY <1>6, <3>2, <3>3 DEF IInv, CellsOk, CellOk, SettledBefore, Done, NextPair, Run
  <2> QED
    BY <1>3, <2>1, <2>2
<1>9. Place'
  BY <1>1, <1>6, <1>8, PlaceKept DEF Recording
<1>10. ledger[x] \in {"realized", "settled"} /\ ledger'[x] = "settled"
  BY <1>3, <1>4, <1>6 DEF Here, IInv, TypeOK
<1>11. Account(x)'
  BY <1>1, <1>10 DEF IInv, Accounts, Account
<1>12. \A y \in Pairs : y # x => ledger'[y] = ledger[y]
  BY <1>6 DEF IInv, TypeOK
<1>13. Accounts'
  BY <1>1, <1>6, <1>11, <1>12, AccountsKept
<1> QED
  BY <1>7, <1>8, <1>9, <1>13 DEF IInv

\* Steps of the runtime, which leave the ledger as it is.
LEMMA ProgressTells ==
  ASSUME IInv, pc \in Driven, NEW r \in [closed : 0 .. PerCell, terminal : BOOLEAN, committed : 0 .. BatchCount],
         Progress(r), pc' \in {"drive", "settle"}
  PROVE  /\ TypeOK' /\ cell \in Cells /\ runtime'[cell] = r
         /\ \A c \in Cells : c # cell => runtime'[c] = runtime[c]
         /\ \A c, p : L(c, p)' = L(c, p)
         /\ UNCHANGED <<scope, cell>> /\ Accounts'
<1>1. /\ UNCHANGED <<scope, ledger, evidence, calls, cell, last>> /\ cell \in Cells
      /\ runtime' = [runtime EXCEPT ![cell] = r] /\ last <= CellCount
  BY DEF Progress, records, IInv, TypeOK, Driven
<1>2. TypeOK'
  BY <1>1 DEF IInv, TypeOK
<1>3. \A c, p : L(c, p)' = L(c, p)
  BY <1>1 DEF L
<1>4. Accounts'
  BY <1>1 DEF IInv, Accounts, Account
<1> QED
  BY <1>1, <1>2, <1>3, <1>4 DEF IInv, TypeOK

\* They keep the invariant when they keep the cell.
LEMMA RuntimeStep ==
  ASSUME IInv, pc = "drive",
         NEW r \in [closed : 0 .. PerCell, terminal : BOOLEAN, committed : 0 .. BatchCount],
         Progress(r), CellOk(cell)', ~Done(cell),
         \/ pc' = "drive" /\ r.closed = Run.closed
         \/ pc' = "settle" /\ r.closed \in Positions
  PROVE  IInv'
<1>1. pc \in Driven /\ pc \in Recording /\ pc' \in {"drive", "settle"}
  BY DEF Driven, Recording
<1>2. /\ TypeOK' /\ cell \in Cells /\ runtime'[cell] = r
      /\ \A c \in Cells : c # cell => runtime'[c] = runtime[c]
      /\ \A c, p : L(c, p)' = L(c, p)
      /\ UNCHANGED <<scope, cell>> /\ Accounts'
  BY <1>1, ProgressTells
<1>3. \A c \in Cells : Done(c) => Done(c)'
  BY <1>2 DEF Done
<1>4. ASSUME NEW c \in Cells, c # cell PROVE CellOk(c)'
  BY <1>2, <1>4 DEF IInv, CellsOk, CellOk, SettledBefore
<1>5. CellsOk'
  BY <1>2, <1>4 DEF CellsOk
<1>6. pc' = "drive" => SettledBefore(cell, NextPair)'
  BY <1>1, <1>2 DEF IInv, Place, SettledBefore, NextPair, Run
<1>7. pc' = "settle" => Run.closed' \in Positions
  BY <1>2 DEF Run
<1>8. pc' \in Recording \cup {"stopping"} /\ pc' \notin {"dispatched", "calling"}
      /\ (pc' \in Driven => pc' = "drive")
  BY <1>1 DEF Recording, Driven
<1>9. Place'
  BY <1>1, <1>2, <1>3, <1>6, <1>7, <1>8, PlaceKept
<1> QED
  BY <1>2, <1>5, <1>9 DEF IInv

\* What the process knows of its cell while it drives it.
LEMMA DrivenCell ==
  ASSUME IInv, pc = "drive"
  PROVE  /\ cell \in Cells /\ CellOk(cell) /\ Run = runtime[cell]
         /\ Run \in [closed : 0 .. PerCell, terminal : BOOLEAN, committed : 0 .. BatchCount]
         /\ SettledBefore(cell, NextPair) /\ PerCell \in Nat /\ BatchCount \in Int
         /\ NextPair = Run.closed + 1 /\ Run.closed \in 0 .. PerCell /\ Run.committed \in 0 .. BatchCount
         /\ \A p \in Positions : BatchOf(p) \in Nat /\ p \in Nat \ {0} /\ p <= PerCell
<1>1. cell \in Cells /\ CellOk(cell) /\ Run = runtime[cell] /\ SettledBefore(cell, NextPair)
  BY DEF IInv, TypeOK, CellsOk, Run, Place, Driven
<1>2. Run \in [closed : 0 .. PerCell, terminal : BOOLEAN, committed : 0 .. BatchCount]
  BY <1>1 DEF IInv, TypeOK
<1>3. \A p \in Positions : BatchOf(p) \in Nat /\ p \in Nat \ {0} /\ p <= PerCell
  BY BatchBound, SizeAssumption DEF Positions
<1> QED
  BY <1>1, <1>2, <1>3, SizeAssumption DEF NextPair, BatchCount

\* It learns the terminal of a pair that is realized.
LEMMA RegisterStep == ASSUME IInv, Register PROVE IInv'
<1> DEFINE r == [Run EXCEPT !.terminal = TRUE]
<1>1. /\ pc = "drive" /\ pc' = "drive" /\ Progress(r)
      /\ L(cell, NextPair) = "realized" /\ NextPair \in Positions
  BY DEF Register, Registrable, Driving, Here, L
<1>2. /\ r \in [closed : 0 .. PerCell, terminal : BOOLEAN, committed : 0 .. BatchCount]
      /\ r.closed = Run.closed /\ r.committed = Run.committed
  BY <1>1, DrivenCell
<1> HIDE DEF r
<1>3. /\ runtime'[cell] = r /\ (\A c, p : L(c, p)' = L(c, p)) /\ UNCHANGED <<scope, cell>>
  BY <1>1, <1>2, ProgressTells DEF Driven
<1>4. CellOk(cell)'
  <2>1. r.closed < PerCell /\ L(cell, r.closed + 1) = "realized"
    BY <1>1, <1>2, DrivenCell
  <2> QED
    BY <1>1, <1>2, <1>3, <2>1, DrivenCell DEF CellOk, SettledBefore
<1> QED
  BY <1>1, <1>2, <1>4, RuntimeStep DEF Done

\* It closes the pair.
LEMMA CloseStep == ASSUME IInv, Close PROVE IInv'
<1> DEFINE r == [Run EXCEPT !.closed = @ + 1, !.terminal = FALSE]
<1>1. /\ pc = "drive" /\ pc' = "settle" /\ Progress(r)
      /\ L(cell, NextPair) = "realized" /\ NextPair \in Positions
  BY DEF Close, Driving, Here, L, Goto
<1>2. /\ r \in [closed : 0 .. PerCell, terminal : BOOLEAN, committed : 0 .. BatchCount]
      /\ r.closed = Run.closed + 1 /\ r.committed = Run.committed /\ r.terminal = FALSE
      /\ r.closed = NextPair
  <2>1. NextPair = Run.closed + 1 /\ NextPair \in 0 .. PerCell
    BY <1>1, DrivenCell
  <2> QED
    BY <1>1, <2>1, DrivenCell
<1> HIDE DEF r
<1>3. /\ runtime'[cell] = r /\ (\A c, p : L(c, p)' = L(c, p)) /\ UNCHANGED <<scope, cell>>
  BY <1>1, <1>2, ProgressTells DEF Driven
<1>4. CellOk(cell)'
  <2>1. BatchOf(NextPair) = Run.committed + 1
    BY <1>1, DrivenCell DEF CellOk
  <2>2. \A p \in Positions : p < r.closed => L(cell, p) = "settled"
    BY <1>2, DrivenCell, <1>1 DEF SettledBefore
  <2>3. \A p \in Positions : p > r.closed => L(cell, p) = "none"
    BY <1>1, <1>2, DrivenCell DEF CellOk
  <2>4. \A p \in Positions : p <= r.closed => BatchOf(p) <= r.committed + 1
    BY <1>1, <1>2, <2>1, BatchesInOrder
  <2>5. /\ \A p \in Positions : BatchOf(p) <= r.committed => L(cell, p) = "settled"
        /\ \A p \in Positions : scope[cell] # "open" => L(cell, p) = "none"
    BY <1>1, <1>2, DrivenCell DEF CellOk
  <2>6. r.closed \in Int /\ \A p \in Positions : p \in Int
    BY <1>1, <1>2, DrivenCell
  <2> QED
    BY <1>1, <1>2, <1>3, <2>2, <2>3, <2>4, <2>5, <2>6 DEF CellOk
<1> QED
  BY <1>1, <1>2, <1>4, RuntimeStep DEF Done

\* It commits a batch when it has closed all of it.
LEMMA CommitStep == ASSUME IInv, CommitBatch PROVE IInv'
<1> DEFINE r == [Run EXCEPT !.committed = @ + 1]
<1>1. /\ pc = "drive" /\ pc' = "drive" /\ Progress(r) /\ Run.committed < BatchCount
      /\ Run.closed = (Run.committed + 1) * BatchSize
  BY DEF CommitBatch
<1>2. /\ r \in [closed : 0 .. PerCell, terminal : BOOLEAN, committed : 0 .. BatchCount]
      /\ r.closed = Run.closed /\ r.committed = Run.committed + 1 /\ r.terminal = Run.terminal
  BY <1>1, DrivenCell
<1> HIDE DEF r
<1>3. /\ runtime'[cell] = r /\ (\A c, p : L(c, p)' = L(c, p)) /\ UNCHANGED <<scope, cell>>
  BY <1>1, <1>2, ProgressTells DEF Driven
<1>4. \A p \in Positions : BatchOf(p) <= Run.committed + 1 <=> p <= Run.closed
  BY <1>1, DrivenCell, BatchBound
<1>5. CellOk(cell)'
  <2>1. \A p \in Positions : p <= Run.closed => L(cell, p) = "settled"
    BY <1>1, DrivenCell DEF SettledBefore
  <2>2. \A p \in Positions : p > Run.closed => L(cell, p) = "none"
    BY <1>1, <1>4, DrivenCell DEF CellOk
  <2>3. ~Run.terminal
    BY <1>1, <2>2, DrivenCell DEF CellOk, Positions
  <2>4. \A p \in Positions : scope[cell] # "open" => L(cell, p) = "none"
    BY <1>1, DrivenCell DEF CellOk
  <2> QED
    BY <1>1, <1>2, <1>3, <1>4, <2>1, <2>2, <2>3, <2>4, DrivenCell DEF CellOk
<1>6. ~Done(cell)
  BY <1>1, DrivenCell DEF Done
<1> QED
  BY <1>1, <1>2, <1>5, <1>6, RuntimeStep

-----------------------------------------------------------------------------
\* The invariant is inductive: one lemma for each kind of step.
LEMMA NextInvariant == IInv /\ [Next]_vars => IInv'
<1> SUFFICES ASSUME IInv, [Next]_vars PROVE IInv'
  OBVIOUS
<1>1. CASE Create \/ Reopen
  BY <1>1, OpenStep
<1>2. CASE Reconcile \/ WriteRunning \/ Checkpoint \/ StageExecution \/ Publish \/ CloseStudy
             \/ Stop \/ NeedReconciliation \/ FailUnknown \/ Crash
  BY <1>2, OutsideStep
<1>3. CASE EnterCell \/ Resume \/ FinishCell
  BY <1>3, EnterStep
<1>4. CASE NextCell
  BY <1>4, NextCellStep
<1>5. CASE MakeCell
  BY <1>5, MakeStep
<1>6. CASE Pending \/ Reserve \/ Prepare \/ Realize
  BY <1>6, PlanStep
<1>7. CASE Dispatch
  BY <1>7, DispatchStep
<1>8. CASE Call
  BY <1>8, CallStep
<1>9. CASE Succeed \/ FailRetryable \/ FailForGood
  BY <1>9, OutcomeStep
<1>10. CASE Sync \/ Settle
  BY <1>10, SettleStep
<1>11. CASE Register
  BY <1>11, RegisterStep
<1>12. CASE Close
  BY <1>12, CloseStep
<1>13. CASE CommitBatch
  BY <1>13, CommitStep
<1>14. CASE UNCHANGED vars
  <2>1. Same /\ UNCHANGED <<scope, pc, cell, last>>
    BY <1>14 DEF vars, records, Same
  <2>2. NextPair' = NextPair /\ Run' = Run /\ \A c, p : L(c, p)' = L(c, p)
    BY <2>1 DEF Same, NextPair, Run, L
  <2>3. TypeOK'
    BY <2>1 DEF IInv, TypeOK, Same
  <2>4. Place'
    BY <2>1, <2>2, CellsKept DEF IInv, Place, SettledBefore, Here, L
  <2>5. Accounts'
    BY <2>1, <2>2, CellsKept DEF IInv, Accounts, Same
  <2> QED
    BY <2>1, <2>3, <2>4, <2>5, CellsKept DEF IInv
<1> QED
  BY <1>1, <1>2, <1>3, <1>4, <1>5, <1>6, <1>7, <1>8, <1>9, <1>10, <1>11, <1>12, <1>13, <1>14
  DEF Next, Process

\* Types, the shape of every cell, the place of the process and the accounts of all
\* pairs, in every reachable state.
THEOREM InvariantHolds == Spec => []IInv
BY InitInvariant, NextInvariant, PTL DEF Spec

\* The pair ledger and the runtime journal of a cell never contradict each other,
\* wherever processes have died.
THEOREM JournalsNeverDisagree == Spec => []JournalsAgree
<1>1. IInv => JournalsAgree
  <2> SUFFICES ASSUME IInv PROVE JournalsAgree
    OBVIOUS
  <2>1. \A c \in Cells : CellOk(c)
    BY DEF IInv, CellsOk
  <2> QED
    BY <2>1 DEF CellOk, L, JournalsAgree
<1> QED
  BY <1>1, InvariantHolds, PTL

\* Cell after cell, pair after pair: a pair is called only when everything before it is
\* settled and committed.
THEOREM CalledInOrder == Spec => []SerialSchedule
<1>1. IInv => SerialSchedule
  <2> SUFFICES ASSUME IInv, NEW c \in Cells, NEW p \in Positions, calls[<<c, p>>] > 0
               PROVE  /\ \A q \in 1 .. p - 1 : ledger[<<c, q>>] = "settled"
                      /\ runtime[c].committed >= BatchOf(p) - 1
                      /\ \A d \in 1 .. c - 1 : Complete(d) /\ runtime[d].committed = BatchCount
    BY DEF SerialSchedule
  <2>1. CellOk(c) /\ L(c, p) # "none" /\ scope[c] = "open"
    BY DEF IInv, CellsOk, CellOk, TypeOK, Accounts, Account, Pairs, L
  <2>2. /\ runtime[c].closed \in Nat /\ runtime[c].committed \in Nat /\ BatchOf(p) \in Nat
        /\ p \in Nat /\ \A q \in 1 .. p - 1 : q \in Positions /\ q < p
    BY BatchBound, SizeAssumption DEF IInv, TypeOK, Positions, BatchCount
  <2>3. p <= runtime[c].closed + 1
    BY <2>1, <2>2 DEF CellOk
  <2>4. \A q \in 1 .. p - 1 : L(c, q) = "settled"
    BY <2>1, <2>2, <2>3 DEF CellOk, SettledBefore
  <2>5. runtime[c].committed >= BatchOf(p) - 1
    BY <2>1, <2>2, <2>3 DEF CellOk
  <2>6. \A d \in 1 .. c - 1 : Done(d)
    BY <2>1 DEF IInv, Place
  <2> QED
    BY <2>4, <2>5, <2>6 DEF Done, Complete, L
<1> QED
  BY <1>1, InvariantHolds, PTL

-----------------------------------------------------------------------------
\* The pair ledgers implement AttemptLedger.
Succeeded == {x \in Pairs : ledger[x] \in Answered}

SameKind(s, t) == (s = "dispatching" <=> t = "dispatching") /\ (s \in Answered <=> t \in Answered)

\* A step that moves no pair in or out of its dispatch, nor to an answer, is none of it.
LEMMA LedgerStutter ==
  ASSUME UNCHANGED <<evidence, calls>>,
         \A x \in Pairs : SameKind(ledger'[x], ledger[x])
  PROVE  UNCHANGED Ledger!vars
<1>1. Charged' = Charged
  BY DEF Charged, SameKind
<1>2. Succeeded' = Succeeded
  BY DEF Succeeded, SameKind
<1> QED
  BY <1>1, <1>2 DEF Ledger!vars, Charged, Succeeded

\* A dispatch charges its attempt.
LEMMA LedgerCharge == ASSUME IInv, Dispatch PROVE Ledger!Next
<1>1. /\ pc = "drive" /\ NextPair \in Positions /\ UNCHANGED <<evidence, calls>>
      /\ Here(NextPair) \in Resumable /\ Put(NextPair, "dispatching", "dispatched")
  BY DEF Dispatch, Driving
<1>2. PICK x \in Pairs : x = <<cell, NextPair>>
  BY <1>1, NextIsPair DEF Driven
<1>3. ledger' = [ledger EXCEPT ![x] = "dispatching"] /\ ledger[x] \in Resumable
  BY <1>1, <1>2 DEF Put, Here
<1>4. TypeOK /\ Account(x) /\ MaxAttempts \in Nat \ {0}
  BY AttemptsAssumption DEF IInv, Accounts
<1>5. /\ x \notin Succeeded /\ evidence[x] = Charged[x] /\ Charged[x] < MaxAttempts
      /\ Charged[x] \in Nat
  BY <1>3, <1>4 DEF Succeeded, Charged, Account, Resumable, Answered, TypeOK
<1>6. Charged' = [Charged EXCEPT ![x] = @ + 1]
  <2>1. \A y \in Pairs : Charged'[y] = IF y = x THEN Charged[x] + 1 ELSE Charged[y]
    BY <1>1, <1>3, <1>4 DEF Charged, Resumable, TypeOK
  <2> QED
    BY <2>1 DEF Charged
<1>7. Succeeded' = Succeeded
  BY <1>3, <1>4 DEF Succeeded, Resumable, Answered, TypeOK
<1>8. Ledger!Charge(x)
  BY <1>1, <1>5, <1>6, <1>7 DEF Ledger!Charge, Charged, Succeeded
<1> QED
  BY <1>8 DEF Ledger!Next

\* A call is one.
LEMMA LedgerCall == ASSUME IInv, Call PROVE Ledger!Next
<1>1. /\ pc = "dispatched" /\ NextPair \in Positions
      /\ UNCHANGED <<ledger, evidence>>
      /\ calls' = [calls EXCEPT ![<<cell, NextPair>>] = @ + 1]
      /\ Here(NextPair) = "dispatching"
  BY DEF Call, records, IInv, Place
<1>2. PICK x \in Pairs : x = <<cell, NextPair>>
  BY <1>1, NextIsPair DEF Driven
<1>3. ledger[x] = "dispatching" /\ calls[x] = evidence[x] /\ evidence[x] \in Nat
  BY <1>1, <1>2 DEF Here, IInv, Accounts, TypeOK
<1>4. Charged' = Charged /\ Succeeded' = Succeeded /\ calls[x] < Charged[x]
  BY <1>1, <1>3 DEF Charged, Succeeded
<1>5. Ledger!Call(x)
  BY <1>1, <1>2, <1>4 DEF Ledger!Call, Charged, Succeeded
<1> QED
  BY <1>5 DEF Ledger!Next

\* The record of an outcome settles it.
LEMMA LedgerSettle == ASSUME IInv, Succeed \/ FailRetryable \/ FailForGood PROVE Ledger!Next
<1>1. /\ pc = "calling" /\ NextPair \in Positions /\ calls' = calls /\ Noted
      /\ Here(NextPair) = "dispatching"
  BY DEF Succeed, FailRetryable, FailForGood, IInv, Place
<1>2. PICK x \in Pairs : x = <<cell, NextPair>>
  BY <1>1, NextIsPair DEF Driven
<1>3. PICK s \in {"judged", "retry_wait", "stopped"} : ledger' = [ledger EXCEPT ![x] = s]
  BY <1>2 DEF Succeed, FailRetryable, FailForGood, Put
<1>4. /\ evidence' = [evidence EXCEPT ![x] = @ + 1] /\ ledger[x] = "dispatching"
      /\ calls[x] = evidence[x] + 1 /\ evidence[x] \in Nat /\ TypeOK
  BY <1>1, <1>2 DEF Noted, Here, IInv, Accounts, TypeOK
<1>5. Charged[x] = evidence[x] + 1
  BY <1>4 DEF Charged
<1>6. Charged' = Charged
  <2>1. \A y \in Pairs : Charged'[y] = Charged[y]
    BY <1>3, <1>4 DEF Charged, TypeOK
  <2> QED
    BY <2>1 DEF Charged
<1>7. Succeeded' \in {Succeeded, Succeeded \cup {x}}
  <2>1. \A y \in Pairs : y # x => ledger'[y] = ledger[y]
    BY <1>3, <1>4 DEF TypeOK
  <2>2. ledger'[x] = s /\ ledger[x] \notin Answered
    BY <1>3, <1>4 DEF TypeOK, Answered
  <2>3. CASE s \in Answered
    BY <2>1, <2>2, <2>3 DEF Succeeded
  <2>4. CASE s \notin Answered
    BY <2>1, <2>2, <2>4 DEF Succeeded
  <2> QED
    BY <2>3, <2>4
<1>8. Ledger!Settle(x)
  BY <1>1, <1>4, <1>5, <1>6, <1>7 DEF Ledger!Settle, Charged, Succeeded
<1> QED
  BY <1>8 DEF Ledger!Next

\* Whatever is killed when: an attempt is recorded before its call, called once, and no
\* pair is tried again while an attempt of it is unresolved, after it succeeded, or more
\* often than MaxAttempts.
THEOREM AttemptsAreKept == Spec => KeepsAttemptPromise
<1>1. Init => Ledger!Init
  <2> SUFFICES ASSUME Init PROVE Ledger!Init
    OBVIOUS
  <2>1. /\ evidence = [x \in Pairs |-> 0] /\ calls = [x \in Pairs |-> 0]
        /\ \A x \in Pairs : ledger[x] = "none"
    BY DEF Init
  <2>2. Charged = [x \in Pairs |-> 0] /\ Succeeded = {}
    BY <2>1 DEF Charged, Succeeded, Answered
  <2> QED
    BY <2>1, <2>2 DEF Ledger!Init, Charged, Succeeded
<1>2. IInv /\ [Next]_vars => [Ledger!Next]_(Ledger!vars)
  <2> SUFFICES ASSUME IInv, [Next]_vars PROVE [Ledger!Next]_(Ledger!vars)
    OBVIOUS
  <2>1. CASE Dispatch
    BY <2>1, LedgerCharge
  <2>2. CASE Call
    BY <2>2, LedgerCall
  <2>3. CASE Succeed \/ FailRetryable \/ FailForGood
    BY <2>3, LedgerSettle
  <2>4. CASE Pending \/ Reserve \/ Prepare \/ Realize
    <3>1. /\ UNCHANGED <<evidence, calls>> /\ NextPair \in Positions /\ pc \in Driven
      BY <2>4 DEF Pending, Reserve, Prepare, Realize, Driving, Driven
    <3>2. PICK x \in Pairs : x = <<cell, NextPair>>
      BY <3>1, NextIsPair
    <3>3. \/ /\ ledger[x] \in {"none", "pending", "reserved"}
             /\ \E s \in {"pending", "reserved", "pre_dispatch"} : ledger' = [ledger EXCEPT ![x] = s]
          \/ ledger[x] = "judged" /\ ledger' = [ledger EXCEPT ![x] = "realized"]
      BY <2>4, <3>2 DEF Pending, Reserve, Prepare, Realize, Driving, Put, Here
    <3>4. \A y \in Pairs : SameKind(ledger'[y], ledger[y])
      BY <3>3 DEF IInv, TypeOK, Answered, SameKind
    <3> QED
      BY <3>1, <3>4, LedgerStutter
  <2>5. CASE Sync \/ Settle
    <3>1. PICK x \in Pairs : /\ ledger[x] \in {"realized", "settled"}
                             /\ ledger' = [ledger EXCEPT ![x] = "settled"]
      BY <2>5, SettledPair
    <3>2. \A y \in Pairs : SameKind(ledger'[y], ledger[y])
      BY <3>1 DEF IInv, TypeOK, Answered, SameKind
    <3> QED
      BY <2>5, <3>2, LedgerStutter DEF Sync, Settle
  <2>6. CASE UNCHANGED <<ledger, evidence, calls>>
    BY <2>6, LedgerStutter DEF SameKind
  <2>7. CASE ~(Dispatch \/ Call \/ Succeed \/ FailRetryable \/ FailForGood \/ Pending \/ Reserve
               \/ Prepare \/ Realize \/ Sync \/ Settle)
    <3>1. UNCHANGED <<ledger, evidence, calls>>
      BY <2>7 DEF Next, Process, vars, records, Create, Reopen, Reconcile, EnterCell, MakeCell, Resume,
         FailUnknown, Register, Close, CommitBatch, Progress, FinishCell, WriteRunning, NextCell,
         Checkpoint, StageExecution, Publish, CloseStudy, Stop, NeedReconciliation, WriteStatus, Crash
    <3> QED
      BY <2>6, <3>1
  <2> QED
    BY <2>1, <2>2, <2>3, <2>4, <2>5, <2>7
<1> QED
  BY <1>1, <1>2, InvariantHolds, PTL DEF Spec, KeepsAttemptPromise, Ledger!Spec

-----------------------------------------------------------------------------
\* The status file.

\* A pair that blocks its cell.
Stuck(c) ==
  scope[c] = "open" /\ \E p \in Positions : L(c, p) \in {"stopped", "dispatching"}
Calm(c) == \A p \in Positions : L(c, p) \notin {"stopped", "dispatching"}

Lifecycles == {"none", "initialized", "running", "model_batch_complete", "cells_complete",
               "stopped", "reconciliation_required"}

\* What a status that blocks the study says of the cells, and of the process that reads it.
Blocks ==
  /\ status = Status(status.lifecycle)
  /\ \E c \in Cells : Stuck(c)
  /\ pc \in {"down", "cell", "sync", "drive", "counted", "stopping", "reconciling"}
  /\ pc \in {"drive", "counted"} => Done(cell)

StatusOk ==
  /\ status \in [lifecycle : Lifecycles, logical : Int, physical : Int, cells : Int]
  /\ status.logical <= Logical /\ status.physical <= Physical /\ status.cells <= Completed
  /\ pc \in {"drive", "settle", "counted"} => Calm(cell)
  /\ pc \in {"stopping", "reconciling"} => Stuck(cell)
  /\ Blocked => Blocks

Counted == Answered \cup Attempting \cup {"stopped"}

\* What the ledgers add up to never gets less.
Grows ==
  /\ \A x \in Pairs : ledger[x] \in Counted => ledger'[x] \in Counted
  /\ \A x \in Pairs : Charged[x] <= Charged'[x]
  /\ \A c \in Cells : Complete(c) => Complete(c)'

-----------------------------------------------------------------------------
\* There are finitely many pairs and cells, and some of each.
LEMMA PairsFinite ==
  /\ IsFiniteSet(Pairs) /\ IsFiniteSet(Cells) /\ Positions # {}
  /\ \A n \in Cells : IsFiniteSet(1 .. n) /\ Cardinality(1 .. n) = n
<1>1. CellCount \in Nat /\ PerCell \in Nat \ {0}
  BY SizeAssumption DEF CellCount
<1>2. IsFiniteSet(Cells) /\ IsFiniteSet(Positions)
  BY <1>1, FS_Interval DEF Cells, Positions
<1>3. 1 \in Positions
  BY <1>1 DEF Positions
<1>4. IsFiniteSet(Pairs)
  BY <1>2, FS_Product DEF Pairs
<1>5. ASSUME NEW n \in Cells PROVE IsFiniteSet(1 .. n) /\ Cardinality(1 .. n) = n
  <2>1. n \in Nat \ {0}
    BY <1>1 DEF Cells
  <2>2. IsFiniteSet(1 .. n) /\ Cardinality(1 .. n) = IF 1 > n THEN 0 ELSE n - 1 + 1
    BY <2>1, FS_Interval
  <2> QED BY <2>1, <2>2
<1> QED BY <1>2, <1>3, <1>4, <1>5

\* Types of the sums.
LEMMA CountsTyped ==
  ASSUME IInv
  PROVE  /\ Logical \in Nat /\ Physical \in Int /\ Completed \in Nat /\ Begun \in Nat
         /\ \A x \in Pairs : evidence[x] \in Nat /\ Charged[x] \in Nat /\ evidence[x] <= Charged[x]
<1>1. \A x \in Pairs : evidence[x] \in Nat /\ Charged[x] \in Nat /\ evidence[x] <= Charged[x]
  BY DEF IInv, TypeOK, Charged
<1>2. Physical \in Int
  BY <1>1, PairsFinite, SumRemove DEF Physical
<1>3. \A S : S \subseteq Pairs \/ S \subseteq Cells => Cardinality(S) \in Nat
  BY PairsFinite, FS_Subset, FS_CardinalityType
<1>4. Logical \in Nat
  BY <1>3 DEF Logical
<1>5. Completed \in Nat /\ Begun \in Nat
  BY <1>3 DEF Completed, Begun
<1> QED BY <1>1, <1>2, <1>4, <1>5

\* And so the sums do.
LEMMA CountsGrow ==
  ASSUME IInv, IInv', Grows
  PROVE  /\ Logical <= Logical' /\ Physical <= Physical' /\ Completed <= Completed'
         /\ Logical' \in Int /\ Physical' \in Int /\ Completed' \in Int
<1>1. Logical <= Logical' /\ Logical' \in Int
  <2> DEFINE S == {x \in Pairs : ledger[x] \in Counted}
             T == {x \in Pairs : ledger'[x] \in Counted}
  <2>1. S \subseteq T /\ T \subseteq Pairs
    BY DEF Grows
  <2>2. Cardinality(S) <= Cardinality(T) /\ Cardinality(T) \in Int
    BY <2>1, PairsFinite, FS_Subset, FS_CardinalityType
  <2>3. Logical = Cardinality(S) /\ Logical' = Cardinality(T)
    BY DEF Logical, Counted
  <2> QED BY <2>2, <2>3
<1>2. Physical <= Physical' /\ Physical' \in Int
  <2>1. \A x \in Pairs : Charged[x] \in Int /\ Charged'[x] \in Int /\ Charged[x] <= Charged'[x]
    BY CountsTyped DEF Grows, IInv, TypeOK, Charged
  <2>2. Sum(Charged, Pairs) <= Sum(Charged', Pairs) /\ Sum(Charged', Pairs) \in Int
    BY <2>1, PairsFinite, SumLeq, SumRemove
  <2> QED BY <2>2 DEF Physical
<1>3. Completed <= Completed' /\ Completed' \in Int
  <2> DEFINE S == {c \in Cells : Complete(c)}
             T == {c \in Cells : Complete(c)'}
  <2>1. S \subseteq T /\ T \subseteq Cells
    BY DEF Grows
  <2>2. Cardinality(S) <= Cardinality(T) /\ Cardinality(T) \in Int
    BY <2>1, PairsFinite, FS_Subset, FS_CardinalityType
  <2>3. Completed = Cardinality(S) /\ Completed' = Cardinality(T)
    BY DEF Completed
  <2> QED BY <2>2, <2>3
<1> QED BY <1>1, <1>2, <1>3

\* With the ledgers as they were, so are their sums.
LEMMA CountsSame ==
  ASSUME UNCHANGED <<ledger, evidence, scope>>
  PROVE  /\ UNCHANGED <<Logical, Physical, Completed, Begun>>
         /\ \A l : Status(l)' = Status(l)
         /\ \A c : (Stuck(c)' <=> Stuck(c)) /\ (Calm(c)' <=> Calm(c))
<1>1. UNCHANGED <<Logical, Physical, Begun>>
  BY DEF Logical, Physical, Charged, Begun
<1>2. Completed' = Completed
  BY DEF Completed, Complete
<1>3. \A l : Status(l)' = Status(l)
  BY <1>1, <1>2 DEF Status
<1>4. \A c : (Stuck(c)' <=> Stuck(c)) /\ (Calm(c)' <=> Calm(c))
  BY DEF Stuck, Calm, L
<1> QED BY <1>1, <1>2, <1>3, <1>4

\* A blocked study has a cell that is begun and not complete.
LEMMA StuckCell ==
  ASSUME IInv, NEW c \in Cells, Stuck(c)
  PROVE  /\ Begun > Completed /\ ~Complete(c) /\ ~Calm(c)
         /\ \A d \in Cells : d < c => Done(d)
         /\ pc # "down" => cell = c \/ (cell < c /\ cell \in Cells /\ Done(cell))
<1>1. ~Complete(c) /\ ~Calm(c) /\ scope[c] # "absent"
  BY DEF Stuck, Complete, L, Calm
<1>2. \A d \in Cells : d < c => Done(d)
  BY <1>1, SizeAssumption DEF IInv, Place, Cells, CellCount
<1>3. Begun > Completed
  <2> DEFINE S == {d \in Cells : Complete(d)}
             T == {d \in Cells : scope[d] # "absent"}
  <2>1. S \subseteq T \ {c} /\ c \in T /\ T \subseteq Cells
    BY <1>1 DEF Complete
  <2>2. IsFiniteSet(T) /\ Cardinality(T) \in Nat
    BY <2>1, PairsFinite, FS_Subset, FS_CardinalityType
  <2>3. IsFiniteSet(T \ {c}) /\ Cardinality(T \ {c}) = Cardinality(T) - 1
    BY <2>1, <2>2, FS_RemoveElement
  <2>4. Cardinality(S) <= Cardinality(T \ {c}) /\ Cardinality(S) \in Nat
    BY <2>1, <2>3, FS_Subset, FS_CardinalityType
  <2>5. Cardinality(S) < Cardinality(T)
    BY <2>2, <2>3, <2>4
  <2> QED BY <2>2, <2>4, <2>5 DEF Begun, Completed
<1>4. ASSUME pc # "down" PROVE cell = c \/ (cell < c /\ cell \in Cells /\ Done(cell))
  <2>1. cell \in Cells /\ \A d \in 1 .. cell - 1 : Done(d)
    BY <1>4 DEF IInv, TypeOK, Place
  <2>2. ~Done(c)
    BY <1>1 DEF Done, Complete, L
  <2>3. c \in Int /\ cell \in Int /\ c >= 1
    BY <2>1 DEF Cells
  <2>4. ~(c < cell)
    BY <2>1, <2>2, <2>3
  <2> QED BY <1>2, <2>1, <2>3, <2>4
<1> QED BY <1>1, <1>2, <1>3, <1>4

\* Beside the pair it is at, a cell that is driven has nothing open.
LEMMA OthersCalm ==
  ASSUME IInv, pc \in Driven \cup {"settle"}, NextPair \in Positions
  PROVE  \A p \in Positions \ {NextPair} : L(cell, p) \in {"none", "realized", "settled"}
<1>1. cell \in Cells /\ CellOk(cell) /\ runtime[cell].closed \in Int
      /\ NextPair = runtime[cell].closed + 1
  BY DEF IInv, TypeOK, CellsOk, Driven, NextPair, Run
<1> QED BY <1>1 DEF CellOk, Positions

\* A cell that is stuck, or done, has nothing left to settle.
LEMMA NothingUnsynced ==
  ASSUME IInv, pc = "sync", Stuck(cell) \/ Done(cell)
  PROVE  Unsynced = {}
<1>1. cell \in Cells /\ CellOk(cell) /\ runtime[cell].closed \in 0 .. PerCell
      /\ runtime[cell].committed \in 0 .. BatchCount /\ PerCell \in Nat /\ BatchCount \in Int
  BY SizeAssumption DEF IInv, TypeOK, CellsOk, BatchCount
<1>2. ASSUME NEW p \in 1 .. Run.closed, BatchOf(p) > Run.committed, Here(p) = "realized"
      PROVE  FALSE
  <2>1. p \in Positions /\ p <= runtime[cell].closed /\ L(cell, p) = "realized"
    BY <1>1, <1>2 DEF Positions, Run, Here, L
  <2>2. CASE Done(cell)
    BY <2>1, <2>2 DEF Done
  <2>3. CASE Stuck(cell)
    <3>1. PICK q \in Positions : L(cell, q) \in {"stopped", "dispatching"}
      BY <2>3 DEF Stuck
    <3>2. q = runtime[cell].closed + 1
      BY <1>1, <3>1 DEF CellOk, Positions
    <3>3. SettledBefore(cell, q)
      BY <1>1, <3>1, <3>2 DEF CellOk
    <3> QED BY <1>1, <2>1, <3>2, <3>3 DEF SettledBefore, Positions
  <2> QED BY <2>2, <2>3
<1> QED BY <1>2 DEF Unsynced

-----------------------------------------------------------------------------
\* One record of the ledger, and what it may add to the counts.
Recorded ==
  \/ Pending \/ Reserve \/ Prepare \/ Realize \/ Dispatch
  \/ Succeed \/ FailRetryable \/ FailForGood \/ Sync \/ Settle

Moves(x, s) ==
  /\ ledger' = [ledger EXCEPT ![x] = s]
  /\ ledger[x] \in Counted => s \in Counted
  /\ ledger[x] # "settled" \/ s = "settled"
  /\ \/ ledger[x] # "dispatching" /\ evidence' = evidence
     \/ /\ ledger[x] = "dispatching" /\ s # "dispatching"
        /\ evidence' = [evidence EXCEPT ![x] = @ + 1]

\* Every record is such a move.
LEMMA RecordMoves ==
  ASSUME IInv, Recorded
  PROVE  /\ \E x \in Pairs, s \in States : Moves(x, s)
         /\ UNCHANGED <<status, scope, cell>>
<1>1. CASE Sync \/ Settle
  <2>1. PICK x \in Pairs : /\ ledger[x] \in {"realized", "settled"}
                           /\ ledger' = [ledger EXCEPT ![x] = "settled"]
    BY <1>1, SettledPair
  <2>2. evidence' = evidence /\ UNCHANGED <<status, scope, cell>>
    BY <1>1 DEF Sync, Settle, Put, files
  <2>3. Moves(x, "settled") /\ "settled" \in States
    BY <2>1, <2>2 DEF Moves, Counted, Answered, States
  <2> QED BY <2>2, <2>3
<1>2. CASE Pending \/ Reserve \/ Prepare \/ Realize \/ Dispatch
  <2>1. /\ pc = "drive" /\ NextPair \in Positions /\ UNCHANGED <<evidence, calls>>
        /\ Here(NextPair) \in {"none", "pending", "reserved", "judged"} \cup Resumable
    BY <1>2 DEF Pending, Reserve, Prepare, Realize, Dispatch, Driving
  <2>2. PICK x \in Pairs : x = <<cell, NextPair>>
    BY <2>1, NextIsPair DEF Driven
  <2>3. PICK s \in {"pending", "reserved", "pre_dispatch", "realized", "dispatching"} :
          /\ ledger' = [ledger EXCEPT ![x] = s] /\ UNCHANGED <<status, scope, cell>>
          /\ s \in {"pending", "reserved"} => ledger[x] \in {"none", "pending"}
    BY <1>2, <2>2 DEF Pending, Reserve, Prepare, Realize, Dispatch, Driving, Put, Here, files
  <2>4. Moves(x, s) /\ s \in States
    BY <2>1, <2>2, <2>3 DEF Moves, Counted, Answered, Attempting, States, Here, Resumable
  <2> QED BY <2>3, <2>4
<1>3. CASE Succeed \/ FailRetryable \/ FailForGood
  <2>1. /\ pc = "calling" /\ NextPair \in Positions /\ Noted /\ Here(NextPair) = "dispatching"
    BY <1>3 DEF Succeed, FailRetryable, FailForGood, IInv, Place
  <2>2. PICK x \in Pairs : x = <<cell, NextPair>>
    BY <2>1, NextIsPair DEF Driven
  <2>3. PICK s \in {"judged", "retry_wait", "stopped"} :
          ledger' = [ledger EXCEPT ![x] = s] /\ UNCHANGED <<status, scope, cell>>
    BY <1>3, <2>2 DEF Succeed, FailRetryable, FailForGood, Put, files
  <2>4. evidence' = [evidence EXCEPT ![x] = @ + 1] /\ ledger[x] = "dispatching"
    BY <2>1, <2>2 DEF Noted, Here
  <2>5. Moves(x, s) /\ s \in States
    BY <2>3, <2>4 DEF Moves, Counted, Answered, Attempting, States
  <2> QED BY <2>3, <2>5
<1> QED BY <1>1, <1>2, <1>3 DEF Recorded

\* So that nothing gets less.
LEMMA RecordGrows ==
  ASSUME IInv, IInv', Recorded
  PROVE  Grows
<1>1. PICK x \in Pairs, s \in States : Moves(x, s)
  BY RecordMoves
<1>2. /\ ledger'[x] = s /\ scope' = scope
      /\ \A y \in Pairs : y # x => ledger'[y] = ledger[y] /\ evidence'[y] = evidence[y]
  BY <1>1, RecordMoves DEF Moves, IInv, TypeOK
<1>3. \A y \in Pairs : ledger[y] \in Counted => ledger'[y] \in Counted
  BY <1>1, <1>2 DEF Moves
<1>4. ASSUME NEW y \in Pairs PROVE Charged[y] <= Charged'[y]
  <2>1. evidence[y] \in Nat
    BY DEF IInv, TypeOK
  <2>2. CASE y # x
    BY <1>2, <2>1, <2>2 DEF Charged
  <2>3. CASE y = x
    <3>1. CASE ledger[x] # "dispatching" /\ evidence' = evidence
      BY <1>2, <2>1, <2>3, <3>1 DEF Charged
    <3>2. CASE /\ ledger[x] = "dispatching" /\ s # "dispatching"
               /\ evidence' = [evidence EXCEPT ![x] = @ + 1]
      <4>1. evidence'[x] = evidence[x] + 1
        BY <3>2 DEF IInv, TypeOK
      <4> QED BY <1>2, <2>1, <2>3, <3>2, <4>1 DEF Charged
    <3> QED BY <1>1, <3>1, <3>2 DEF Moves
  <2> QED BY <2>2, <2>3
<1>5. ASSUME NEW c \in Cells, Complete(c) PROVE Complete(c)'
  <2>1. \A y \in Pairs : ledger[y] = "settled" => ledger'[y] = "settled"
    BY <1>1, <1>2 DEF Moves
  <2>2. \A p \in Positions : <<c, p>> \in Pairs
    BY DEF Pairs
  <2> QED BY <1>2, <1>5, <2>1, <2>2 DEF Complete
<1> QED BY <1>3, <1>4, <1>5 DEF Grows

-----------------------------------------------------------------------------
\* A blocked study is only looked through again.
LEMMA BlockedIdle ==
  ASSUME IInv, StatusOk, Blocked
  PROVE  ~Recorded /\ ~Call /\ ~Register /\ ~Close /\ ~CommitBatch /\ ~Reconcile /\ ~MakeCell
<1>1. PICK c \in Cells : Stuck(c)
  BY DEF StatusOk, Blocks
<1>2. /\ pc \in {"down", "cell", "sync", "drive", "counted", "stopping", "reconciling"}
      /\ pc = "drive" => Done(cell)
  BY DEF StatusOk, Blocks
<1>3. pc = "sync" => Unsynced = {}
  BY <1>1, StuckCell, NothingUnsynced
<1>4. ASSUME pc = "drive"
      PROVE  /\ ~CommitBatch
             /\ \A t : t # "settled" => ~Driving(t)
  BY <1>2, <1>4, DrivenCell DEF CommitBatch, Driving, Here, Done, L
<1>5. \A t : Driving(t) => pc = "drive"
  BY DEF Driving
<1>6. ~Call /\ ~MakeCell /\ ~Reconcile /\ ~Sync /\ ~Settle /\ ~Succeed /\ ~FailRetryable
      /\ ~FailForGood
  BY <1>2, <1>3 DEF Call, MakeCell, Reconcile, Sync, Settle, Succeed, FailRetryable, FailForGood
<1>7. ~Pending /\ ~Reserve /\ ~Prepare /\ ~Realize /\ ~Register /\ ~Close /\ ~CommitBatch
  BY <1>4, <1>5 DEF Pending, Reserve, Prepare, Realize, Register, Registrable, Close, CommitBatch
<1>8. ~Dispatch
  BY <1>4, <1>5 DEF Dispatch, Resumable
<1> QED BY <1>6, <1>7, <1>8 DEF Recorded

\* A lower bound of what the ledgers add up to stays one.
LEMMA CountsLead ==
  ASSUME IInv, IInv', StatusOk, Grows, status' = status
  PROVE  (status.logical <= Logical /\ status.physical <= Physical /\ status.cells <= Completed)'
<1>1. status.logical \in Int /\ status.physical \in Int /\ status.cells \in Int
      /\ status.logical <= Logical /\ status.physical <= Physical /\ status.cells <= Completed
  BY DEF StatusOk
<1>2. Logical \in Int /\ Physical \in Int /\ Completed \in Int
  BY CountsTyped
<1>3. /\ Logical <= Logical' /\ Physical <= Physical' /\ Completed <= Completed'
      /\ Logical' \in Int /\ Physical' \in Int /\ Completed' \in Int
  BY CountsGrow
<1> QED BY <1>1, <1>2, <1>3

\* After a record the cell has nothing open, or the process leaves to write that it has.
LEMMA RecordCalm ==
  ASSUME IInv, IInv', StatusOk, Recorded
  PROVE  /\ pc' \in {"drive", "settle", "counted"} => Calm(cell)'
         /\ pc' \in {"stopping", "reconciling"} => Stuck(cell)'
<1> USE DEF L
<1>1. ASSUME NEW p \in Positions, NEW s \in States, ledger' = [ledger EXCEPT ![<<cell, p>>] = s]
      PROVE  /\ ledger'[<<cell, p>>] = s
             /\ \A q \in Positions : q # p => ledger'[<<cell, q>>] = ledger[<<cell, q>>]
  BY <1>1 DEF IInv, TypeOK
<1>c. cell' = cell /\ scope' = scope
  BY RecordMoves
<1>2. CASE Sync
  BY <1>2 DEF Sync, Put, Goto
<1>3. CASE Settle
  <2>1. pc' = "drive" /\ Calm(cell) /\ Run.closed \in Positions
        /\ ledger' = [ledger EXCEPT ![<<cell, Run.closed>>] = "settled"]
    BY <1>3 DEF Settle, Put, Goto, StatusOk, IInv, Place
  <2>2. "settled" \in States
    BY DEF States, Answered
  <2> QED BY <1>1, <1>c, <2>1, <2>2 DEF Calm
<1>4. CASE Pending \/ Reserve \/ Prepare \/ Realize
  <2>1. PICK s \in {"pending", "reserved", "pre_dispatch", "realized"} :
          ledger' = [ledger EXCEPT ![<<cell, NextPair>>] = s]
    BY <1>4 DEF Pending, Reserve, Prepare, Realize, Put
  <2>2. pc' = "drive" /\ Calm(cell) /\ NextPair \in Positions /\ s \in States
    BY <1>4 DEF Pending, Reserve, Prepare, Realize, Driving, Put, Goto, StatusOk,
       States, Attempting, Answered
  <2> QED BY <1>1, <1>c, <2>1, <2>2 DEF Calm
<1>5. CASE Dispatch
  BY <1>5 DEF Dispatch, Put, Goto
<1>6. CASE Succeed \/ FailRetryable \/ FailForGood
  <2>1. /\ pc = "calling" /\ NextPair \in Positions
    BY <1>6 DEF Succeed, FailRetryable, FailForGood, IInv, Place
  <2>2. \A p \in Positions \ {NextPair} : L(cell, p) \in {"none", "realized", "settled"}
    BY <2>1, OthersCalm DEF Driven
  <2>3. CASE Succeed \/ FailRetryable
    <3>1. PICK s \in {"judged", "retry_wait"} :
            ledger' = [ledger EXCEPT ![<<cell, NextPair>>] = s]
      BY <2>3 DEF Succeed, FailRetryable, Put
    <3>2. pc' = "drive" /\ s \in States
      BY <2>3 DEF Succeed, FailRetryable, Put, Goto, States, Attempting, Answered
    <3> QED BY <1>1, <1>c, <2>1, <2>2, <3>1, <3>2 DEF Calm
  <2>4. CASE FailForGood
    <3>1. ledger' = [ledger EXCEPT ![<<cell, NextPair>>] = "stopped"] /\ pc' = "stopping"
      BY <2>4 DEF FailForGood, Put, Goto
    <3>2. "stopped" \in States /\ scope[cell] = "open"
      BY <2>1 DEF States, IInv, Place, Recording
    <3>3. ledger'[<<cell, NextPair>>] = "stopped"
      BY <1>1, <2>1, <3>1, <3>2
    <3> QED BY <1>c, <2>1, <3>1, <3>2, <3>3 DEF Stuck
  <2> QED BY <1>6, <2>3, <2>4
<1> QED BY <1>2, <1>3, <1>4, <1>5, <1>6 DEF Recorded

\* A record of the ledger: the status stays, and what it tells only grows.
LEMMA RecordStatus ==
  ASSUME IInv, IInv', StatusOk, Recorded
  PROVE  StatusOk'
<1>1. UNCHANGED status /\ ~Blocked'
  BY BlockedIdle, RecordMoves DEF Blocked
<1>2. Grows
  BY RecordGrows
<1> QED BY <1>1, <1>2, CountsLead, RecordCalm DEF StatusOk

\* Steps that leave the ledgers and the status alone.
LEMMA QuietStatus ==
  ASSUME IInv, StatusOk, UNCHANGED <<status, ledger, evidence, scope>>,
         pc' \in {"drive", "settle", "counted"} => Calm(cell)',
         pc' \in {"stopping", "reconciling"} => Stuck(cell)',
         Blocked => /\ pc' \in {"down", "cell", "sync", "drive", "counted", "stopping",
                                "reconciling"}
                    /\ pc' \in {"drive", "counted"} => Done(cell)'
  PROVE  StatusOk'
<1>1. (status.logical <= Logical /\ status.physical <= Physical /\ status.cells <= Completed)'
  BY CountsSame DEF StatusOk
<1>2. Blocked' => Blocks'
  <2>1. ASSUME Blocked PROVE Blocks'
    <3>1. status = Status(status.lifecycle) /\ \E c \in Cells : Stuck(c)
      BY <2>1 DEF StatusOk, Blocks
    <3>2. Status(status.lifecycle)' = Status(status.lifecycle)
      BY CountsSame DEF Status
    <3>3. (\E c \in Cells : Stuck(c))'
      BY <3>1, CountsSame
    <3> QED BY <2>1, <3>1, <3>2, <3>3 DEF Blocks
  <2> QED BY <2>1 DEF Blocked
<1> QED BY <1>1, <1>2 DEF StatusOk

\* The call, and the runtime.
LEMMA DriveStatus ==
  ASSUME IInv, StatusOk, Call \/ FailUnknown \/ Register \/ Close \/ CommitBatch
  PROVE  StatusOk'
<1>1. UNCHANGED <<status, ledger, evidence, scope, cell>>
  BY DEF Call, FailUnknown, Register, Close, CommitBatch, Progress, files, records
<1>2. ~Blocked
  <2>1. FailUnknown /\ StatusOk => ~Blocked
    BY DEF FailUnknown, StatusOk, Blocks
  <2> QED BY <2>1, BlockedIdle
<1>3. pc' = "reconciling" => Stuck(cell)
  <2>1. CASE FailUnknown
    BY <2>1 DEF FailUnknown, IInv, Place, Recording, Stuck, Here, L
  <2> QED BY <2>1 DEF Call, Register, Close, CommitBatch, Goto, Driving
<1>4. pc' \in {"drive", "settle", "counted"} => Calm(cell)
  BY DEF Call, FailUnknown, Register, Close, CommitBatch, Goto, Driving, StatusOk
<1>5. pc' # "stopping"
  BY DEF Call, FailUnknown, Register, Close, CommitBatch, Goto, Driving
<1>6. (Calm(cell)' <=> Calm(cell)) /\ (Stuck(cell)' <=> Stuck(cell))
  BY <1>1 DEF Calm, Stuck, L
<1> QED BY <1>1, <1>2, <1>3, <1>4, <1>5, <1>6, QuietStatus

\* Entering, resuming and leaving a cell.
LEMMA EnterStatus ==
  ASSUME IInv, StatusOk, EnterCell \/ Resume \/ FinishCell
  PROVE  StatusOk'
<1>1. UNCHANGED <<status, ledger, evidence, scope, cell, runtime>> /\ pc # "down"
  BY DEF EnterCell, Resume, FinishCell, files, records
<1>2. cell \in Cells
  BY <1>1 DEF IInv, TypeOK
<1>3. /\ pc' = "drive" => pc = "sync" /\ Calm(cell)
      /\ pc' = "counted" => pc = "drive"
      /\ pc' # "settle"
      /\ pc' \in {"stopping", "reconciling"} => Stuck(cell)
      /\ pc' = "making" => pc = "cell" /\ scope[cell] # "open"
      /\ pc' \in {"down", "sync", "drive", "counted", "stopping", "reconciling", "making"}
  BY DEF EnterCell, Resume, FinishCell, Goto, InCell, Resumable, Attempting, Calm, Stuck, Here, L,
     IInv, Place, Recording
<1>4. (Calm(cell)' <=> Calm(cell)) /\ (Stuck(cell)' <=> Stuck(cell)) /\ (Done(cell)' <=> Done(cell))
  BY <1>1 DEF Calm, Stuck, Done, L
<1>5. ASSUME Blocked
      PROVE  pc' # "making" /\ (pc' \in {"drive", "counted"} => Done(cell))
  <2>1. PICK c \in Cells : Stuck(c)
    BY <1>5 DEF StatusOk, Blocks
  <2>2. ~Calm(c) /\ (cell = c \/ Done(cell))
    BY <1>1, <2>1, StuckCell
  <2>3. scope[cell] = "open"
    BY <1>2, <2>1, <2>2, PairsFinite DEF Stuck, Done, IInv, CellsOk, CellOk, L
  <2> QED BY <1>3, <1>5, <2>2, <2>3 DEF StatusOk, Blocks
<1> QED BY <1>1, <1>3, <1>4, <1>5, QuietStatus DEF StatusOk

\* The other steps that leave ledgers and status alone.
LEMMA AsideStatus ==
  ASSUME IInv, StatusOk,
         Reopen \/ NextCell \/ StageExecution \/ Publish \/ Crash \/ UNCHANGED vars
  PROVE  StatusOk'
<1>1. UNCHANGED <<status, ledger, evidence, scope>>
  BY DEF Reopen, NextCell, StageExecution, Publish, Crash, files, records, vars
<1>2. CASE UNCHANGED vars
  BY <1>1, <1>2, QuietStatus DEF vars, StatusOk, Calm, Stuck, Blocks, Done, L
<1>3. CASE Reopen
  <2>1. Blocked => Reconciled = status
    BY DEF StatusOk, Blocks, Reconciled
  <2>2. pc' \in {"down", "cell", "reconcile"} /\ (Blocked => pc' # "reconcile")
    BY <1>3, <2>1 DEF Reopen, Goto
  <2> QED BY <1>1, <2>2, QuietStatus
<1>4. CASE NextCell \/ StageExecution \/ Publish \/ Crash
  <2>1. /\ pc' \in {"down", "cell", "checkpoint", "publish", "publishing", "closing"}
        /\ pc' # "down" => pc \in {"next", "publish", "publishing"}
    BY <1>4 DEF NextCell, StageExecution, Publish, Crash, Goto
  <2> QED BY <1>1, <2>1, QuietStatus DEF StatusOk, Blocks
<1> QED BY <1>2, <1>3, <1>4

\* The making of a cell.
LEMMA MakeStatus ==
  ASSUME IInv, IInv', StatusOk, MakeCell
  PROVE  StatusOk'
<1>1. /\ UNCHANGED <<status, ledger, evidence>> /\ pc' \in {"sync", "making"} /\ ~Blocked
      /\ pc = "making" /\ scope' = [scope EXCEPT ![cell] = NextStage(@)]
  BY BlockedIdle DEF MakeCell, Goto, files, records
<1>2. Grows
  <2>1. \A c \in Cells : scope[c] # "absent" => scope'[c] # "absent"
    <3>1. cell \in Cells /\ scope[cell] \in {"absent", "made", "identity", "ledger", "locked"}
      BY <1>1 DEF IInv, TypeOK, Place
    <3>2. NextStage(scope[cell]) # "absent"
      BY <3>1, StagesAdvance
    <3> QED BY <1>1, <3>1, <3>2 DEF IInv, TypeOK
  <2>2. \A x \in Pairs : Charged[x] <= Charged'[x]
    <3>1. Charged' = Charged
      BY <1>1 DEF Charged
    <3> QED BY <3>1, CountsTyped
  <2>3. \A c \in Cells : Complete(c) => Complete(c)'
    BY <1>1, <2>1 DEF Complete
  <2> QED BY <1>1, <2>2, <2>3 DEF Grows
<1> QED BY <1>1, <1>2, CountsLead DEF StatusOk, Blocked

\* The statuses written: exact, or a part of what the ledgers say.
LEMMA WriteStatusOk ==
  ASSUME IInv, StatusOk,
         Reconcile \/ WriteRunning \/ Checkpoint \/ CloseStudy \/ Stop \/ NeedReconciliation
  PROVE  StatusOk'
<1>1. /\ UNCHANGED <<ledger, evidence, scope>>
      /\ pc' \in {"cell", "next", "down"}
  BY DEF Reconcile, WriteRunning, Checkpoint, CloseStudy, Stop, NeedReconciliation, WriteStatus,
     Goto, records
<1>2. Logical \in Int /\ Physical \in Int /\ Completed \in Int
  BY CountsTyped
<1>3. ASSUME NEW l \in Lifecycles, status' = Status(l),
             l \in {"stopped", "reconciliation_required"} =>
               (\E c \in Cells : Stuck(c)) /\ pc' = "down"
      PROVE  StatusOk'
  <2>1. /\ status'.lifecycle = l /\ status'.logical = Logical /\ status'.physical = Physical
        /\ status'.cells = Completed
        /\ status' \in [lifecycle : Lifecycles, logical : Int, physical : Int, cells : Int]
    BY <1>2, <1>3 DEF Status
  <2>2. status' = Status(status'.lifecycle) /\ Status(status.lifecycle)' = Status(status'.lifecycle)
    BY <1>1, <1>3, <2>1, CountsSame DEF Status
  <2>3. Blocked' => Blocks'
    <3>1. ASSUME Blocked' PROVE Blocks'
      <4>1. (\E c \in Cells : Stuck(c)) /\ pc' = "down"
        BY <1>3, <2>1, <3>1 DEF Blocked
      <4>2. (\E c \in Cells : Stuck(c))'
        BY <1>1, <4>1, CountsSame
      <4> QED BY <2>2, <4>1, <4>2 DEF Blocks
    <3> QED BY <3>1
  <2>4. (status.logical <= Logical /\ status.physical <= Physical /\ status.cells <= Completed)'
    BY <1>1, <1>2, <2>1, CountsSame
  <2> QED BY <1>1, <2>1, <2>3, <2>4 DEF StatusOk
<1>4. CASE Checkpoint \/ CloseStudy
  BY <1>3, <1>4 DEF Checkpoint, CloseStudy, WriteStatus, Lifecycles
<1>5. CASE Stop \/ NeedReconciliation
  <2>1. cell \in Cells /\ Stuck(cell) /\ pc' = "down"
    BY <1>5 DEF Stop, NeedReconciliation, WriteStatus, Goto, StatusOk, IInv, TypeOK
  <2> QED BY <1>3, <1>5, <2>1 DEF Stop, NeedReconciliation, WriteStatus, Lifecycles
<1>6. CASE Reconcile
  <2>1. status' = Reconciled /\ ~Blocked
    BY <1>6, BlockedIdle DEF Reconcile, WriteStatus
  <2>2. CASE status' = status
    BY <1>1, <2>1, <2>2, QuietStatus
  <2>3. CASE status' # status
    <3>1. status' \in {Status("model_batch_complete"), Status("running")}
      BY <2>1, <2>3 DEF Reconciled
    <3> QED BY <1>3, <3>1 DEF Lifecycles
  <2> QED BY <2>2, <2>3
<1>7. CASE WriteRunning
  <2> DEFINE S == {x \in Pairs : x[1] <= cell /\ ledger[x] = "settled"}
             T == {x \in Pairs : x[1] <= cell}
  <2>1. /\ status' = [lifecycle |-> "running", cells |-> cell, logical |-> Cardinality(S),
                      physical |-> Sum(evidence, T)]
        /\ cell \in Cells /\ Done(cell) /\ \A d \in 1 .. cell - 1 : Done(d)
    BY <1>7 DEF WriteRunning, WriteStatus, IInv, TypeOK, Place
  <2>2. Cardinality(S) \in Int /\ Cardinality(S) <= Logical
    <3>1. S \subseteq {x \in Pairs : ledger[x] \in Counted}
      BY DEF Counted, Answered
    <3>2. IsFiniteSet({x \in Pairs : ledger[x] \in Counted})
      BY PairsFinite, FS_Subset
    <3>3. /\ Cardinality(S) \in Int
          /\ Cardinality(S) <= Cardinality({x \in Pairs : ledger[x] \in Counted})
      BY <3>1, <3>2, FS_Subset, FS_CardinalityType
    <3> QED BY <3>3 DEF Logical, Counted
  <2>3. Sum(evidence, T) \in Int /\ Sum(evidence, T) <= Physical
    <3>1. /\ IsFiniteSet(Pairs) /\ T \in SUBSET Pairs
          /\ \A x \in Pairs : evidence[x] \in Nat /\ evidence[x] \in Int
      BY PairsFinite, CountsTyped
    <3> HIDE DEF T
    <3>2. Sum(evidence, T) \in Int /\ Sum(evidence, Pairs \ T) \in Int
      BY <3>1, SumUnion
    <3>6. Sum(evidence, Pairs) = Sum(evidence, T) + Sum(evidence, Pairs \ T)
      BY <3>1, SumUnion
    <3>3. Sum(evidence, Pairs \ T) \in Nat
      <4>1. IsFiniteSet(Pairs \ T) /\ \A x \in Pairs \ T : evidence[x] \in Nat
        BY <3>1, FS_Subset
      <4> QED BY <4>1, SumNat
    <3>4. Sum(evidence, Pairs) <= Sum(Charged, Pairs)
      <4>1. \A x \in Pairs : evidence[x] \in Int /\ Charged[x] \in Int /\ evidence[x] <= Charged[x]
        BY CountsTyped
      <4> QED BY <3>1, <4>1, SumLeq
    <3>5. Sum(Charged, Pairs) = Physical
      BY DEF Physical
    <3> QED BY <1>2, <3>2, <3>3, <3>4, <3>5, <3>6
  <2>4. cell \in Int /\ cell <= Completed
    <3> DEFINE C == {c \in Cells : Complete(c)}
    <3>1. cell \in Nat \ {0} /\ CellCount \in Nat /\ cell <= CellCount
      BY <2>1, SizeAssumption DEF Cells, CellCount
    <3>2. \A d \in 1 .. cell : d \in Cells /\ Complete(d)
      BY <2>1, <3>1 DEF Cells, Done, Complete, L
    <3>3. IsFiniteSet(C) /\ 1 .. cell \subseteq C
      BY <3>2, PairsFinite, FS_Subset
    <3>4. Cardinality(1 .. cell) = cell
      BY <2>1, PairsFinite
    <3>5. Cardinality(1 .. cell) <= Cardinality(C)
      BY <3>3, FS_Subset
    <3> QED BY <3>1, <3>4, <3>5 DEF Completed
  <2> HIDE DEF S, T
  <2>5. /\ status'.lifecycle = "running" /\ status'.logical = Cardinality(S)
        /\ status'.physical = Sum(evidence, T) /\ status'.cells = cell
        /\ status' \in [lifecycle : Lifecycles, logical : Int, physical : Int, cells : Int]
    BY <2>1, <2>2, <2>3, <2>4 DEF Lifecycles
  <2>6. (status.logical <= Logical /\ status.physical <= Physical /\ status.cells <= Completed)'
    BY <1>1, <2>2, <2>3, <2>4, <2>5, CountsSame
  <2>7. ~Blocked'
    BY <2>5 DEF Blocked
  <2> QED BY <1>1, <2>5, <2>6, <2>7 DEF StatusOk
<1> QED BY <1>4, <1>5, <1>6, <1>7

\* The first status.
LEMMA CreateStatus ==
  ASSUME IInv, StatusOk, Create
  PROVE  StatusOk'
<1>1. /\ UNCHANGED <<ledger, evidence, scope>> /\ pc' = "cell"
      /\ status' = [status EXCEPT !.lifecycle = "initialized"]
  BY DEF Create, Goto, records
<1>2. /\ status'.lifecycle = "initialized" /\ status'.logical = status.logical
      /\ status'.physical = status.physical /\ status'.cells = status.cells
      /\ status' \in [lifecycle : Lifecycles, logical : Int, physical : Int, cells : Int]
  BY <1>1 DEF StatusOk, Lifecycles
<1>3. (status.logical <= Logical /\ status.physical <= Physical /\ status.cells <= Completed)'
  BY <1>1, <1>2, CountsSame DEF StatusOk
<1> QED BY <1>1, <1>2, <1>3 DEF StatusOk, Blocked

LEMMA InitStatus == Init => StatusOk
<1> SUFFICES ASSUME Init PROVE StatusOk
  OBVIOUS
<1>1. IInv
  BY InitInvariant
<1>2. Logical \in Nat /\ Completed \in Nat
  BY <1>1, CountsTyped
<1>3. Physical \in Nat
  BY <1>1, CountsTyped, PairsFinite, SumNat DEF Physical
<1> QED BY <1>2, <1>3 DEF Init, StatusOk, Lifecycles, Blocked

\* Every step keeps the status as true as it is.
LEMMA NextStatus == IInv /\ IInv' /\ StatusOk /\ [Next]_vars => StatusOk'
BY RecordStatus, DriveStatus, EnterStatus, AsideStatus, MakeStatus, WriteStatusOk, CreateStatus
DEF Next, Process, Recorded

\* The status never says more than the ledgers, and one that blocks the study says
\* exactly what they do: the code never writes what its opener refuses.
THEOREM StatusIsTrue == Spec => []StatusNeverLeads
<1>1. IInv /\ StatusOk => StatusNeverLeads
  BY StuckCell DEF StatusOk, Blocks, StatusNeverLeads
<1> QED BY <1>1, InitStatus, NextStatus, InvariantHolds, PTL DEF Spec

-----------------------------------------------------------------------------
\* The collection of the parameter study.

CollectionModes == {"qualify", "qualifying", "fill", "settle", "publish", "close"}
PathModes       == {"down", "paths", "report"}
JobStatuses     == {"submitted", "succeeded", "nonretryable_failure", "unknown", "retryable_failure"}
Intents         == [intent : Nat, pair : Attempted]
Books           == [events : Nat, pending : SUBSET Intents, attempts : [Attempted -> Nat],
                    settled : [Attempted -> Nat], source : [BankPairs -> Nat], qualified : BOOLEAN,
                    stopped : BOOLEAN, reads : BOOLEAN, bounded : BOOLEAN]

LedgerTexts     == {"whole", "bare", "corrupt"}

CollectionTyped ==
  /\ attemptLedger \in Books /\ ledgerText \in LedgerTexts /\ authorized \in BOOLEAN
  /\ collectionPc \in CollectionModes \cup PathModes
  /\ clients \in Nat /\ queue \in Seq(BankPairs) /\ retry \in Seq(BankPairs)
  /\ jobs \in [DOMAIN jobs -> [pair : Attempted, status : JobStatuses]]
  /\ DOMAIN jobs \in SUBSET Nat /\ IsFiniteSet(DOMAIN jobs)
  /\ done \in SUBSET DOMAIN jobs /\ (collectionPc # "settle" => done = {}) /\ failure \in BOOLEAN
  /\ attempts \in [Attempted -> Nat] /\ retries \in Nat
  /\ callsMade \in [Attempted -> Nat]

\* A pair has an intent that is not settled; a pair is in flight in this process.
Unsettled(p) == \E x \in attemptLedger.pending : x.pair = p
Flying(p)    == \E i \in DOMAIN jobs : jobs[i].pair = p
InFlight     == {[intent |-> i, pair |-> jobs[i].pair] : i \in DOMAIN jobs}

\* What the ledger says of each pair: one intent at a time, and every settled one called.
LedgerCounts ==
  /\ attemptLedger.reads /\ attemptLedger.bounded
  /\ \A x \in attemptLedger.pending : x.intent <= attemptLedger.events
  /\ \A x, y \in attemptLedger.pending : x.pair = y.pair \/ x.intent = y.intent => x = y
  /\ \A x \in attemptLedger.pending : x.pair \notin Accepted /\ (x.pair = Qualification => ~attemptLedger.qualified)
  /\ \A p \in Attempted :
       /\ attemptLedger.attempts[p] = attemptLedger.settled[p] + (IF Unsettled(p) THEN 1 ELSE 0)
       /\ ~Unsettled(p) => callsMade[p] = attemptLedger.attempts[p]
  /\ attemptLedger.attempts[Qualification] > 0 =>
       attemptLedger.qualified \/ attemptLedger.stopped \/ Unsettled(Qualification)

Budgets ==
  /\ Total(attemptLedger.attempts) <= PhysicalCap
  /\ attemptLedger.attempts[Qualification] <= 1
  /\ Retried(attemptLedger.attempts) <= GlobalRetries
  /\ \A p \in BankPairs : attemptLedger.attempts[p] <= PairAttempts

\* What a process that collects knows is what the ledger says.
MemoryAgrees ==
  collectionPc \in CollectionModes =>
    /\ attemptLedger.pending = InFlight
    /\ attempts = attemptLedger.attempts /\ retries = Retried(attemptLedger.attempts)
    /\ clients \in 1 .. (IF authorized THEN Transports ELSE 1)
    /\ Cardinality(DOMAIN jobs) <= clients
    /\ (attemptLedger.stopped => failure)
    /\ \A i, j \in DOMAIN jobs : jobs[i].pair = jobs[j].pair => i = j
    /\ \A i \in DOMAIN jobs :
         callsMade[jobs[i].pair] + (IF jobs[i].status = "submitted" THEN 1 ELSE 0)
           = attemptLedger.attempts[jobs[i].pair]
    /\ \A i \in done : jobs[i].status # "submitted"

\* Where each stage of a collection stands.
StageAgrees ==
  /\ \A i \in DOMAIN jobs : jobs[i].status \in Outcomes(jobs[i].pair) \cup {"submitted"}
  /\ collectionPc \notin {"qualifying", "fill", "settle"} => DOMAIN jobs = {}
  /\ collectionPc \in {"qualify", "qualifying"} => ~attemptLedger.qualified /\ ~failure /\ retry = <<>>
  /\ collectionPc \in {"qualify", "publish", "close"} => ~attemptLedger.stopped
  /\ collectionPc = "qualifying" => /\ \A i \in DOMAIN jobs : jobs[i].pair = Qualification
                                    /\ ~attemptLedger.stopped
  /\ collectionPc \in {"fill", "settle", "publish", "close"} =>
       attemptLedger.qualified /\ \A i \in DOMAIN jobs : jobs[i].pair \in BankPairs
  /\ collectionPc \in {"publish", "close"} => Accepted = BankPairs
  /\ collectionPc = "close" => bank = attemptLedger.source

\* The pairs that wait to be sent are open, and each waits once.
QueueAgrees ==
  collectionPc \in CollectionModes =>
    /\ \A i, j \in DOMAIN queue : queue[i] = queue[j] => i = j
    /\ \A i, j \in DOMAIN retry : retry[i] = retry[j] => i = j
    /\ \A i \in DOMAIN queue : \A j \in DOMAIN retry : queue[i] # retry[j]
    /\ \A i \in DOMAIN queue : queue[i] \notin Accepted /\ ~Flying(queue[i])
    /\ \A i \in DOMAIN retry : retry[i] \notin Accepted /\ ~Flying(retry[i])

\* The closure of this bank and this ledger, made with or without an authorization.
ClosedBy(a) ==
  [status |-> "complete", bank |-> bank, events |-> attemptLedger.events,
   physical |-> Total(attemptLedger.attempts), retries |-> Retried(attemptLedger.attempts),
   qualifications |-> attemptLedger.attempts[Qualification], authorization |-> a]

\* What was closed is all settled and accepted, and closure and study were made from it.
ClosedFor ==
  /\ closure # None =>
       /\ attemptLedger.pending = {} /\ ~attemptLedger.stopped /\ attemptLedger.qualified
       /\ Accepted = BankPairs /\ bank = attemptLedger.source
       /\ closure = ClosedBy(closure.authorization)
  /\ study # None => closure # None /\ study = ClosedBy(study.authorization)

CollectionInv ==
  CollectionTyped /\ LedgerCounts /\ Budgets /\ MemoryAgrees /\ StageAgrees /\ QueueAgrees /\ ClosedFor

-----------------------------------------------------------------------------
\* The pairs and the qualification.
LEMMA AttemptedFinite ==
  /\ IsFiniteSet(BankPairs) /\ IsFiniteSet(Attempted) /\ BankPairs \subseteq Attempted
  /\ Qualification \in Attempted /\ Qualification \notin BankPairs
  /\ BankPairs \subseteq Nat
<1>1. Missing \in Nat
  BY CollectionAssumption
<1>2. IsFiniteSet(BankPairs)
  BY <1>1, FS_Interval DEF BankPairs
<1>3. IsFiniteSet(BankPairs \cup {Qualification})
  BY <1>2, FS_AddElement
<1> QED
  BY <1>1, <1>2, <1>3 DEF Attempted, BankPairs, Qualification

\* The fields of a ledger.
LEMMA BookFields ==
  ASSUME NEW b \in Books
  PROVE  /\ b.events \in Nat /\ b.pending \subseteq Intents
         /\ b.attempts \in [Attempted -> Nat] /\ b.settled \in [Attempted -> Nat]
         /\ b.source \in [BankPairs -> Nat]
         /\ b.qualified \in BOOLEAN /\ b.stopped \in BOOLEAN /\ b.reads \in BOOLEAN /\ b.bounded \in BOOLEAN
BY DEF Books

\* A ledger with another intent is a ledger.
LEMMA BookWithIntent ==
  ASSUME NEW b \in Books, NEW pending \in SUBSET Intents, NEW n \in [Attempted -> Nat],
         NEW u \in BOOLEAN, NEW v \in BOOLEAN
  PROVE  [b EXCEPT !.events = @ + 1, !.pending = pending, !.attempts = n,
                   !.reads = u, !.bounded = v] \in Books
<1>1. b.events + 1 \in Nat
  BY BookFields
<1> QED
  BY <1>1 DEF Books

\* A ledger with another settlement is a ledger.
LEMMA BookWithSettlement ==
  ASSUME NEW b \in Books, NEW pending \in SUBSET Intents, NEW n \in [Attempted -> Nat],
         NEW k \in [BankPairs -> Nat], NEW u \in BOOLEAN, NEW v \in BOOLEAN, NEW w \in BOOLEAN
  PROVE  [b EXCEPT !.events = @ + 1, !.settled = n, !.pending = pending,
                   !.reads = u, !.source = k, !.qualified = v, !.stopped = w] \in Books
<1>1. b.events + 1 \in Nat
  BY BookFields
<1> QED
  BY <1>1 DEF Books

\* One attempt more is one request more, and one retry unless it is the first.
LEMMA OneAttemptMore ==
  ASSUME NEW n \in [Attempted -> Nat], NEW p \in Attempted, NEW k \in [Attempted -> Nat],
         k = [n EXCEPT ![p] = @ + 1]
  PROVE  /\ Total(n) \in Nat /\ Total(k) = Total(n) + 1
         /\ Retried(n) \in Nat
         /\ Retried(k) = Retried(n) + (IF p \in BankPairs /\ n[p] > 0 THEN 1 ELSE 0)
<1> DEFINE rn == [q \in BankPairs |-> IF n[q] > 1 THEN n[q] - 1 ELSE 0]
           rk == [q \in BankPairs |-> IF k[q] > 1 THEN k[q] - 1 ELSE 0]
<1>1. \A q \in Attempted : /\ n[q] \in Nat /\ k[q] \in Nat
                           /\ k[q] = IF q = p THEN n[q] + 1 ELSE n[q]
  OBVIOUS
<1>2. /\ \A q \in BankPairs : rn[q] \in Nat /\ rk[q] \in Nat /\ (q # p => rk[q] = rn[q])
      /\ p \in BankPairs => rk[p] = rn[p] + (IF n[p] > 0 THEN 1 ELSE 0)
  BY <1>1, AttemptedFinite
<1>3. Total(n) \in Nat
  BY <1>1, AttemptedFinite, SumNat DEF Total
<1>4. Total(k) = Total(n) + 1
  <2> DEFINE d == k[p] - n[p]
  <2>1. Sum(k, Attempted) = Sum(n, Attempted) + d
    <3>1. \A q \in Attempted : n[q] \in Int /\ k[q] \in Int /\ (q # p => k[q] = n[q])
      BY <1>1
    <3>2. IsFiniteSet(Attempted) /\ p \in Attempted
      BY AttemptedFinite
    <3> QED
      BY ONLY <3>1, <3>2, SumChange
  <2>2. d = 1
    BY <1>1
  <2> QED
    BY <2>1, <2>2 DEF Total
<1>5. Retried(n) = Sum(rn, BankPairs) /\ Retried(k) = Sum(rk, BankPairs)
  BY DEF Retried
<1> HIDE DEF rn, rk
<1>6. Sum(rn, BankPairs) \in Nat
  BY <1>2, AttemptedFinite, SumNat
<1>7. CASE p \in BankPairs
  <2>1. /\ IsFiniteSet(BankPairs)
        /\ \A q \in BankPairs : rn[q] \in Int /\ rk[q] \in Int /\ (q # p => rk[q] = rn[q])
    BY <1>2, AttemptedFinite
  <2>2. Sum(rk, BankPairs) = Sum(rn, BankPairs) + (rk[p] - rn[p])
    BY <1>7, <2>1, SumChange
  <2>3. rk[p] - rn[p] = IF n[p] > 0 THEN 1 ELSE 0
    BY <1>2, <1>7
  <2> QED
    BY <1>3, <1>4, <1>5, <1>6, <1>7, <2>2, <2>3
<1>8. CASE p \notin BankPairs
  <2>1. \A q \in BankPairs : rn[q] \in Int /\ rk[q] = rn[q]
    BY <1>2, <1>8
  <2>2. Sum(rk, BankPairs) = Sum(rn, BankPairs)
    BY <2>1, AttemptedFinite, SumSame
  <2> QED
    BY <1>3, <1>4, <1>5, <1>6, <1>8, <2>2
<1> QED
  BY <1>7, <1>8

\* What an intent appended does to the ledger.
LEMMA IntentMeans ==
  ASSUME CollectionTyped, NEW p \in Attempted, AppendIntent(p)
  PROVE  /\ attemptLedger' \in Books /\ attemptLedger'.events = attemptLedger.events + 1
         /\ attemptLedger'.pending = attemptLedger.pending \cup {[intent |-> attemptLedger.events + 1, pair |-> p]}
         /\ attemptLedger'.attempts = [attemptLedger.attempts EXCEPT ![p] = @ + 1]
         /\ attemptLedger'.settled = attemptLedger.settled /\ attemptLedger'.source = attemptLedger.source
         /\ attemptLedger'.qualified = attemptLedger.qualified /\ attemptLedger'.stopped = attemptLedger.stopped
         /\ attemptLedger'.reads = (attemptLedger.reads /\ ~attemptLedger.stopped /\ p \notin Accepted
                               /\ \A x \in attemptLedger.pending : x.pair # p)
         /\ attemptLedger'.bounded = (attemptLedger.bounded
              /\ Cardinality(attemptLedger'.pending) <= IF authorized THEN Transports ELSE 1)
<1>1. attemptLedger \in Books /\ attemptLedger.events \in Nat /\ attemptLedger.attempts \in [Attempted -> Nat]
      /\ attemptLedger.pending \subseteq Intents
  BY BookFields DEF CollectionTyped
<1> DEFINE pending == attemptLedger.pending \cup {[intent |-> attemptLedger.events + 1, pair |-> p]}
           counted == [attemptLedger.attempts EXCEPT ![p] = @ + 1]
           reads   == attemptLedger.reads /\ ~attemptLedger.stopped /\ p \notin Accepted
                        /\ \A x \in attemptLedger.pending : x.pair # p
           bounded == attemptLedger.bounded /\ Cardinality(pending) <= IF authorized THEN Transports ELSE 1
<1>2. attemptLedger' = [attemptLedger EXCEPT !.events = @ + 1, !.pending = pending, !.attempts = counted,
                                             !.reads = reads, !.bounded = bounded]
  BY <1>1 DEF AppendIntent, Books
<1>3. pending \subseteq Intents /\ counted \in [Attempted -> Nat] /\ reads \in BOOLEAN /\ bounded \in BOOLEAN
  BY <1>1 DEF Intents
<1> HIDE DEF pending, counted, reads, bounded
<1>4. /\ attemptLedger' \in Books /\ attemptLedger'.events = attemptLedger.events + 1 /\ attemptLedger'.pending = pending
      /\ attemptLedger'.attempts = counted /\ attemptLedger'.settled = attemptLedger.settled /\ attemptLedger'.source = attemptLedger.source
      /\ attemptLedger'.qualified = attemptLedger.qualified /\ attemptLedger'.stopped = attemptLedger.stopped
      /\ attemptLedger'.reads = reads /\ attemptLedger'.bounded = bounded
  <2>1. /\ attemptLedger'.events = attemptLedger.events + 1 /\ attemptLedger'.pending = pending
        /\ attemptLedger'.attempts = counted /\ attemptLedger'.settled = attemptLedger.settled /\ attemptLedger'.source = attemptLedger.source
        /\ attemptLedger'.qualified = attemptLedger.qualified /\ attemptLedger'.stopped = attemptLedger.stopped
        /\ attemptLedger'.reads = reads /\ attemptLedger'.bounded = bounded
    BY <1>1, <1>2 DEF Books
  <2>2. attemptLedger' \in Books
    <3>1. pending \in SUBSET Intents
      BY <1>3
    <3>2. [attemptLedger EXCEPT !.events = @ + 1, !.pending = pending, !.attempts = counted,
                                !.reads = reads, !.bounded = bounded] \in Books
      BY <1>1, <1>3, <3>1, BookWithIntent, Zenon
    <3> QED
      BY <1>2, <3>2
  <2> QED
    BY <2>1, <2>2
<1> QED
  BY <1>4 DEF pending, counted, reads, bounded

\* What Reserve does besides.
LEMMA ReserveMeans ==
  ASSUME NEW p, ReserveIntent(p)
  PROVE  /\ DOMAIN jobs' = DOMAIN jobs \cup {attemptLedger.events + 1}
         /\ \A i \in DOMAIN jobs' :
              jobs'[i] = IF i \in DOMAIN jobs THEN jobs[i] ELSE [pair |-> p, status |-> "submitted"]
         /\ attempts' = [attempts EXCEPT ![p] = @ + 1]
         /\ retries' = retries + (IF p \in BankPairs /\ attempts[p] > 0 THEN 1 ELSE 0)
         /\ ledgerText' \in LedgerTexts /\ AppendIntent(p)
         /\ UNCHANGED <<prepared, authorized, bank, closure, study, paths, report>>
BY DEF ReserveIntent, Glued, LedgerTexts, OthersUnchanged

\* The settlement of a request that is in flight is appended.
Settles(i) == AppendSettled(i, jobs[i].pair, jobs[i].status)

\* What that does to the ledger.
LEMMA SettlementMeans ==
  ASSUME CollectionTyped, NEW i \in DOMAIN jobs, Settles(i)
  PROVE  /\ jobs[i] \in [pair : Attempted, status : JobStatuses]
         /\ attemptLedger' \in Books /\ attemptLedger'.events = attemptLedger.events + 1
         /\ attemptLedger'.pending = {x \in attemptLedger.pending : x.intent # i}
         /\ attemptLedger'.attempts = attemptLedger.attempts
         /\ attemptLedger'.settled = [attemptLedger.settled EXCEPT ![jobs[i].pair] = @ + 1]
         /\ attemptLedger'.source = IF jobs[i].status = "succeeded" /\ jobs[i].pair \in BankPairs
                                    THEN [attemptLedger.source EXCEPT ![jobs[i].pair] = attemptLedger.events + 1]
                                    ELSE attemptLedger.source
         /\ attemptLedger'.qualified = (attemptLedger.qualified \/ (jobs[i].status = "succeeded" /\ jobs[i].pair = Qualification))
         /\ attemptLedger'.stopped = (attemptLedger.stopped \/ jobs[i].status \in {"nonretryable_failure", "unknown"})
         /\ attemptLedger'.reads = (attemptLedger.reads /\ (\E x \in attemptLedger.pending : x.intent = i)
                               /\ (jobs[i].status = "succeeded" => jobs[i].pair \notin Accepted))
         /\ attemptLedger'.bounded = attemptLedger.bounded
<1>1. /\ attemptLedger \in Books /\ attemptLedger.events \in Nat /\ attemptLedger.settled \in [Attempted -> Nat]
      /\ attemptLedger.source \in [BankPairs -> Nat] /\ attemptLedger.pending \subseteq Intents
      /\ jobs[i] \in [pair : Attempted, status : JobStatuses]
      /\ attemptLedger.reads \in BOOLEAN /\ attemptLedger.qualified \in BOOLEAN /\ attemptLedger.stopped \in BOOLEAN
  BY BookFields DEF CollectionTyped
<1> DEFINE p == jobs[i].pair
           o == jobs[i].status
           pending == {x \in attemptLedger.pending : x.intent # i}
           counted == [attemptLedger.settled EXCEPT ![p] = @ + 1]
           reads   == attemptLedger.reads /\ (\E x \in attemptLedger.pending : x.intent = i)
                        /\ (o = "succeeded" => p \notin Accepted)
           source  == IF o = "succeeded" /\ p \in BankPairs
                      THEN [attemptLedger.source EXCEPT ![p] = attemptLedger.events + 1] ELSE attemptLedger.source
           qualified == attemptLedger.qualified \/ (o = "succeeded" /\ p = Qualification)
           stopped == attemptLedger.stopped \/ o \in {"nonretryable_failure", "unknown"}
<1>2. attemptLedger' = [attemptLedger EXCEPT !.events = @ + 1, !.settled = counted, !.pending = pending,
                   !.reads = reads, !.source = source, !.qualified = qualified, !.stopped = stopped]
  BY <1>1 DEF Settles, AppendSettled, Books
<1>3. /\ pending \subseteq Intents /\ counted \in [Attempted -> Nat] /\ reads \in BOOLEAN
      /\ source \in [BankPairs -> Nat] /\ qualified \in BOOLEAN /\ stopped \in BOOLEAN
  BY <1>1
<1> HIDE DEF pending, counted, reads, source, qualified, stopped
<1>4. /\ attemptLedger' \in Books /\ attemptLedger'.events = attemptLedger.events + 1 /\ attemptLedger'.pending = pending
      /\ attemptLedger'.attempts = attemptLedger.attempts /\ attemptLedger'.settled = counted /\ attemptLedger'.source = source
      /\ attemptLedger'.qualified = qualified /\ attemptLedger'.stopped = stopped
      /\ attemptLedger'.reads = reads /\ attemptLedger'.bounded = attemptLedger.bounded
  <2>1. /\ attemptLedger'.events = attemptLedger.events + 1 /\ attemptLedger'.pending = pending
        /\ attemptLedger'.attempts = attemptLedger.attempts /\ attemptLedger'.settled = counted /\ attemptLedger'.source = source
        /\ attemptLedger'.qualified = qualified /\ attemptLedger'.stopped = stopped
        /\ attemptLedger'.reads = reads /\ attemptLedger'.bounded = attemptLedger.bounded
    BY <1>1, <1>2 DEF Books
  <2>2. attemptLedger' \in Books
    <3>1. pending \in SUBSET Intents
      BY <1>3
    <3>2. [attemptLedger EXCEPT !.events = @ + 1, !.settled = counted, !.pending = pending,
             !.reads = reads, !.source = source, !.qualified = qualified, !.stopped = stopped] \in Books
      BY <1>1, <1>3, <3>1, BookWithSettlement, ZenonT(40)
    <3> QED
      BY <1>2, <3>2
  <2> QED
    BY <2>1, <2>2
<1> QED
  BY <1>1, <1>4 DEF pending, counted, reads, source, qualified, stopped, p, o

\* What settling does besides.
LEMMA SettledMeans ==
  ASSUME NEW i, Settled(i)
  PROVE  /\ DOMAIN jobs' = DOMAIN jobs \ {i} /\ \A j \in DOMAIN jobs' : jobs'[j] = jobs[j]
         /\ ledgerText' \in LedgerTexts /\ Settles(i)
         /\ UNCHANGED <<prepared, authorized, bank, closure, study, paths, report>>
BY DEF Settled, Settles, Glued, LedgerTexts, OthersUnchanged

\* The types of what a process counts and keeps.
LEMMA MemoryTypes ==
  ASSUME CollectionTyped
  PROVE  /\ Retried(attemptLedger.attempts) \in Nat /\ Total(attemptLedger.attempts) \in Nat
         /\ attemptLedger.attempts \in [Attempted -> Nat] /\ attemptLedger.pending \subseteq Intents
         /\ attemptLedger.settled \in [Attempted -> Nat] /\ attemptLedger.source \in [BankPairs -> Nat]
         /\ attemptLedger.events \in Nat
         /\ \A i \in DOMAIN jobs : /\ jobs[i].pair \in Attempted /\ jobs[i].status \in JobStatuses
                                   /\ jobs[i] = [pair |-> jobs[i].pair, status |-> jobs[i].status]
<1>1. /\ attemptLedger.attempts \in [Attempted -> Nat] /\ attemptLedger.pending \subseteq Intents
      /\ attemptLedger.settled \in [Attempted -> Nat] /\ attemptLedger.source \in [BankPairs -> Nat]
      /\ attemptLedger.events \in Nat
  BY BookFields DEF CollectionTyped
<1>2. Qualification \in Attempted
  BY AttemptedFinite
<1>3. Retried(attemptLedger.attempts) \in Nat /\ Total(attemptLedger.attempts) \in Nat
  <2>1. [attemptLedger.attempts EXCEPT ![Qualification] = @ + 1] \in [Attempted -> Nat]
    BY <1>1, <1>2
  <2> QED
    BY <1>1, <1>2, <2>1, OneAttemptMore
<1>4. \A i \in DOMAIN jobs : jobs[i] \in [pair : Attempted, status : JobStatuses]
  BY DEF CollectionTyped
<1> QED
  BY <1>1, <1>3, <1>4

\* The open pairs, in their order.
LEMMA OpenPairs ==
  /\ InOrder(BankPairs \ Accepted) \in Seq(BankPairs)
  /\ \A i \in DOMAIN InOrder(BankPairs \ Accepted) : InOrder(BankPairs \ Accepted)[i] \in BankPairs \ Accepted
  /\ \A i, j \in DOMAIN InOrder(BankPairs \ Accepted) :
       InOrder(BankPairs \ Accepted)[i] = InOrder(BankPairs \ Accepted)[j] => i = j
<1> DEFINE S == BankPairs \ Accepted
<1>1. S \subseteq Nat /\ IsFiniteSet(S) /\ S \subseteq BankPairs
  BY AttemptedFinite, FS_Subset
<1> HIDE DEF S
<1>2. /\ InOrder(S) \in Seq(S)
      /\ \A k, l \in DOMAIN InOrder(S) : InOrder(S)[k] = InOrder(S)[l] => k = l
  BY <1>1, InOrderIsEach
<1>3. \A k \in 1 .. Len(InOrder(S)) : InOrder(S)[k] \in S
  BY <1>2, ElementOfSeq
<1>4. DOMAIN InOrder(S) = 1 .. Len(InOrder(S)) /\ Len(InOrder(S)) \in Nat
  BY <1>2
<1>5. InOrder(S) \in Seq(BankPairs)
  <2>1. \A k \in 1 .. Len(InOrder(S)) : InOrder(S)[k] \in BankPairs
    BY <1>1, <1>3, Zenon
  <2>2. InOrder(S) = [k \in 1 .. Len(InOrder(S)) |-> InOrder(S)[k]]
    BY <1>2
  <2> QED
    BY <1>4, <2>1, <2>2
<1>6. \A i \in DOMAIN InOrder(S) : InOrder(S)[i] \in S
  BY <1>3, <1>4
<1> QED
  BY <1>2, <1>5, <1>6 DEF S

\* A sequence put in front of another in reverse has the members of both.
LEMMA InFront ==
  ASSUME NEW S, NEW s \in Seq(S), NEW t \in Seq(S)
  PROVE  /\ Reverse(s) \o t \in Seq(S)
         /\ \A i \in DOMAIN (Reverse(s) \o t) :
              \/ Len(s) - i + 1 \in DOMAIN s /\ (Reverse(s) \o t)[i] = s[Len(s) - i + 1]
                   /\ i <= Len(s)
              \/ i - Len(s) \in DOMAIN t /\ (Reverse(s) \o t)[i] = t[i - Len(s)] /\ i > Len(s)
         /\ \A i \in DOMAIN (Reverse(s) \o t) : i \in Nat
<1>1. Len(s) \in Nat /\ DOMAIN s = 1 .. Len(s) /\ Len(t) \in Nat /\ DOMAIN t = 1 .. Len(t)
  OBVIOUS
<1>2. Reverse(s) = [i \in 1 .. Len(s) |-> s[(Len(s) - i) + 1]]
  BY DEF Reverse
<1>3. \A i \in 1 .. Len(s) : (Len(s) - i) + 1 \in 1 .. Len(s)
  BY <1>1
<1>4. \A i \in 1 .. Len(s) : s[(Len(s) - i) + 1] \in S
  BY <1>1, <1>3
<1>5. Reverse(s) \in Seq(S) /\ Len(Reverse(s)) = Len(s)
  BY <1>1, <1>2, <1>4
<1>6. \A i \in 1 .. Len(s) : Reverse(s)[i] = s[Len(s) - i + 1]
  BY <1>2
<1> DEFINE r == Reverse(s)
<1> HIDE DEF r
<1>7. /\ r \o t \in Seq(S) /\ Len(r \o t) = Len(s) + Len(t)
      /\ DOMAIN (r \o t) = 1 .. Len(s) + Len(t)
      /\ \A i \in 1 .. Len(s) : (r \o t)[i] = r[i]
      /\ \A i \in Len(s) + 1 .. Len(s) + Len(t) : (r \o t)[i] = t[i - Len(s)]
  BY <1>1, <1>5 DEF r
<1>8. ASSUME NEW i \in 1 .. Len(s) + Len(t)
      PROVE  \/ Len(s) - i + 1 \in DOMAIN s /\ (r \o t)[i] = s[Len(s) - i + 1] /\ i <= Len(s)
             \/ i - Len(s) \in DOMAIN t /\ (r \o t)[i] = t[i - Len(s)] /\ i > Len(s)
  <2>1. CASE i <= Len(s)
    <3>1. i \in 1 .. Len(s)
      BY <1>1, <2>1
    <3> QED
      BY <1>1, <1>3, <1>6, <1>7, <3>1 DEF r
  <2>2. CASE i > Len(s)
    <3>1. i \in Len(s) + 1 .. Len(s) + Len(t) /\ i - Len(s) \in 1 .. Len(t)
      BY <1>1, <2>2
    <3> QED
      BY <1>1, <1>7, <2>2, <3>1
  <2>3. i <= Len(s) \/ i > Len(s)
    BY <1>1
  <2> QED
    BY <2>1, <2>2, <2>3
<1> QED
  BY <1>1, <1>7, <1>8 DEF r

\* The first of the completions is one of them.
LEMMA LeastDone ==
  ASSUME CollectionTyped, done # {} PROVE Min(done) \in done
<1>1. done \subseteq Nat /\ done # {}
  BY DEF CollectionTyped
<1> QED
  BY <1>1, MinIsMember

-----------------------------------------------------------------------------
\* Nothing is prepared, recorded or running at first.
LEMMA CollectionInitTyped == CollectionInit => CollectionTyped
<1> SUFFICES ASSUME CollectionInit PROVE CollectionTyped
  OBVIOUS
<1>1. Empty \in Books
  BY DEF Empty, Books, Intents
<1>2. /\ queue \in Seq(BankPairs) /\ retry \in Seq(BankPairs) /\ DOMAIN jobs = {} /\ jobs = <<>>
  BY DEF CollectionInit
<1>3. IsFiniteSet(DOMAIN jobs)
  BY <1>2, FS_EmptySet
<1>4. jobs \in [DOMAIN jobs -> [pair : Attempted, status : JobStatuses]]
  BY <1>2
<1> QED
  BY <1>1, <1>2, <1>3, <1>4 DEF CollectionInit, CollectionTyped, CollectionModes, PathModes, LedgerTexts

\* What a killed process may have appended.
LEMMA DueMeans ==
  ASSUME CollectionTyped, Appending, DueAppend
  PROVE  \/ collectionPc = "qualify" /\ ~CapReached(Qualification) /\ AppendIntent(Qualification)
         \/ collectionPc = "fill" /\ CanReserve /\ ~CapReached(Head(queue)) /\ AppendIntent(Head(queue))
         \/ \E i \in DOMAIN jobs : /\ Settles(i)
                                   /\ \/ collectionPc = "qualifying" /\ jobs[i].status # "submitted"
                                      \/ collectionPc = "settle" /\ i \in done
<1>1. CASE collectionPc = "settle"
  <2>1. done # {} /\ Settles(Min(done))
    BY <1>1 DEF Appending, DueAppend, Settles
  <2>2. Min(done) \in done
    BY <2>1, LeastDone
  <2>3. Min(done) \in DOMAIN jobs
    BY <2>2 DEF CollectionTyped
  <2> QED
    BY <1>1, <2>1, <2>2, <2>3
<1>2. CASE collectionPc # "settle"
  BY <1>2 DEF Appending, DueAppend, Settles
<1> QED
  BY <1>1, <1>2

\* A kill leaves a ledger.
LEMMA KillBooks ==
  ASSUME CollectionTyped, Kill PROVE attemptLedger' \in Books
<1>1. attemptLedger' = attemptLedger \/ (Appending /\ DueAppend)
  BY DEF Kill
<1>2. CASE attemptLedger' = attemptLedger
  BY <1>2 DEF CollectionTyped
<1>3. CASE Appending /\ DueAppend
  <2>1. CanReserve => Head(queue) \in Attempted
    BY AttemptedFinite DEF CanReserve, CollectionTyped
  <2>2. \/ \E p \in Attempted : AppendIntent(p)
        \/ \E i \in DOMAIN jobs : Settles(i)
    BY <1>3, <2>1, DueMeans, AttemptedFinite
  <2> QED
    BY <2>2, IntentMeans, SettlementMeans
<1> QED
  BY <1>1, <1>2, <1>3

\* Every step keeps the types; what is retried is a pair.
LEMMA CollectionTypedStep ==
  ASSUME CollectionTyped, StageAgrees, [CollectionNext]_collectionVars PROVE CollectionTyped'
<1> DEFINE counted == UNCHANGED <<attemptLedger, jobs, done, attempts, retries, callsMade>>
           listed  == UNCHANGED <<clients, queue, retry, failure>>
<1>1. ASSUME counted, listed, ledgerText' \in LedgerTexts, authorized' \in BOOLEAN,
             collectionPc' \in CollectionModes \cup PathModes, collectionPc' = collectionPc \/ collectionPc # "settle"
      PROVE  CollectionTyped'
  BY <1>1 DEF CollectionTyped
<1>2. ASSUME NEW p \in Attempted, ReserveIntent(p), UNCHANGED <<clients, retry, done, callsMade>>,
             queue' \in Seq(BankPairs), failure' \in BOOLEAN, collectionPc' \in CollectionModes \cup PathModes,
             collectionPc # "settle"
      PROVE  CollectionTyped'
  <2>1. /\ attemptLedger' \in Books /\ ledgerText' \in LedgerTexts /\ authorized' = authorized
        /\ attempts' = [attempts EXCEPT ![p] = @ + 1]
        /\ retries' = retries + (IF p \in BankPairs /\ attempts[p] > 0 THEN 1 ELSE 0)
        /\ DOMAIN jobs' = DOMAIN jobs \cup {attemptLedger.events + 1}
        /\ \A i \in DOMAIN jobs' :
             jobs'[i] = IF i \in DOMAIN jobs THEN jobs[i] ELSE [pair |-> p, status |-> "submitted"]
    BY <1>2, ReserveMeans, IntentMeans
  <2>2. attempts' \in [Attempted -> Nat] /\ retries' \in Nat
    BY <2>1 DEF CollectionTyped
  <2>3. DOMAIN jobs' \in SUBSET Nat /\ IsFiniteSet(DOMAIN jobs')
    <3>1. DOMAIN jobs \in SUBSET Nat /\ IsFiniteSet(DOMAIN jobs)
      BY DEF CollectionTyped
    <3>2. attemptLedger.events + 1 \in Nat
      BY MemoryTypes
    <3>3. IsFiniteSet(DOMAIN jobs \cup {attemptLedger.events + 1})
      BY <3>1, FS_AddElement
    <3> QED
      BY <2>1, <3>1, <3>2, <3>3, Zenon
  <2>4. \A i \in DOMAIN jobs' : jobs'[i] \in [pair : Attempted, status : JobStatuses]
    BY <2>1 DEF CollectionTyped, JobStatuses
  <2>5. jobs' = [i \in DOMAIN jobs' |-> jobs'[i]]
    BY <1>2 DEF ReserveIntent
  <2>6. jobs' \in [DOMAIN jobs' -> [pair : Attempted, status : JobStatuses]]
    BY <2>4, <2>5
  <2>7. done' \in SUBSET DOMAIN jobs'
    BY <1>2, <2>1 DEF CollectionTyped
  <2> QED
    BY <1>2, <2>1, <2>2, <2>3, <2>6, <2>7 DEF CollectionTyped
<1>3. ASSUME NEW i \in DOMAIN jobs, Settled(i), UNCHANGED <<clients, queue, attempts, retries, callsMade>>,
             done' \in SUBSET (DOMAIN jobs \ {i}), retry' \in Seq(BankPairs), failure' \in BOOLEAN,
             collectionPc' \in CollectionModes \cup PathModes, collectionPc' # "settle" => done' = {}
      PROVE  CollectionTyped'
  <2>1. /\ attemptLedger' \in Books /\ ledgerText' \in LedgerTexts /\ authorized' = authorized
        /\ DOMAIN jobs' = DOMAIN jobs \ {i} /\ \A j \in DOMAIN jobs' : jobs'[j] = jobs[j]
    BY <1>3, SettledMeans, SettlementMeans
  <2>2. jobs' = [j \in DOMAIN jobs' |-> jobs'[j]]
    BY <1>3 DEF Settled
  <2>3. jobs' \in [DOMAIN jobs' -> [pair : Attempted, status : JobStatuses]]
    BY <2>1, <2>2 DEF CollectionTyped
  <2>4. DOMAIN jobs' \in SUBSET Nat /\ IsFiniteSet(DOMAIN jobs')
    <3>1. DOMAIN jobs \in SUBSET Nat /\ IsFiniteSet(DOMAIN jobs)
      BY DEF CollectionTyped
    <3>2. IsFiniteSet(DOMAIN jobs \ {i})
      BY <3>1, FS_Difference
    <3> QED
      BY <2>1, <3>1, <3>2, Zenon
  <2> QED
    BY <1>3, <2>1, <2>3, <2>4 DEF CollectionTyped
<1>4. ledgerText \in LedgerTexts /\ authorized \in BOOLEAN /\ failure \in BOOLEAN /\ Qualification \in Attempted
      /\ queue \in Seq(BankPairs) /\ retry \in Seq(BankPairs) /\ collectionPc \in CollectionModes \cup PathModes
  BY AttemptedFinite DEF CollectionTyped
<1>5. CASE UNCHANGED collectionVars
  BY <1>1, <1>4, <1>5 DEF collectionVars, disk, memory
<1>6. CASE PrepareBank \/ Authorize \/ StartPaths \/ PublishPath \/ StopPaths
             \/ ClosePaths \/ OpenReport \/ CloseReport \/ PublishBank \/ PublishClosure \/ EndLoop
  <2>1. counted /\ listed
    BY <1>6 DEF PrepareBank, Authorize, StartPaths, PublishPath, StopPaths, Publishes,
       ClosePaths, OpenReport, CloseReport, PublishBank, PublishClosure, EndLoop, World, memory, disk
  <2>2. ledgerText' = ledgerText /\ authorized' \in BOOLEAN
    BY <1>4, <1>6 DEF PrepareBank, Authorize, StartPaths, PublishPath, StopPaths, Publishes,
       ClosePaths, OpenReport, CloseReport, PublishBank, PublishClosure, EndLoop, World, memory, disk
  <2>3. collectionPc' \in CollectionModes \cup PathModes /\ (collectionPc' = collectionPc \/ collectionPc # "settle")
    BY <1>4, <1>6 DEF PrepareBank, Authorize, StartPaths, PublishPath, StopPaths, Publishes, MoveTo,
       ClosePaths, OpenReport, CloseReport, PublishBank, PublishClosure, EndLoop, CollectionModes, PathModes
  <2> QED
    BY <1>1, <1>4, <2>1, <2>2, <2>3
<1>7. CASE Collect
  <2>1. /\ UNCHANGED <<attemptLedger, ledgerText, authorized, callsMade>> /\ jobs' = <<>> /\ done' = {} /\ retry' = <<>>
        /\ failure' = FALSE /\ attempts' = attemptLedger.attempts /\ retries' = Retried(attemptLedger.attempts)
        /\ queue' = InOrder(BankPairs \ Accepted) /\ collectionPc' \in {"fill", "qualify"}
        /\ clients' \in 1 .. (IF authorized THEN Transports ELSE 1)
    BY <1>7 DEF Collect, MoveTo, Rebuilt, disk
  <2>2. attempts' \in [Attempted -> Nat] /\ retries' \in Nat /\ queue' \in Seq(BankPairs)
    BY <2>1, MemoryTypes, OpenPairs
  <2>3. DOMAIN jobs' = {} /\ IsFiniteSet({}) /\ jobs' \in [{} -> [pair : Attempted, status : JobStatuses]]
    BY <2>1, FS_EmptySet
  <2>4. clients' \in Nat
    BY <2>1, CollectionAssumption
  <2> QED
    <3>1. done' \in SUBSET DOMAIN jobs' /\ done' = {}
      BY <2>1
    <3>2. DOMAIN jobs' \in SUBSET Nat /\ IsFiniteSet(DOMAIN jobs')
          /\ jobs' \in [DOMAIN jobs' -> [pair : Attempted, status : JobStatuses]]
      BY <2>3, Zenon
    <3>3. attemptLedger' \in Books /\ ledgerText' \in LedgerTexts /\ authorized' \in BOOLEAN /\ callsMade' \in [Attempted -> Nat]
      BY <2>1 DEF CollectionTyped
    <3>4. failure' \in BOOLEAN /\ retry' \in Seq(BankPairs) /\ collectionPc' \in CollectionModes
      <4>1. <<>> \in Seq(BankPairs)
        OBVIOUS
      <4>2. retry' \in Seq(BankPairs)
        BY <2>1, <4>1
      <4>3. collectionPc' \in CollectionModes
        BY <2>1 DEF CollectionModes
      <4> QED
        BY <2>1, <4>2, <4>3
    <3> QED
      BY <2>2, <2>4, <3>1, <3>2, <3>3, <3>4 DEF CollectionTyped
<1>8. CASE Qualify
  <2>1. CASE CapReached(Qualification)
    BY <1>1, <1>4, <1>8, <2>1 DEF Qualify, World, MoveTo, disk, PathModes
  <2>2. CASE ~CapReached(Qualification)
    BY <1>2, <1>4, <1>8, <2>2 DEF Qualify, World, MoveTo, CollectionModes
  <2> QED
    BY <2>1, <2>2
<1>9. CASE SettleQualification
  <2>1. PICK i \in DOMAIN jobs : Settled(i) /\ jobs[i].status # "submitted"
                                   /\ MoveTo(IF jobs[i].status = "succeeded" THEN "fill" ELSE "down")
    BY <1>9 DEF SettleQualification
  <2>2. /\ UNCHANGED <<clients, queue, attempts, retries, callsMade, retry, failure, done>> /\ done = {}
        /\ collectionPc' \in {"fill", "down"}
    BY <1>9, <2>1 DEF SettleQualification, World, MoveTo, CollectionTyped
  <2> QED
    BY <1>3, <1>4, <2>1, <2>2 DEF CollectionModes, PathModes
<1>10. CASE Fill
  <2>1. queue' = Tail(queue) /\ queue # <<>> /\ Head(queue) \in BankPairs /\ Tail(queue) \in Seq(BankPairs)
    BY <1>4, <1>10 DEF Fill, CanReserve
  <2>2. CASE CapReached(Head(queue))
    <3>1. UNCHANGED <<attemptLedger, jobs, done, attempts, retries, callsMade, clients, retry, ledgerText, authorized, collectionPc>>
          /\ failure' = TRUE
      BY <1>10, <2>2 DEF Fill, World, disk
    <3> QED
      BY <2>1, <3>1 DEF CollectionTyped
  <2>3. CASE ~CapReached(Head(queue))
    <3>1. /\ ReserveIntent(Head(queue)) /\ UNCHANGED <<clients, retry, done, callsMade>>
          /\ queue' \in Seq(BankPairs) /\ failure' \in BOOLEAN /\ collectionPc' \in CollectionModes \cup PathModes
          /\ Head(queue) \in Attempted /\ collectionPc # "settle"
      BY <1>4, <1>10, <2>1, <2>3, AttemptedFinite DEF Fill, World
    <3> QED
      BY <1>2, <3>1
  <2> QED
    BY <2>2, <2>3
<1>11. CASE Wait
  <2>1. /\ UNCHANGED <<attemptLedger, jobs, attempts, retries, callsMade, clients, queue, retry, failure, ledgerText, authorized>>
        /\ done' \in SUBSET DOMAIN jobs /\ collectionPc' = "settle"
    BY <1>11 DEF Wait, World, MoveTo, disk
  <2> QED
    BY <2>1 DEF CollectionTyped, CollectionModes
<1>12. CASE SettleIntent
  <2> DEFINE i == Min(done)
  <2>1. /\ Settled(i) /\ done' = done \ {i} /\ done # {} /\ collectionPc = "settle"
        /\ retry' = IF jobs[i].status = "retryable_failure" THEN Append(retry, jobs[i].pair) ELSE retry
        /\ failure' = (failure \/ jobs[i].status \in {"nonretryable_failure", "unknown"})
        /\ UNCHANGED <<collectionPc, clients, queue, attempts, retries, callsMade>>
    BY <1>12 DEF SettleIntent, World
  <2>2. i \in done
    BY <2>1, LeastDone
  <2> HIDE DEF i
  <2>3. i \in DOMAIN jobs /\ done' \in SUBSET (DOMAIN jobs \ {i}) /\ failure' \in BOOLEAN
    BY <1>4, <2>1, <2>2 DEF CollectionTyped
  <2>4. retry' \in Seq(BankPairs)
    <3>1. jobs[i].pair \in BankPairs
      BY <2>1, <2>3 DEF StageAgrees
    <3> QED
      BY <1>4, <2>1, <3>1
  <2> QED
    BY <1>3, <1>4, <2>1, <2>3, <2>4
<1>13. CASE Requeue
  <2>1. /\ UNCHANGED <<attemptLedger, jobs, done, attempts, retries, callsMade, clients, failure, ledgerText, authorized>>
        /\ retry' = <<>> /\ collectionPc' = "fill" /\ done = {} /\ (queue' = queue \/ queue' = Reverse(retry) \o queue)
    BY <1>13 DEF Requeue, World, MoveTo, disk
  <2>2. queue' \in Seq(BankPairs)
    BY <1>4, <2>1, InFront
  <2> QED
    BY <2>1, <2>2 DEF CollectionTyped, CollectionModes
<1>14. ASSUME NEW i \in DOMAIN jobs, Execute(i) PROVE CollectionTyped'
  <2>1. PICK o \in Outcomes(jobs[i].pair) : jobs' = [jobs EXCEPT ![i].status = o]
    BY <1>14 DEF Execute
  <2>2. /\ callsMade' = [callsMade EXCEPT ![jobs[i].pair] = @ + 1]
        /\ UNCHANGED <<attemptLedger, ledgerText, authorized, collectionPc, clients, queue, done, retry, failure, attempts, retries>>
    BY <1>14 DEF Execute, disk
  <2>3. o \in JobStatuses
    BY <2>1 DEF Outcomes, JobStatuses
  <2>4. jobs' \in [DOMAIN jobs -> [pair : Attempted, status : JobStatuses]]
    BY <2>1, <2>3 DEF CollectionTyped
  <2>5. callsMade' \in [Attempted -> Nat]
    <3>1. callsMade \in [Attempted -> Nat]
      BY DEF CollectionTyped
    <3>2. jobs[i].pair \in Attempted
      BY MemoryTypes
    <3> QED
      BY <2>2, <3>1, <3>2
  <2> QED
    BY <2>1, <2>2, <2>4, <2>5 DEF CollectionTyped
<1>15. CASE Kill
  <2>0. attemptLedger' \in Books /\ ledgerText' \in LedgerTexts
    BY <1>4, <1>15, KillBooks DEF LedgerTexts, Kill, CollectionTyped
  <2>1. /\ UNCHANGED <<authorized, callsMade>> /\ collectionPc' = "down" /\ clients' = 1
        /\ queue' = <<>> /\ jobs' = <<>> /\ done' = {} /\ retry' = <<>> /\ failure' = FALSE
        /\ attempts' = [p \in Attempted |-> 0] /\ retries' = 0
    BY <1>4, <1>15 DEF Kill, MoveTo
  <2>2. DOMAIN jobs' = {} /\ IsFiniteSet({}) /\ jobs' \in [{} -> [pair : Attempted, status : JobStatuses]]
    BY <2>1, FS_EmptySet
  <2>3. queue' \in Seq(BankPairs) /\ retry' \in Seq(BankPairs) /\ attempts' \in [Attempted -> Nat]
    BY <2>1
  <2> QED
    BY <2>0, <2>1, <2>2, <2>3 DEF CollectionTyped, PathModes
<1> QED
  BY <1>5, <1>6, <1>7, <1>8, <1>9, <1>10, <1>11, <1>12, <1>13, <1>14, <1>15
  DEF CollectionNext, Stage, Worker

\* The most requests that may be in flight at once.
Allowed == IF authorized THEN Transports ELSE 1

\* A request of p is neither out nor answered for good, and fits the budgets.
MayReserve(p) ==
  /\ p \in Attempted /\ collectionPc \in {"qualify", "fill"} /\ ~attemptLedger.stopped /\ p \notin Accepted /\ ~Unsettled(p)
  /\ p = Qualification => ~attemptLedger.qualified /\ attemptLedger.attempts[p] = 0
  /\ p \in BankPairs => attemptLedger.qualified
  /\ Cardinality(DOMAIN jobs) < clients
  /\ ~CapReached(p)

\* The intents that await their settlement are those of the requests in flight.
LEMMA FlyingIsUnsettled ==
  ASSUME CollectionInv, collectionPc \in CollectionModes
  PROVE  /\ \A p : Unsettled(p) <=> Flying(p)
         /\ \A i \in DOMAIN jobs : /\ i \in Nat /\ i <= attemptLedger.events
                                   /\ [intent |-> i, pair |-> jobs[i].pair] \in attemptLedger.pending
         /\ \A x \in attemptLedger.pending : x.intent \in DOMAIN jobs /\ x.pair = jobs[x.intent].pair
<1>1. attemptLedger.pending = {[intent |-> i, pair |-> jobs[i].pair] : i \in DOMAIN jobs}
  BY DEF CollectionInv, MemoryAgrees, InFlight
<1>2. \A i \in DOMAIN jobs : [intent |-> i, pair |-> jobs[i].pair] \in attemptLedger.pending
  BY <1>1
<1>3. \A x \in attemptLedger.pending : x.intent \in DOMAIN jobs /\ x.pair = jobs[x.intent].pair
  BY <1>1
<1>4. \A i \in DOMAIN jobs : i \in Nat /\ i <= attemptLedger.events
  <2> SUFFICES ASSUME NEW i \in DOMAIN jobs PROVE i \in Nat /\ i <= attemptLedger.events
    OBVIOUS
  <2> DEFINE x == [intent |-> i, pair |-> jobs[i].pair]
  <2>1. x \in attemptLedger.pending /\ x.intent = i
    BY <1>2
  <2> QED
    BY <2>1 DEF CollectionInv, LedgerCounts, CollectionTyped
<1>5. ASSUME NEW p PROVE Unsettled(p) <=> Flying(p)
  <2>1. ASSUME NEW i \in DOMAIN jobs, jobs[i].pair = p PROVE Unsettled(p)
    <3>1. [intent |-> i, pair |-> jobs[i].pair].pair = p
      BY <2>1
    <3> QED
      BY <1>2, <3>1 DEF Unsettled
  <2> QED
    BY <1>3, <2>1 DEF Unsettled, Flying
<1> QED
  BY <1>2, <1>3, <1>4, <1>5

\* The self-check is reserved once, and alone.
LEMMA QualifyMayReserve ==
  ASSUME CollectionInv, collectionPc = "qualify", ~CapReached(Qualification)
  PROVE  MayReserve(Qualification)
<1>1. collectionPc \in CollectionModes
  BY DEF CollectionModes
<1>2. DOMAIN jobs = {} /\ ~attemptLedger.qualified /\ ~attemptLedger.stopped
  BY DEF CollectionInv, StageAgrees
<1>3. ~Unsettled(Qualification)
  BY <1>1, <1>2, FlyingIsUnsettled DEF Flying
<1>4. Qualification \in Attempted /\ Qualification \notin BankPairs
  BY AttemptedFinite
<1>5. attemptLedger.attempts[Qualification] = 0
  <2>1. attemptLedger.attempts[Qualification] \in Nat
    BY <1>4, MemoryTypes DEF CollectionInv
  <2>2. ~(attemptLedger.attempts[Qualification] > 0)
    BY <1>2, <1>3 DEF CollectionInv, LedgerCounts
  <2> QED
    BY <2>1, <2>2
<1>6. clients \in 1 .. Allowed
  BY <1>1 DEF CollectionInv, MemoryAgrees, Allowed
<1>7. Cardinality(DOMAIN jobs) < clients
  <2>1. Cardinality(DOMAIN jobs) = 0
    BY <1>2, FS_EmptySet, Zenon
  <2> QED
    BY <1>6, <2>1, CollectionAssumption DEF Allowed
<1> QED
  BY <1>2, <1>3, <1>4, <1>5, <1>7 DEF MayReserve, Accepted

\* The head of the queue is an open pair.
LEMMA FillMayReserve ==
  ASSUME CollectionInv, collectionPc = "fill", CanReserve, ~CapReached(Head(queue))
  PROVE  MayReserve(Head(queue)) /\ Head(queue) \in BankPairs /\ Head(queue) = queue[1] /\ 1 \in DOMAIN queue
<1>1. collectionPc \in CollectionModes
  BY DEF CollectionModes
<1>2. /\ Head(queue) = queue[1] /\ 1 \in DOMAIN queue /\ Head(queue) \in BankPairs
  BY DEF CollectionInv, CollectionTyped, CanReserve
<1>3. Head(queue) \notin Accepted /\ ~Flying(Head(queue))
  BY <1>1, <1>2 DEF CollectionInv, QueueAgrees
<1>4. ~failure /\ Cardinality(DOMAIN jobs) < clients
  BY DEF CanReserve
<1>5. ~attemptLedger.stopped
  BY <1>1, <1>4 DEF CollectionInv, MemoryAgrees
<1>6. attemptLedger.qualified
  BY DEF CollectionInv, StageAgrees
<1> QED
  BY <1>1, <1>2, <1>3, <1>4, <1>5, <1>6, AttemptedFinite, FlyingIsUnsettled DEF MayReserve

\* An intent of such a pair keeps the counts and the budgets of the ledger, be its
\* process killed over it or not.
LEMMA IntentKeeps ==
  ASSUME CollectionInv, NEW p, MayReserve(p), AppendIntent(p), UNCHANGED callsMade
  PROVE  /\ LedgerCounts' /\ Budgets' /\ Accepted' = Accepted
         /\ Retried(attemptLedger'.attempts)
              = Retried(attemptLedger.attempts) + (IF p \in BankPairs /\ attemptLedger.attempts[p] > 0 THEN 1 ELSE 0)
         /\ attemptLedger.events + 1 \notin DOMAIN jobs
<1> DEFINE e == attemptLedger.events + 1
           x0 == [intent |-> e, pair |-> p]
<1>1. /\ attemptLedger' \in Books /\ attemptLedger'.events = e
      /\ attemptLedger'.pending = attemptLedger.pending \cup {x0}
      /\ attemptLedger'.attempts = [attemptLedger.attempts EXCEPT ![p] = @ + 1]
      /\ attemptLedger'.settled = attemptLedger.settled /\ attemptLedger'.source = attemptLedger.source
      /\ attemptLedger'.qualified = attemptLedger.qualified /\ attemptLedger'.stopped = attemptLedger.stopped
      /\ attemptLedger'.reads = (attemptLedger.reads /\ ~attemptLedger.stopped /\ p \notin Accepted
                            /\ \A x \in attemptLedger.pending : x.pair # p)
      /\ attemptLedger'.bounded = (attemptLedger.bounded /\ Cardinality(attemptLedger'.pending) <= Allowed)
  BY IntentMeans DEF CollectionInv, MayReserve, Allowed
<1>2. /\ p \in Attempted /\ collectionPc \in CollectionModes /\ ~attemptLedger.stopped /\ p \notin Accepted /\ ~Unsettled(p)
      /\ (p = Qualification => ~attemptLedger.qualified /\ attemptLedger.attempts[p] = 0)
      /\ (p \in BankPairs => attemptLedger.qualified)
      /\ Cardinality(DOMAIN jobs) < clients /\ ~CapReached(p)
  BY DEF MayReserve, CollectionModes
<1>3. /\ \A q : Unsettled(q) <=> Flying(q)
      /\ \A i \in DOMAIN jobs : i \in Nat /\ i <= attemptLedger.events
      /\ \A x \in attemptLedger.pending : x.intent \in DOMAIN jobs /\ x.pair = jobs[x.intent].pair
  BY <1>2, FlyingIsUnsettled
<1>4. e \in Nat /\ attemptLedger.events \in Nat /\ e \notin DOMAIN jobs
  <2>1. attemptLedger.events \in Nat
    BY MemoryTypes DEF CollectionInv
  <2> QED
    BY <1>3, <2>1
<1>5. attempts = attemptLedger.attempts /\ retries = Retried(attemptLedger.attempts) /\ attemptLedger.pending = InFlight
  BY <1>2 DEF CollectionInv, MemoryAgrees
<1>6. /\ attemptLedger.attempts \in [Attempted -> Nat] /\ attemptLedger'.attempts \in [Attempted -> Nat]
      /\ attemptLedger.settled \in [Attempted -> Nat] /\ attemptLedger.pending \subseteq Intents
  BY <1>1, BookFields DEF CollectionInv, CollectionTyped
<1>7. /\ Total(attemptLedger.attempts) \in Nat /\ Total(attemptLedger'.attempts) = Total(attemptLedger.attempts) + 1
      /\ Retried(attemptLedger.attempts) \in Nat
      /\ Retried(attemptLedger'.attempts)
           = Retried(attemptLedger.attempts) + (IF p \in BankPairs /\ attemptLedger.attempts[p] > 0 THEN 1 ELSE 0)
  BY <1>1, <1>2, <1>6, OneAttemptMore
<1>9. Accepted' = Accepted
  BY <1>1 DEF Accepted
<1>10. ASSUME NEW q PROVE Unsettled(q)' <=> (Unsettled(q) \/ q = p)
  <2>1. x0.pair = p
    OBVIOUS
  <2> HIDE DEF x0
  <2> QED
    BY <1>1, <2>1 DEF Unsettled
<1>14. clients \in 1 .. Allowed /\ Allowed \in Nat
  BY <1>2, CollectionAssumption DEF CollectionInv, MemoryAgrees, Allowed
<1>15. /\ IsFiniteSet(attemptLedger.pending) /\ Cardinality(attemptLedger.pending) \in Nat
       /\ Cardinality(attemptLedger.pending) < Allowed
  <2> DEFINE f == [i \in DOMAIN jobs |-> [intent |-> i, pair |-> jobs[i].pair]]
  <2>1. f \in Surjection(DOMAIN jobs, attemptLedger.pending)
    BY <1>5 DEF Surjection, InFlight
  <2>2. IsFiniteSet(DOMAIN jobs)
    BY DEF CollectionInv, CollectionTyped
  <2>3. IsFiniteSet(attemptLedger.pending) /\ Cardinality(attemptLedger.pending) <= Cardinality(DOMAIN jobs)
    BY <2>1, <2>2, FS_Surjection
  <2>4. Cardinality(attemptLedger.pending) \in Nat /\ Cardinality(DOMAIN jobs) \in Nat
    BY <2>2, <2>3, FS_CardinalityType
  <2> QED
    BY <1>2, <1>14, <2>3, <2>4
<1>16. Cardinality(attemptLedger'.pending) <= Allowed
  <2>1. x0 \notin attemptLedger.pending
    BY <1>3, <1>4
  <2>2. Cardinality(attemptLedger.pending \cup {x0}) = Cardinality(attemptLedger.pending) + 1
    BY <1>15, <2>1, FS_AddElement
  <2> QED
    BY <1>1, <1>14, <1>15, <2>2
<1>17. attemptLedger'.reads /\ attemptLedger'.bounded
  BY <1>1, <1>2, <1>16 DEF CollectionInv, LedgerCounts, Unsettled
<1>18. LedgerCounts'
  <2>1. \A x \in attemptLedger'.pending : x.intent <= attemptLedger'.events
    BY <1>1, <1>3, <1>4
  <2>2. \A x, y \in attemptLedger'.pending : x.pair = y.pair \/ x.intent = y.intent => x = y
    <3>1. \A x \in attemptLedger.pending : x.pair # p /\ x.intent # e
      BY <1>2, <1>3, <1>4 DEF Unsettled
    <3>2. x0.pair = p /\ x0.intent = e
      OBVIOUS
    <3>3. \A x, y \in attemptLedger.pending : x.pair = y.pair \/ x.intent = y.intent => x = y
      BY DEF CollectionInv, LedgerCounts
    <3> HIDE DEF x0, e
    <3> QED
      BY <1>1, <3>1, <3>2, <3>3
  <2>3. \A x \in attemptLedger'.pending : x.pair \notin Accepted' /\ (x.pair = Qualification => ~attemptLedger'.qualified)
    <3>1. x0.pair = p
      OBVIOUS
    <3> HIDE DEF x0
    <3> QED
      BY <1>1, <1>2, <1>9, <3>1 DEF CollectionInv, LedgerCounts
  <2>4. ASSUME NEW q \in Attempted
        PROVE  /\ attemptLedger'.attempts[q] = attemptLedger'.settled[q] + (IF Unsettled(q)' THEN 1 ELSE 0)
               /\ ~Unsettled(q)' => callsMade'[q] = attemptLedger'.attempts[q]
    <3>1. /\ attemptLedger.attempts[q] = attemptLedger.settled[q] + (IF Unsettled(q) THEN 1 ELSE 0)
          /\ ~Unsettled(q) => callsMade[q] = attemptLedger.attempts[q]
      BY DEF CollectionInv, LedgerCounts
    <3>2. attemptLedger'.settled[q] = attemptLedger.settled[q] /\ callsMade' = callsMade /\ attemptLedger.settled[q] \in Nat
          /\ attemptLedger.attempts[q] \in Nat
      BY <1>1, <1>6
    <3>3. CASE q = p
      BY <1>1, <1>2, <1>6, <1>10, <3>1, <3>2, <3>3
    <3>4. CASE q # p
      BY <1>1, <1>6, <1>10, <3>1, <3>2, <3>4
    <3> QED
      BY <3>3, <3>4
  <2>5. attemptLedger'.attempts[Qualification] > 0 =>
          attemptLedger'.qualified \/ attemptLedger'.stopped \/ Unsettled(Qualification)'
    <3>1. attemptLedger.attempts[Qualification] > 0 =>
            attemptLedger.qualified \/ attemptLedger.stopped \/ Unsettled(Qualification)
      BY DEF CollectionInv, LedgerCounts
    <3>2. CASE Qualification = p
      BY <1>10, <3>2
    <3>3. CASE Qualification # p
      BY <1>1, <1>2, <1>6, <1>10, <3>1, <3>3, AttemptedFinite
    <3> QED
      BY <3>2, <3>3
  <2> QED
    BY <1>17, <2>1, <2>2, <2>3, <2>4, <2>5 DEF LedgerCounts
<1>19. Budgets'
  <2>1. /\ Total(attemptLedger.attempts) <= PhysicalCap
        /\ attemptLedger.attempts[Qualification] <= 1
        /\ Retried(attemptLedger.attempts) <= GlobalRetries
        /\ \A q \in BankPairs : attemptLedger.attempts[q] <= PairAttempts
    BY DEF CollectionInv, Budgets
  <2>2. /\ ~(Total(attemptLedger.attempts) >= PhysicalCap)
        /\ p \in BankPairs => ~(attemptLedger.attempts[p] >= PairAttempts)
                                /\ ~(attemptLedger.attempts[p] > 0 /\ Retried(attemptLedger.attempts) >= GlobalRetries)
    BY <1>2, <1>5 DEF CapReached
  <2>3. PhysicalCap \in Nat /\ GlobalRetries \in Nat /\ PairAttempts \in Nat
    BY CollectionAssumption DEF PhysicalCap, Qualifications
  <2>4. Total(attemptLedger'.attempts) <= PhysicalCap
    BY <1>7, <2>2, <2>3
  <2>5. Retried(attemptLedger'.attempts) <= GlobalRetries
    BY <1>7, <2>1, <2>2, <2>3
  <2>6. attemptLedger'.attempts[Qualification] <= 1
    <3>1. CASE p = Qualification
      BY <1>1, <1>2, <1>6, <3>1
    <3>2. CASE p # Qualification
      BY <1>1, <1>6, <2>1, <3>2, AttemptedFinite
    <3> QED
      BY <3>1, <3>2
  <2>7. ASSUME NEW q \in BankPairs PROVE attemptLedger'.attempts[q] <= PairAttempts
    <3>1. q \in Attempted /\ attemptLedger.attempts[q] \in Nat
      BY <1>6, AttemptedFinite
    <3>2. CASE q = p
      BY <1>1, <1>6, <2>2, <2>3, <3>1, <3>2
    <3>3. CASE q # p
      BY <1>1, <1>6, <2>1, <3>1, <3>3
    <3> QED
      BY <3>2, <3>3
  <2> QED
    BY <2>4, <2>5, <2>6, <2>7 DEF Budgets
<1> QED
  BY <1>4, <1>7, <1>9, <1>18, <1>19

\* When its process goes on, its request is one more that is in flight.
LEMMA ReserveKeeps ==
  ASSUME CollectionInv, NEW p, MayReserve(p), ReserveIntent(p), UNCHANGED <<callsMade, clients>>
  PROVE  /\ Accepted' = Accepted
         /\ \A q : Flying(q)' <=> (Flying(q) \/ q = p)
         /\ attemptLedger'.pending = InFlight' /\ Cardinality(DOMAIN jobs') <= clients
         /\ attempts' = attemptLedger'.attempts /\ retries' = Retried(attemptLedger'.attempts)
         /\ attemptLedger.events + 1 \notin DOMAIN jobs
<1> DEFINE e == attemptLedger.events + 1
           x0 == [intent |-> e, pair |-> p]
<1>1. /\ attemptLedger'.pending = attemptLedger.pending \cup {x0}
      /\ attemptLedger'.attempts = [attemptLedger.attempts EXCEPT ![p] = @ + 1]
      /\ DOMAIN jobs' = DOMAIN jobs \cup {e}
      /\ \A i \in DOMAIN jobs' :
           jobs'[i] = IF i \in DOMAIN jobs THEN jobs[i] ELSE [pair |-> p, status |-> "submitted"]
      /\ attempts' = [attempts EXCEPT ![p] = @ + 1]
      /\ retries' = retries + (IF p \in BankPairs /\ attempts[p] > 0 THEN 1 ELSE 0)
  BY ReserveMeans, IntentMeans DEF CollectionInv, MayReserve
<1>2. collectionPc \in CollectionModes /\ Cardinality(DOMAIN jobs) < clients
  BY DEF MayReserve, CollectionModes
<1>3. /\ Accepted' = Accepted /\ e \notin DOMAIN jobs
      /\ Retried(attemptLedger'.attempts)
           = Retried(attemptLedger.attempts) + (IF p \in BankPairs /\ attemptLedger.attempts[p] > 0 THEN 1 ELSE 0)
  BY ReserveMeans, IntentKeeps
<1>4. e \notin DOMAIN jobs
  BY <1>3
<1>5. attempts = attemptLedger.attempts /\ retries = Retried(attemptLedger.attempts) /\ attemptLedger.pending = InFlight
      /\ clients \in Nat
  BY <1>2 DEF CollectionInv, CollectionTyped, MemoryAgrees
<1>8. attempts' = attemptLedger'.attempts /\ retries' = Retried(attemptLedger'.attempts)
  BY <1>1, <1>3, <1>5
<1>11. ASSUME NEW q PROVE Flying(q)' <=> (Flying(q) \/ q = p)
  <2>1. \A i \in DOMAIN jobs : i \in DOMAIN jobs' /\ jobs'[i].pair = jobs[i].pair
    BY <1>1
  <2>2. e \in DOMAIN jobs' /\ jobs'[e].pair = p
    BY <1>1, <1>4
  <2>3. \A i \in DOMAIN jobs' : i \in DOMAIN jobs \/ i = e
    BY <1>1
  <2> HIDE DEF e
  <2> QED
    BY <2>1, <2>2, <2>3 DEF Flying
<1>12. attemptLedger'.pending = InFlight'
  <2>1. \A i \in DOMAIN jobs : i \in DOMAIN jobs' /\ jobs'[i].pair = jobs[i].pair
    BY <1>1
  <2>2. e \in DOMAIN jobs' /\ jobs'[e].pair = p
    BY <1>1, <1>4
  <2>3. \A i \in DOMAIN jobs' : i \in DOMAIN jobs \/ i = e
    BY <1>1
  <2>4. attemptLedger.pending \cup {x0} = {[intent |-> i, pair |-> jobs'[i].pair] : i \in DOMAIN jobs'}
    <3>1. attemptLedger.pending = {[intent |-> i, pair |-> jobs[i].pair] : i \in DOMAIN jobs}
      BY <1>5 DEF InFlight
    <3>2. x0 = [intent |-> e, pair |-> jobs'[e].pair]
      BY <2>2
    <3> HIDE DEF x0, e
    <3> QED
      BY <2>1, <2>2, <2>3, <3>1, <3>2
  <2> QED
    BY <1>1, <2>4 DEF InFlight
<1>13. /\ IsFiniteSet(DOMAIN jobs') /\ Cardinality(DOMAIN jobs') = Cardinality(DOMAIN jobs) + 1
       /\ Cardinality(DOMAIN jobs) \in Nat
  <2>1. IsFiniteSet(DOMAIN jobs)
    BY DEF CollectionInv, CollectionTyped
  <2>2. /\ IsFiniteSet(DOMAIN jobs \cup {e}) /\ Cardinality(DOMAIN jobs \cup {e}) = Cardinality(DOMAIN jobs) + 1
    BY <1>4, <2>1, FS_AddElement
  <2>3. DOMAIN jobs' = DOMAIN jobs \cup {e}
    BY <1>1
  <2> QED
    BY <2>1, <2>2, <2>3, FS_CardinalityType, Zenon
<1>15. Cardinality(DOMAIN jobs') <= clients
  BY <1>2, <1>5, <1>13
<1> QED
  BY <1>3, <1>8, <1>11, <1>12, <1>15

\* A settlement of a request that has ended keeps the counts, be its process killed
\* over it or not; its pair is accepted if it succeeded.
LEMMA SettlementKeeps ==
  ASSUME CollectionInv, collectionPc \in CollectionModes, NEW i \in DOMAIN jobs, jobs[i].status # "submitted",
         Settles(i), UNCHANGED callsMade
  PROVE  /\ LedgerCounts' /\ attemptLedger'.attempts = attemptLedger.attempts
         /\ Accepted' = IF jobs[i].status = "succeeded" /\ jobs[i].pair \in BankPairs
                        THEN Accepted \cup {jobs[i].pair} ELSE Accepted
         /\ jobs[i].pair \notin Accepted
<1> DEFINE p == jobs[i].pair
           o == jobs[i].status
<1>1. /\ p \in Attempted /\ o \in JobStatuses
      /\ attemptLedger' \in Books /\ attemptLedger'.events = attemptLedger.events + 1
      /\ attemptLedger'.pending = {x \in attemptLedger.pending : x.intent # i}
      /\ attemptLedger'.attempts = attemptLedger.attempts
      /\ attemptLedger'.settled = [attemptLedger.settled EXCEPT ![p] = @ + 1]
      /\ attemptLedger'.source = IF o = "succeeded" /\ p \in BankPairs
                                 THEN [attemptLedger.source EXCEPT ![p] = attemptLedger.events + 1] ELSE attemptLedger.source
      /\ attemptLedger'.qualified = (attemptLedger.qualified \/ (o = "succeeded" /\ p = Qualification))
      /\ attemptLedger'.stopped = (attemptLedger.stopped \/ o \in {"nonretryable_failure", "unknown"})
      /\ attemptLedger'.reads = (attemptLedger.reads /\ (\E x \in attemptLedger.pending : x.intent = i)
                            /\ (o = "succeeded" => p \notin Accepted))
      /\ attemptLedger'.bounded = attemptLedger.bounded
  BY SettlementMeans DEF CollectionInv
<1>2. o \in Outcomes(p)
  BY DEF CollectionInv, StageAgrees
<1> HIDE DEF p, o
<1>3. /\ \A q : Unsettled(q) <=> Flying(q)
      /\ \A j \in DOMAIN jobs : [intent |-> j, pair |-> jobs[j].pair] \in attemptLedger.pending
      /\ \A x \in attemptLedger.pending : x.intent \in DOMAIN jobs /\ x.pair = jobs[x.intent].pair
  BY FlyingIsUnsettled
<1>4. \A j, k \in DOMAIN jobs : jobs[j].pair = jobs[k].pair => j = k
  BY DEF CollectionInv, MemoryAgrees
<1>5. /\ attemptLedger.events \in Nat /\ attemptLedger.source \in [BankPairs -> Nat] /\ attemptLedger.settled \in [Attempted -> Nat]
      /\ attemptLedger.attempts \in [Attempted -> Nat]
  BY MemoryTypes DEF CollectionInv
<1>6. \E x \in attemptLedger.pending : x.intent = i /\ x.pair = p
  <2>1. [intent |-> i, pair |-> jobs[i].pair].intent = i /\ [intent |-> i, pair |-> jobs[i].pair].pair = p
    BY DEF p
  <2> QED
    BY <1>3, <2>1
<1>7. p \notin Accepted /\ (p = Qualification => ~attemptLedger.qualified)
  BY <1>6 DEF CollectionInv, LedgerCounts
<1>8. Accepted' = IF o = "succeeded" /\ p \in BankPairs THEN Accepted \cup {p} ELSE Accepted
  BY <1>1, <1>5 DEF Accepted
<1>10. \A x \in attemptLedger.pending : x.intent = i <=> x.pair = p
  BY <1>3, <1>4 DEF p
<1>11. ASSUME NEW q PROVE Unsettled(q)' <=> (Unsettled(q) /\ q # p)
  BY <1>1, <1>10 DEF Unsettled
<1>13. LedgerCounts'
  <2>1. attemptLedger'.reads /\ attemptLedger'.bounded
    BY <1>1, <1>6, <1>7 DEF CollectionInv, LedgerCounts
  <2>2. \A x \in attemptLedger'.pending : x.intent <= attemptLedger'.events
    <3>1. \A x \in attemptLedger.pending : x.intent <= attemptLedger.events /\ x.intent \in Nat
      BY DEF CollectionInv, LedgerCounts, CollectionTyped, Books, Intents
    <3> QED
      BY <1>1, <1>5, <3>1
  <2>3. \A x, y \in attemptLedger'.pending : x.pair = y.pair \/ x.intent = y.intent => x = y
    BY <1>1 DEF CollectionInv, LedgerCounts
  <2>4. ASSUME NEW x \in attemptLedger'.pending
        PROVE  x.pair \notin Accepted' /\ (x.pair = Qualification => ~attemptLedger'.qualified)
    <3>1. x \in attemptLedger.pending /\ x.pair # p
      BY <1>1, <1>10
    <3>2. x.pair \notin Accepted /\ (x.pair = Qualification => ~attemptLedger.qualified)
      BY <3>1 DEF CollectionInv, LedgerCounts
    <3> QED
      BY <1>1, <1>8, <3>1, <3>2
  <2>5. ASSUME NEW q \in Attempted
        PROVE  /\ attemptLedger'.attempts[q] = attemptLedger'.settled[q] + (IF Unsettled(q)' THEN 1 ELSE 0)
               /\ ~Unsettled(q)' => callsMade'[q] = attemptLedger'.attempts[q]
    <3>1. /\ attemptLedger.attempts[q] = attemptLedger.settled[q] + (IF Unsettled(q) THEN 1 ELSE 0)
          /\ ~Unsettled(q) => callsMade[q] = attemptLedger.attempts[q]
          /\ attemptLedger.settled[q] \in Nat /\ callsMade[q] \in Nat
      BY <1>5 DEF CollectionInv, LedgerCounts, CollectionTyped
    <3>2. CASE q = p
      <4>1. Unsettled(p)
        BY <1>6 DEF Unsettled
      <4>2. callsMade[p] + 0 = attemptLedger.attempts[p]
        BY DEF CollectionInv, MemoryAgrees, p
      <4>3. callsMade[p] = attemptLedger.attempts[p]
        BY <3>1, <3>2, <4>2
      <4> QED
        BY <1>1, <1>5, <1>11, <3>1, <3>2, <4>1, <4>3
    <3>3. CASE q # p
      BY <1>1, <1>5, <1>11, <3>1, <3>3
    <3> QED
      BY <3>2, <3>3
  <2>6. attemptLedger'.attempts[Qualification] > 0 =>
          attemptLedger'.qualified \/ attemptLedger'.stopped \/ Unsettled(Qualification)'
    <3>1. attemptLedger.attempts[Qualification] > 0 =>
            attemptLedger.qualified \/ attemptLedger.stopped \/ Unsettled(Qualification)
      BY DEF CollectionInv, LedgerCounts
    <3>2. CASE Qualification = p
      <4>1. o \in {"succeeded", "nonretryable_failure", "unknown"}
        BY <1>2, <3>2 DEF Outcomes
      <4> QED
        BY <1>1, <3>2, <4>1
    <3>3. CASE Qualification # p
      BY <1>1, <1>11, <3>1, <3>3
    <3> QED
      BY <3>2, <3>3
  <2> QED
    BY <2>1, <2>2, <2>3, <2>4, <2>5, <2>6 DEF LedgerCounts
<1> QED
  BY <1>1, <1>7, <1>8, <1>13 DEF p, o

\* When its process goes on, its pair is no longer in flight.
LEMMA SettledKeeps ==
  ASSUME CollectionInv, collectionPc \in CollectionModes, NEW i \in DOMAIN jobs, jobs[i].status # "submitted",
         Settled(i), UNCHANGED callsMade
  PROVE  /\ attemptLedger'.attempts = attemptLedger.attempts /\ attemptLedger'.pending = InFlight'
         /\ Accepted' = IF jobs[i].status = "succeeded" /\ jobs[i].pair \in BankPairs
                        THEN Accepted \cup {jobs[i].pair} ELSE Accepted
         /\ jobs[i].pair \notin Accepted
         /\ \A q : Flying(q)' <=> (Flying(q) /\ q # jobs[i].pair)
<1> DEFINE p == jobs[i].pair
<1>1. /\ attemptLedger'.pending = {x \in attemptLedger.pending : x.intent # i}
      /\ DOMAIN jobs' = DOMAIN jobs \ {i} /\ \A j \in DOMAIN jobs' : jobs'[j] = jobs[j]
  BY SettledMeans, SettlementMeans DEF CollectionInv
<1>2. /\ attemptLedger'.attempts = attemptLedger.attempts
      /\ Accepted' = IF jobs[i].status = "succeeded" /\ p \in BankPairs THEN Accepted \cup {p} ELSE Accepted
      /\ p \notin Accepted
  BY SettledMeans, SettlementKeeps
<1>4. \A j, k \in DOMAIN jobs : jobs[j].pair = jobs[k].pair => j = k
  BY DEF CollectionInv, MemoryAgrees
<1> HIDE DEF p
<1>9. ASSUME NEW q PROVE Flying(q)' <=> (Flying(q) /\ q # p)
  <2>1. \A j \in DOMAIN jobs' : j \in DOMAIN jobs /\ j # i /\ jobs'[j] = jobs[j]
    BY <1>1
  <2>2. \A j \in DOMAIN jobs : j # i => j \in DOMAIN jobs'
    BY <1>1
  <2>3. \A j \in DOMAIN jobs : jobs[j].pair = p <=> j = i
    BY <1>4 DEF p
  <2> QED
    BY <2>1, <2>2, <2>3 DEF Flying
<1>12. attemptLedger'.pending = InFlight'
  <2>1. \A j \in DOMAIN jobs' : j \in DOMAIN jobs /\ j # i /\ jobs'[j].pair = jobs[j].pair
    BY <1>1
  <2>2. \A j \in DOMAIN jobs : j # i => j \in DOMAIN jobs'
    BY <1>1
  <2>3. attemptLedger.pending = {[intent |-> j, pair |-> jobs[j].pair] : j \in DOMAIN jobs}
    BY DEF CollectionInv, MemoryAgrees, InFlight
  <2>4. {x \in attemptLedger.pending : x.intent # i} = {[intent |-> j, pair |-> jobs'[j].pair] : j \in DOMAIN jobs'}
    BY <2>1, <2>2, <2>3
  <2> QED
    BY <1>1, <2>4 DEF InFlight
<1> QED
  BY <1>2, <1>9, <1>12 DEF p

\* What a call does to them.
LEMMA ExecuteKeeps ==
  ASSUME CollectionInv, NEW i \in DOMAIN jobs, Execute(i)
  PROVE  /\ LedgerCounts' /\ collectionPc \in CollectionModes /\ jobs[i].status = "submitted"
         /\ DOMAIN jobs' = DOMAIN jobs
         /\ \A j \in DOMAIN jobs : jobs'[j].pair = jobs[j].pair /\ (j # i => jobs'[j] = jobs[j])
         /\ jobs'[i].status \in Outcomes(jobs[i].pair)
         /\ callsMade' = [callsMade EXCEPT ![jobs[i].pair] = @ + 1]
         /\ callsMade \in [Attempted -> Nat] /\ jobs[i].pair \in Attempted
<1>1. collectionPc \in {"qualifying", "fill", "settle"}
  BY DEF CollectionInv, StageAgrees
<1>2. collectionPc \in CollectionModes
  BY <1>1 DEF CollectionModes
<1>3. PICK o \in Outcomes(jobs[i].pair) : jobs' = [jobs EXCEPT ![i].status = o]
  BY DEF Execute
<1>4. jobs[i].status = "submitted" /\ callsMade' = [callsMade EXCEPT ![jobs[i].pair] = @ + 1] /\ attemptLedger' = attemptLedger
  BY DEF Execute, disk
<1>5. /\ jobs[i].pair \in Attempted /\ callsMade \in [Attempted -> Nat]
      /\ jobs[i] \in [pair : Attempted, status : JobStatuses]
  BY DEF CollectionInv, CollectionTyped
<1>6. /\ DOMAIN jobs' = DOMAIN jobs
      /\ \A j \in DOMAIN jobs : j # i => jobs'[j] = jobs[j]
      /\ jobs'[i].pair = jobs[i].pair /\ jobs'[i].status = o
  BY <1>3, <1>5
<1>7. Unsettled(jobs[i].pair)
  BY <1>2, FlyingIsUnsettled DEF Flying
<1>8. \A q \in Attempted : q # jobs[i].pair => callsMade'[q] = callsMade[q]
  BY <1>4, <1>5
<1>9. LedgerCounts'
  BY <1>4, <1>7, <1>8 DEF CollectionInv, LedgerCounts, Unsettled, Accepted
<1> QED
  BY <1>2, <1>3, <1>4, <1>5, <1>6, <1>9

\* A step leaves the ledger, appends an intent that it may, or a settlement of a
\* request that has ended, or is a call.
LEMMA CollectionSteps ==
  ASSUME CollectionInv, [CollectionNext]_collectionVars
  PROVE  \/ UNCHANGED <<attemptLedger, callsMade>>
         \/ \E p : MayReserve(p) /\ AppendIntent(p) /\ UNCHANGED callsMade
         \/ \E i \in DOMAIN jobs : /\ jobs[i].status # "submitted" /\ Settles(i) /\ UNCHANGED callsMade
                                   /\ collectionPc \in CollectionModes
         \/ \E i \in DOMAIN jobs : Execute(i)
<1>1. CASE UNCHANGED collectionVars \/ PrepareBank \/ Authorize \/ Collect \/ Wait \/ Requeue \/ EndLoop
             \/ StartPaths \/ PublishPath \/ StopPaths
             \/ ClosePaths \/ OpenReport \/ CloseReport \/ PublishBank \/ PublishClosure
  BY <1>1 DEF collectionVars, disk, PrepareBank, Authorize, Collect, Wait, Requeue, EndLoop, StartPaths, PublishPath,
     StopPaths, Publishes, ClosePaths, OpenReport, CloseReport, PublishBank, PublishClosure, World
<1>2. CASE Qualify
  <2>1. CASE CapReached(Qualification)
    BY <1>2, <2>1 DEF Qualify, World, disk
  <2>2. CASE ~CapReached(Qualification)
    <3>1. collectionPc = "qualify" /\ AppendIntent(Qualification) /\ UNCHANGED callsMade
      BY <1>2, <2>2 DEF Qualify, World, ReserveIntent
    <3> QED
      BY <2>2, <3>1, QualifyMayReserve
  <2> QED
    BY <2>1, <2>2
<1>3. CASE Fill
  <2>1. CASE CapReached(Head(queue))
    BY <1>3, <2>1 DEF Fill, World, disk
  <2>2. CASE ~CapReached(Head(queue))
    <3>1. collectionPc = "fill" /\ CanReserve /\ AppendIntent(Head(queue)) /\ UNCHANGED callsMade
      BY <1>3, <2>2 DEF Fill, World, ReserveIntent
    <3> QED
      BY <2>2, <3>1, FillMayReserve
  <2> QED
    BY <2>1, <2>2
<1>4. CASE SettleQualification
  BY <1>4, SettledMeans DEF SettleQualification, World, CollectionModes
<1>5. CASE SettleIntent
  <2>1. done # {} /\ Settles(Min(done)) /\ UNCHANGED callsMade /\ collectionPc = "settle"
    BY <1>5 DEF SettleIntent, World, Settled, Settles
  <2>2. Min(done) \in done
    BY <2>1, LeastDone DEF CollectionInv
  <2>3. collectionPc \in CollectionModes
    BY <2>1 DEF CollectionModes
  <2>4. Min(done) \in DOMAIN jobs /\ jobs[Min(done)].status # "submitted"
    BY <2>2, <2>3 DEF CollectionInv, CollectionTyped, MemoryAgrees
  <2> QED
    BY <2>1, <2>3, <2>4
<1>6. CASE Worker
  BY <1>6 DEF Worker
<1>7. CASE Kill
  <2>1. UNCHANGED callsMade /\ (attemptLedger' = attemptLedger \/ (Appending /\ DueAppend))
    BY <1>7 DEF Kill
  <2>2. CASE Appending /\ DueAppend
    <3>1. CASE collectionPc = "qualify" /\ ~CapReached(Qualification) /\ AppendIntent(Qualification)
      BY <2>1, <3>1, QualifyMayReserve
    <3>2. CASE collectionPc = "fill" /\ CanReserve /\ ~CapReached(Head(queue)) /\ AppendIntent(Head(queue))
      BY <2>1, <3>2, FillMayReserve
    <3>3. ASSUME NEW i \in DOMAIN jobs, Settles(i),
                 \/ collectionPc = "qualifying" /\ jobs[i].status # "submitted"
                 \/ collectionPc = "settle" /\ i \in done
          PROVE  jobs[i].status # "submitted" /\ collectionPc \in CollectionModes
      BY <3>3 DEF CollectionInv, MemoryAgrees, CollectionModes
    <3> QED
      BY <2>1, <2>2, <3>1, <3>2, <3>3, DueMeans DEF CollectionInv
  <2> QED
    BY <2>1, <2>2
<1> QED
  BY <1>1, <1>2, <1>3, <1>4, <1>5, <1>6, <1>7 DEF CollectionNext, Stage

\* Every step keeps the counts and the budgets of the ledger.
LEMMA LedgerCountsStep ==
  ASSUME CollectionInv, [CollectionNext]_collectionVars PROVE LedgerCounts' /\ Budgets'
<1>1. CASE UNCHANGED <<attemptLedger, callsMade>>
  BY <1>1 DEF CollectionInv, LedgerCounts, Budgets, Unsettled, Accepted
<1>2. ASSUME NEW p, MayReserve(p), AppendIntent(p), UNCHANGED callsMade
      PROVE  LedgerCounts' /\ Budgets'
  BY <1>2, IntentKeeps
<1>3. ASSUME NEW i \in DOMAIN jobs, jobs[i].status # "submitted", Settles(i), UNCHANGED callsMade,
             collectionPc \in CollectionModes
      PROVE  LedgerCounts' /\ Budgets'
  <2>1. LedgerCounts' /\ attemptLedger'.attempts = attemptLedger.attempts
    BY <1>3, SettlementKeeps
  <2> QED
    BY <2>1 DEF CollectionInv, Budgets
<1>4. ASSUME NEW i \in DOMAIN jobs, Execute(i) PROVE LedgerCounts' /\ Budgets'
  <2>1. LedgerCounts' /\ attemptLedger' = attemptLedger
    BY <1>4, ExecuteKeeps DEF Execute, disk
  <2> QED
    BY <2>1 DEF CollectionInv, Budgets
<1> QED
  BY <1>1, <1>2, <1>3, <1>4, CollectionSteps

-----------------------------------------------------------------------------
\* Steps of a process that leave the ledger, the calls and its own counts.
Quiet == UNCHANGED <<attemptLedger, jobs, done, attempts, retries, callsMade, clients>>

\* Every step keeps what a process that collects knows of its ledger.
LEMMA MemoryAgreesStep ==
  ASSUME CollectionInv, [CollectionNext]_collectionVars PROVE MemoryAgrees'
<1>1. ASSUME Quiet, collectionPc' \in CollectionModes => collectionPc \in CollectionModes,
             authorized' = authorized, failure => failure'
      PROVE  MemoryAgrees'
  BY <1>1 DEF Quiet, CollectionInv, MemoryAgrees, InFlight
<1>2. CASE collectionPc' \notin CollectionModes
  BY <1>2 DEF MemoryAgrees
<1>3. CASE UNCHANGED collectionVars \/ PrepareBank \/ Requeue \/ EndLoop \/ PublishBank \/ PublishClosure
  BY <1>1, <1>3 DEF Quiet, CollectionModes, collectionVars, disk, memory, PrepareBank, Requeue, EndLoop, PublishBank,
     PublishClosure, World, MoveTo
<1>4. CASE StartPaths \/ PublishPath \/ StopPaths \/ ClosePaths \/ OpenReport \/ CloseReport \/ Kill
  BY <1>2, <1>4 DEF StartPaths, PublishPath, StopPaths, Publishes, ClosePaths, OpenReport, CloseReport,
     Kill, MoveTo, CollectionModes
<1>5. CASE Authorize
  <2>1. /\ UNCHANGED <<attemptLedger, collectionPc, memory, callsMade>> /\ authorized = FALSE /\ authorized' = TRUE
    BY <1>5 DEF Authorize, World, CollectionInv, CollectionTyped
  <2>2. collectionPc \in CollectionModes => clients \in 1 .. (IF authorized' THEN Transports ELSE 1)
    BY <2>1, CollectionAssumption DEF CollectionInv, MemoryAgrees
  <2> QED
    BY <2>1, <2>2 DEF CollectionInv, MemoryAgrees, memory, InFlight
<1>6. CASE Collect
  <2>1. /\ UNCHANGED <<attemptLedger, authorized, callsMade>> /\ jobs' = <<>> /\ done' = {}
        /\ attempts' = attemptLedger.attempts /\ retries' = Retried(attemptLedger.attempts) /\ Readable
        /\ clients' \in 1 .. (IF authorized THEN Transports ELSE 1)
    BY <1>6 DEF Collect, Rebuilt, disk
  <2>2. DOMAIN jobs' = {}
    BY <2>1
  <2>3. attemptLedger'.pending = {} /\ ~attemptLedger'.stopped
    BY <2>1 DEF Readable
  <2>4. InFlight' = {}
    BY <2>2 DEF InFlight
  <2>5. Cardinality(DOMAIN jobs') <= clients'
    <3>1. Cardinality(DOMAIN jobs') = 0
      BY <2>2, FS_EmptySet, Zenon
    <3> QED
      BY <2>1, <3>1, CollectionAssumption
  <2> QED
    BY <2>1, <2>2, <2>3, <2>4, <2>5 DEF MemoryAgrees
<1>7. ASSUME NEW p, MayReserve(p), ReserveIntent(p), UNCHANGED <<callsMade, clients, done, authorized>>,
             failure' = failure
      PROVE  MemoryAgrees'
  <2>1. /\ attemptLedger'.pending = InFlight' /\ Cardinality(DOMAIN jobs') <= clients
        /\ attempts' = attemptLedger'.attempts /\ retries' = Retried(attemptLedger'.attempts)
        /\ attemptLedger.events + 1 \notin DOMAIN jobs
    BY <1>7, ReserveKeeps
  <2>2. collectionPc \in CollectionModes /\ ~Unsettled(p) /\ p \in Attempted /\ ~attemptLedger.stopped /\ done = {}
    BY <1>7 DEF MayReserve, CollectionModes, CollectionInv, CollectionTyped
  <2>3. \A j \in DOMAIN jobs : jobs[j].pair # p
    BY <2>2, FlyingIsUnsettled DEF Flying
  <2>4. /\ DOMAIN jobs' = DOMAIN jobs \cup {attemptLedger.events + 1}
        /\ \A i \in DOMAIN jobs' :
             jobs'[i] = IF i \in DOMAIN jobs THEN jobs[i] ELSE [pair |-> p, status |-> "submitted"]
        /\ attemptLedger'.attempts = [attemptLedger.attempts EXCEPT ![p] = @ + 1] /\ attemptLedger'.stopped = attemptLedger.stopped
    BY <1>7, <2>2, ReserveMeans, IntentMeans DEF CollectionInv
  <2>5. \A i, j \in DOMAIN jobs' : jobs'[i].pair = jobs'[j].pair => i = j
    BY <2>2, <2>3, <2>4 DEF CollectionInv, MemoryAgrees
  <2>6. ASSUME NEW j \in DOMAIN jobs'
        PROVE  callsMade'[jobs'[j].pair] + (IF jobs'[j].status = "submitted" THEN 1 ELSE 0)
                 = attemptLedger'.attempts[jobs'[j].pair]
    <3>1. attemptLedger.attempts \in [Attempted -> Nat] /\ callsMade \in [Attempted -> Nat]
      BY MemoryTypes DEF CollectionInv, CollectionTyped
    <3>2. CASE j \in DOMAIN jobs
      <4>1. jobs'[j] = jobs[j] /\ jobs[j].pair # p /\ jobs[j].pair \in Attempted
        BY <2>3, <2>4, <3>2 DEF CollectionInv, CollectionTyped
      <4>2. callsMade[jobs[j].pair] + (IF jobs[j].status = "submitted" THEN 1 ELSE 0)
              = attemptLedger.attempts[jobs[j].pair]
        BY <2>2, <3>2 DEF CollectionInv, MemoryAgrees
      <4> QED
        BY <1>7, <2>4, <3>1, <4>1, <4>2
    <3>3. CASE j \notin DOMAIN jobs
      <4>1. jobs'[j].pair = p /\ jobs'[j].status = "submitted"
        BY <2>4, <3>3
      <4>2. callsMade[p] = attemptLedger.attempts[p]
        BY <2>2 DEF CollectionInv, LedgerCounts
      <4> QED
        BY <1>7, <2>2, <2>4, <3>1, <4>1, <4>2
    <3> QED
      BY <3>2, <3>3
  <2>7. clients' \in 1 .. (IF authorized' THEN Transports ELSE 1) /\ done' = {}
        /\ ~attemptLedger'.stopped
    BY <1>7, <2>2, <2>4 DEF CollectionInv, MemoryAgrees
  <2>8. Cardinality(DOMAIN jobs') <= clients'
    BY <1>7, <2>1
  <2> QED
    BY <2>1, <2>5, <2>6, <2>7, <2>8 DEF MemoryAgrees
<1>8. ASSUME NEW i \in DOMAIN jobs, jobs[i].status # "submitted", Settled(i), collectionPc \in CollectionModes,
             UNCHANGED <<callsMade, clients, attempts, retries>>, done' \subseteq done, i \notin done',
             attemptLedger'.stopped => failure'
      PROVE  MemoryAgrees'
  <2>1. /\ attemptLedger'.attempts = attemptLedger.attempts /\ attemptLedger'.pending = InFlight'
    BY <1>8, SettledKeeps
  <2>2. /\ DOMAIN jobs' = DOMAIN jobs \ {i} /\ \A j \in DOMAIN jobs' : jobs'[j] = jobs[j]
        /\ UNCHANGED authorized
    BY <1>8, SettledMeans, SettlementMeans DEF CollectionInv
  <2>3. Cardinality(DOMAIN jobs') <= clients'
    <3>1. IsFiniteSet(DOMAIN jobs) /\ clients \in Nat /\ Cardinality(DOMAIN jobs) <= clients
      BY <1>8 DEF CollectionInv, CollectionTyped, MemoryAgrees
    <3>2. DOMAIN jobs \ {i} \subseteq DOMAIN jobs
      OBVIOUS
    <3>3. IsFiniteSet(DOMAIN jobs \ {i}) /\ Cardinality(DOMAIN jobs \ {i}) <= Cardinality(DOMAIN jobs)
      BY <3>1, <3>2, FS_Subset
    <3>4. Cardinality(DOMAIN jobs \ {i}) \in Nat /\ Cardinality(DOMAIN jobs) \in Nat
      BY <3>1, <3>3, FS_CardinalityType
    <3>5. Cardinality(DOMAIN jobs \ {i}) <= clients'
      BY <1>8, <3>1, <3>3, <3>4
    <3> QED
      BY <2>2, <3>5, Zenon
  <2>4. /\ \A j, k \in DOMAIN jobs' : jobs'[j].pair = jobs'[k].pair => j = k
        /\ \A j \in DOMAIN jobs' :
             callsMade'[jobs'[j].pair] + (IF jobs'[j].status = "submitted" THEN 1 ELSE 0)
               = attemptLedger'.attempts[jobs'[j].pair]
        /\ \A j \in done' : jobs'[j].status # "submitted"
    BY <1>8, <2>1, <2>2 DEF CollectionInv, CollectionTyped, MemoryAgrees
  <2>5. /\ attempts' = attemptLedger'.attempts /\ retries' = Retried(attemptLedger'.attempts)
        /\ clients' \in 1 .. (IF authorized' THEN Transports ELSE 1)
    BY <1>8, <2>1, <2>2 DEF CollectionInv, MemoryAgrees
  <2> QED
    BY <1>8, <2>1, <2>3, <2>4, <2>5 DEF MemoryAgrees
<1>9. CASE Qualify
  <2>1. CASE CapReached(Qualification)
    BY <1>2, <1>9, <2>1 DEF Qualify, MoveTo, CollectionModes
  <2>2. CASE ~CapReached(Qualification)
    <3>1. collectionPc = "qualify" /\ ReserveIntent(Qualification) /\ UNCHANGED <<callsMade, clients, done, failure>>
      BY <1>9, <2>2 DEF Qualify, World
    <3>2. UNCHANGED authorized
      BY <3>1 DEF ReserveIntent, OthersUnchanged
    <3> QED
      BY <1>7, <2>2, <3>1, <3>2, QualifyMayReserve
  <2> QED
    BY <2>1, <2>2
<1>10. CASE Fill
  <2>1. CASE CapReached(Head(queue))
    BY <1>1, <1>10, <2>1 DEF Fill, Quiet, World, disk
  <2>2. CASE ~CapReached(Head(queue))
    <3>1. collectionPc = "fill" /\ CanReserve /\ ReserveIntent(Head(queue)) /\ UNCHANGED <<callsMade, clients, done, failure>>
      BY <1>10, <2>2 DEF Fill, World
    <3>2. UNCHANGED authorized
      BY <3>1 DEF ReserveIntent, OthersUnchanged
    <3> QED
      BY <1>7, <2>2, <3>1, <3>2, FillMayReserve
  <2> QED
    BY <2>1, <2>2
<1>11. CASE SettleQualification
  <2>1. PICK i \in DOMAIN jobs : /\ jobs[i].status # "submitted" /\ Settled(i)
                                 /\ collectionPc' = IF jobs[i].status = "succeeded" THEN "fill" ELSE "down"
    BY <1>11 DEF SettleQualification, MoveTo
  <2>2. collectionPc = "qualifying" /\ UNCHANGED <<callsMade, clients, attempts, retries, done>> /\ done = {}
    BY <1>11 DEF SettleQualification, World, CollectionInv, CollectionTyped
  <2>3. CASE jobs[i].status = "succeeded"
    <3>1. attemptLedger'.stopped = (attemptLedger.stopped \/ jobs[i].status \in {"nonretryable_failure", "unknown"})
      BY <2>1, SettledMeans, SettlementMeans DEF CollectionInv
    <3>2. ~attemptLedger'.stopped /\ collectionPc \in CollectionModes
      BY <2>2, <2>3, <3>1 DEF CollectionInv, StageAgrees, CollectionModes
    <3> QED
      BY <1>8, <2>1, <2>2, <3>2
  <2>4. CASE jobs[i].status # "succeeded"
    BY <1>2, <2>1, <2>4 DEF CollectionModes
  <2> QED
    BY <2>3, <2>4
<1>12. CASE Wait
  <2>1. /\ UNCHANGED <<attemptLedger, authorized, jobs, attempts, retries, callsMade, clients, failure>>
        /\ done' = {i \in DOMAIN jobs : jobs[i].status # "submitted"} /\ collectionPc = "fill"
    BY <1>12 DEF Wait, World, disk
  <2> QED
    BY <2>1 DEF CollectionInv, MemoryAgrees, InFlight, CollectionModes
<1>13. CASE SettleIntent
  <2> DEFINE i == Min(done)
  <2>1. /\ Settled(i) /\ done' = done \ {i} /\ done # {} /\ collectionPc = "settle"
        /\ failure' = (failure \/ jobs[i].status \in {"nonretryable_failure", "unknown"})
        /\ UNCHANGED <<clients, attempts, retries, callsMade>>
    BY <1>13 DEF SettleIntent, World
  <2>2. i \in done
    BY <2>1, LeastDone DEF CollectionInv
  <2> HIDE DEF i
  <2>3. collectionPc \in CollectionModes
    BY <2>1 DEF CollectionModes
  <2>4. i \in DOMAIN jobs /\ jobs[i].status # "submitted"
    BY <2>2, <2>3 DEF CollectionInv, CollectionTyped, MemoryAgrees
  <2>5. attemptLedger'.stopped = (attemptLedger.stopped \/ jobs[i].status \in {"nonretryable_failure", "unknown"})
    BY <2>1, <2>4, SettledMeans, SettlementMeans DEF CollectionInv
  <2>6. attemptLedger'.stopped => failure'
    BY <2>1, <2>3, <2>5 DEF CollectionInv, MemoryAgrees
  <2> QED
    BY <1>8, <2>1, <2>3, <2>4, <2>6
<1>14. ASSUME NEW i \in DOMAIN jobs, Execute(i) PROVE MemoryAgrees'
  <2>1. /\ collectionPc \in CollectionModes /\ jobs[i].status = "submitted" /\ DOMAIN jobs' = DOMAIN jobs
        /\ \A j \in DOMAIN jobs : jobs'[j].pair = jobs[j].pair /\ (j # i => jobs'[j] = jobs[j])
        /\ jobs'[i].status \in Outcomes(jobs[i].pair)
        /\ callsMade' = [callsMade EXCEPT ![jobs[i].pair] = @ + 1]
        /\ callsMade \in [Attempted -> Nat] /\ jobs[i].pair \in Attempted
    BY <1>14, ExecuteKeeps
  <2>2. UNCHANGED <<attemptLedger, authorized, clients, done, attempts, retries, failure>>
    BY <1>14 DEF Execute, disk
  <2>3. jobs'[i].status # "submitted"
    BY <2>1 DEF Outcomes
  <2>4. InFlight' = InFlight
    BY <2>1 DEF InFlight
  <2>5. ASSUME NEW j \in DOMAIN jobs
        PROVE  callsMade'[jobs'[j].pair] + (IF jobs'[j].status = "submitted" THEN 1 ELSE 0)
                 = attemptLedger.attempts[jobs'[j].pair]
    <3>1. /\ callsMade[jobs[j].pair] + (IF jobs[j].status = "submitted" THEN 1 ELSE 0)
               = attemptLedger.attempts[jobs[j].pair]
          /\ (j # i => jobs[j].pair # jobs[i].pair) /\ jobs[j].pair \in Attempted
      BY <2>1 DEF CollectionInv, MemoryAgrees, CollectionTyped
    <3>2. CASE j = i
      BY <2>1, <2>3, <3>1, <3>2
    <3>3. CASE j # i
      BY <2>1, <3>1, <3>3
    <3> QED
      BY <3>2, <3>3
  <2>6. Cardinality(DOMAIN jobs') <= clients'
    BY <2>1, <2>2 DEF CollectionInv, MemoryAgrees
  <2>7. \A j \in done' : jobs'[j].status # "submitted"
    <3>1. \A j \in done : j \in DOMAIN jobs /\ jobs[j].status # "submitted"
      BY <2>1 DEF CollectionInv, MemoryAgrees, CollectionTyped
    <3> QED
      BY <2>1, <2>2, <2>3, <3>1
  <2> QED
    BY <2>1, <2>2, <2>4, <2>5, <2>6, <2>7 DEF CollectionInv, MemoryAgrees
<1> QED
  BY <1>3, <1>4, <1>5, <1>6, <1>9, <1>10, <1>11, <1>12, <1>13, <1>14 DEF CollectionNext, Stage, Worker

\* Every step leads from one stage of a collection to one that may follow it.
LEMMA StageAgreesStep ==
  ASSUME CollectionInv, [CollectionNext]_collectionVars PROVE StageAgrees'
<1>1. ASSUME UNCHANGED <<attemptLedger, jobs, failure, retry, bank>>, collectionPc' = collectionPc \/ (collectionPc' \in PathModes /\ DOMAIN jobs = {})
      PROVE  StageAgrees'
  BY <1>1 DEF CollectionInv, StageAgrees, Accepted, PathModes
<1>2. CASE UNCHANGED collectionVars \/ Authorize \/ PrepareBank \/ PublishPath
  <2>1. UNCHANGED <<attemptLedger, jobs, failure, retry, bank, collectionPc>>
    BY <1>2 DEF collectionVars, disk, memory, Authorize, PrepareBank, PublishPath
  <2> QED
    BY <1>1, <2>1
<1>3. CASE StartPaths \/ StopPaths \/ ClosePaths \/ OpenReport \/ CloseReport
  <2>1. collectionPc \in PathModes /\ collectionPc' \in PathModes /\ UNCHANGED <<attemptLedger, jobs, failure, retry, bank>>
    BY <1>3 DEF StartPaths, StopPaths, Publishes, ClosePaths, OpenReport, CloseReport, PathModes, MoveTo,
       disk, memory
  <2>2. DOMAIN jobs = {}
    BY <2>1 DEF PathModes, CollectionInv, StageAgrees
  <2> QED
    BY <1>1, <2>1, <2>2
<1>4. CASE Kill
  <2>1. jobs' = <<>> /\ collectionPc' = "down"
    BY <1>4 DEF Kill, MoveTo
  <2>2. DOMAIN jobs' = {}
    BY <2>1
  <2> QED
    BY <2>1, <2>2 DEF StageAgrees
<1>5. CASE Collect
  <2>1. /\ jobs' = <<>> /\ attemptLedger' = attemptLedger /\ Readable /\ failure' = FALSE /\ retry' = <<>>
        /\ collectionPc' = IF attemptLedger.qualified THEN "fill" ELSE "qualify"
    BY <1>5 DEF Collect, MoveTo, disk
  <2>2. DOMAIN jobs' = {} /\ ~attemptLedger.stopped
    BY <2>1 DEF Readable
  <2> QED
    BY <2>1, <2>2 DEF StageAgrees
<1>6. CASE Qualify
  <2>1. /\ collectionPc = "qualify" /\ DOMAIN jobs = {} /\ ~attemptLedger.qualified /\ ~failure /\ retry = <<>> /\ ~attemptLedger.stopped
        /\ UNCHANGED <<failure, retry>>
    BY <1>6 DEF Qualify, CollectionInv, StageAgrees
  <2>2. CASE CapReached(Qualification)
    <3>1. UNCHANGED <<attemptLedger, jobs, failure, retry, bank>> /\ collectionPc' = "down"
      BY <1>6, <2>2 DEF Qualify, MoveTo, disk
    <3> QED
      BY <1>1, <2>1, <3>1 DEF PathModes
  <2>3. CASE ~CapReached(Qualification)
    <3>1. ReserveIntent(Qualification) /\ collectionPc' = "qualifying"
      BY <1>6, <2>3 DEF Qualify, MoveTo
    <3>2. /\ attemptLedger'.qualified = attemptLedger.qualified /\ attemptLedger'.stopped = attemptLedger.stopped
          /\ DOMAIN jobs' = DOMAIN jobs \cup {attemptLedger.events + 1}
          /\ \A i \in DOMAIN jobs' :
               jobs'[i] = IF i \in DOMAIN jobs THEN jobs[i] ELSE [pair |-> Qualification, status |-> "submitted"]
      BY <3>1, AttemptedFinite, ReserveMeans, IntentMeans DEF CollectionInv
    <3>3. \A i \in DOMAIN jobs' : jobs'[i].pair = Qualification /\ jobs'[i].status = "submitted"
      BY <2>1, <3>2
    <3> QED
      BY <2>1, <3>1, <3>2, <3>3 DEF StageAgrees
  <2> QED
    BY <2>2, <2>3
<1>7. CASE SettleQualification
  <2>1. PICK i \in DOMAIN jobs : /\ jobs[i].status # "submitted" /\ Settled(i)
                                 /\ collectionPc' = IF jobs[i].status = "succeeded" THEN "fill" ELSE "down"
    BY <1>7 DEF SettleQualification, MoveTo
  <2>2. collectionPc = "qualifying" /\ \A j \in DOMAIN jobs : jobs[j].pair = Qualification
    BY <1>7 DEF SettleQualification, CollectionInv, StageAgrees
  <2>3. \A j \in DOMAIN jobs : j = i
    BY <2>2 DEF CollectionInv, MemoryAgrees, CollectionModes
  <2>4. DOMAIN jobs' = {}
    BY <2>1, <2>3, SettledMeans, SettlementMeans DEF CollectionInv
  <2>5. attemptLedger'.qualified = (attemptLedger.qualified \/ (jobs[i].status = "succeeded" /\ jobs[i].pair = Qualification))
    BY <2>1, SettledMeans, SettlementMeans DEF CollectionInv
  <2> QED
    BY <2>1, <2>2, <2>4, <2>5 DEF StageAgrees
<1>8. CASE Fill
  <2>1. collectionPc = "fill" /\ collectionPc' = collectionPc /\ UNCHANGED retry
    BY <1>8 DEF Fill
  <2>2. CASE CapReached(Head(queue))
    <3>1. UNCHANGED <<attemptLedger, jobs, bank>>
      BY <1>8, <2>2 DEF Fill, disk
    <3> QED
      BY <2>1, <3>1 DEF CollectionInv, StageAgrees, Accepted
  <2>3. CASE ~CapReached(Head(queue))
    <3>1. ReserveIntent(Head(queue)) /\ CanReserve
      BY <1>8, <2>3 DEF Fill
    <3>2. Head(queue) \in BankPairs /\ Head(queue) \in Attempted
      BY <2>1, <2>3, <3>1, FillMayReserve, AttemptedFinite
    <3>3. /\ attemptLedger'.qualified = attemptLedger.qualified
          /\ DOMAIN jobs' = DOMAIN jobs \cup {attemptLedger.events + 1}
          /\ \A i \in DOMAIN jobs' :
               jobs'[i] = IF i \in DOMAIN jobs THEN jobs[i] ELSE [pair |-> Head(queue), status |-> "submitted"]
      BY <3>1, <3>2, ReserveMeans, IntentMeans DEF CollectionInv
    <3>4. \A i \in DOMAIN jobs' : /\ jobs'[i].pair \in BankPairs
                                  /\ jobs'[i].status \in Outcomes(jobs'[i].pair) \cup {"submitted"}
      BY <2>1, <3>2, <3>3 DEF CollectionInv, StageAgrees
    <3>5. attemptLedger.qualified
      BY <2>1 DEF CollectionInv, StageAgrees
    <3> QED
      BY <2>1, <3>3, <3>4, <3>5 DEF StageAgrees
  <2> QED
    BY <2>2, <2>3
<1>9. CASE Wait \/ Requeue
  <2>1. collectionPc \in {"fill", "settle"} /\ collectionPc' \in {"fill", "settle"} /\ UNCHANGED <<attemptLedger, jobs, bank>>
    BY <1>9 DEF Wait, Requeue, MoveTo, disk
  <2> QED
    BY <2>1 DEF CollectionInv, StageAgrees, Accepted
<1>10. CASE SettleIntent
  <2> DEFINE i == Min(done)
  <2>1. Settled(i) /\ done # {} /\ collectionPc = "settle" /\ collectionPc' = collectionPc
    BY <1>10 DEF SettleIntent
  <2>2. i \in done
    BY <2>1, LeastDone DEF CollectionInv
  <2> HIDE DEF i
  <2>3. i \in DOMAIN jobs
    BY <2>2 DEF CollectionInv, CollectionTyped
  <2>4. /\ DOMAIN jobs' = DOMAIN jobs \ {i} /\ \A j \in DOMAIN jobs' : jobs'[j] = jobs[j]
        /\ attemptLedger'.qualified = (attemptLedger.qualified \/ (jobs[i].status = "succeeded" /\ jobs[i].pair = Qualification))
    BY <2>1, <2>3, SettledMeans, SettlementMeans DEF CollectionInv
  <2> QED
    BY <2>1, <2>4 DEF CollectionInv, StageAgrees
<1>11. CASE EndLoop
  <2>1. /\ collectionPc = "fill" /\ DOMAIN jobs = {} /\ UNCHANGED <<attemptLedger, jobs, failure, retry, bank>>
        /\ collectionPc' = IF ~failure /\ Accepted = BankPairs THEN "publish" ELSE "down"
    BY <1>11 DEF EndLoop, Drained, MoveTo, disk, memory
  <2>2. attemptLedger.qualified /\ (attemptLedger.stopped => failure)
    BY <2>1 DEF CollectionInv, StageAgrees, MemoryAgrees, CollectionModes
  <2> QED
    BY <2>1, <2>2 DEF StageAgrees, Accepted
<1>12. CASE PublishBank
  <2>1. collectionPc = "publish" /\ collectionPc' = "close" /\ bank' = attemptLedger.source /\ UNCHANGED <<attemptLedger, jobs>>
    BY <1>12 DEF PublishBank, MoveTo, memory
  <2> QED
    BY <2>1 DEF CollectionInv, StageAgrees, Accepted
<1>13. CASE PublishClosure
  <2>1. collectionPc = "close" /\ collectionPc' = "down" /\ UNCHANGED <<attemptLedger, jobs, failure, retry, bank>>
    BY <1>13 DEF PublishClosure, MoveTo, memory
  <2>2. DOMAIN jobs = {}
    BY <2>1 DEF CollectionInv, StageAgrees
  <2> QED
    BY <1>1, <2>1, <2>2 DEF PathModes
<1>14. ASSUME NEW i \in DOMAIN jobs, Execute(i) PROVE StageAgrees'
  <2>1. /\ DOMAIN jobs' = DOMAIN jobs
        /\ \A j \in DOMAIN jobs : jobs'[j].pair = jobs[j].pair /\ (j # i => jobs'[j] = jobs[j])
        /\ jobs'[i].status \in Outcomes(jobs[i].pair)
    BY <1>14, ExecuteKeeps
  <2>2. UNCHANGED <<attemptLedger, collectionPc, failure, retry, bank>>
    BY <1>14 DEF Execute, disk
  <2> QED
    BY <2>1, <2>2 DEF CollectionInv, StageAgrees, Accepted
<1> QED
  BY <1>2, <1>3, <1>4, <1>5, <1>6, <1>7, <1>8, <1>9, <1>10, <1>11, <1>12, <1>13, <1>14
  DEF CollectionNext, Stage, Worker

-----------------------------------------------------------------------------
\* The queue without its head.
LEMMA TailMeans ==
  ASSUME queue \in Seq(BankPairs), queue # <<>>
  PROVE  /\ \A k \in DOMAIN Tail(queue) :
              k \in Nat /\ k + 1 \in DOMAIN queue /\ k + 1 # 1 /\ Tail(queue)[k] = queue[k + 1]
         /\ Head(queue) = queue[1] /\ 1 \in DOMAIN queue
OBVIOUS

\* Every step keeps the pairs that wait open, each waiting once.
LEMMA QueueAgreesStep ==
  ASSUME CollectionInv, [CollectionNext]_collectionVars PROVE QueueAgrees'
<1>0. queue \in Seq(BankPairs) /\ retry \in Seq(BankPairs)
  BY DEF CollectionInv, CollectionTyped
<1>1. ASSUME collectionPc' \in CollectionModes => collectionPc \in CollectionModes, UNCHANGED <<queue, retry>>,
             Accepted' = Accepted, \A p \in BankPairs : Flying(p)' => Flying(p)
      PROVE  QueueAgrees'
  <2>1. (\A k \in DOMAIN queue : queue[k] \in BankPairs) /\ (\A k \in DOMAIN retry : retry[k] \in BankPairs)
    BY <1>0
  <2> QED
    BY <1>1, <2>1 DEF CollectionInv, QueueAgrees
<1>2. CASE collectionPc' \notin CollectionModes
  BY <1>2 DEF QueueAgrees
<1>3. CASE UNCHANGED collectionVars \/ PrepareBank \/ EndLoop \/ PublishBank \/ PublishClosure \/ Authorize \/ Wait
  <2>1. (collectionPc' \in CollectionModes => collectionPc \in CollectionModes) /\ UNCHANGED <<attemptLedger, jobs, queue, retry>>
    BY <1>3 DEF CollectionModes, collectionVars, disk, memory, PrepareBank, EndLoop, PublishBank,
       PublishClosure, Authorize, Wait, World, MoveTo
  <2> QED
    BY <1>1, <2>1 DEF Accepted, Flying
<1>4. CASE StartPaths \/ PublishPath \/ StopPaths \/ ClosePaths \/ OpenReport \/ CloseReport \/ Kill
  BY <1>2, <1>4 DEF StartPaths, PublishPath, StopPaths, Publishes, ClosePaths, OpenReport, CloseReport,
     Kill, MoveTo, CollectionModes
<1>5. CASE Collect
  <2>1. queue' = InOrder(BankPairs \ Accepted) /\ retry' = <<>> /\ jobs' = <<>> /\ attemptLedger' = attemptLedger
    BY <1>5 DEF Collect, disk
  <2>2. DOMAIN jobs' = {} /\ DOMAIN retry' = {} /\ Accepted' = Accepted
    BY <2>1 DEF Accepted
  <2>3. /\ \A i, j \in DOMAIN queue' : queue'[i] = queue'[j] => i = j
        /\ \A i \in DOMAIN queue' : queue'[i] \notin Accepted
    BY <2>1, OpenPairs
  <2> QED
    BY <2>2, <2>3 DEF QueueAgrees, Flying
<1>6. CASE Qualify
  <2>1. CASE CapReached(Qualification)
    BY <1>2, <1>6, <2>1 DEF Qualify, MoveTo, CollectionModes
  <2>2. CASE ~CapReached(Qualification)
    <3>1. collectionPc = "qualify" /\ ReserveIntent(Qualification) /\ UNCHANGED <<callsMade, clients, queue, retry>>
      BY <1>6, <2>2 DEF Qualify, World
    <3>2. Accepted' = Accepted /\ \A q : Flying(q)' <=> (Flying(q) \/ q = Qualification)
      BY <2>2, <3>1, QualifyMayReserve, ReserveKeeps
    <3> QED
      BY <1>1, <3>1, <3>2, AttemptedFinite DEF CollectionModes
  <2> QED
    BY <2>1, <2>2
<1>7. CASE SettleQualification
  <2>1. PICK i \in DOMAIN jobs : jobs[i].status # "submitted" /\ Settled(i)
    BY <1>7 DEF SettleQualification
  <2>2. collectionPc = "qualifying" /\ jobs[i].pair = Qualification /\ UNCHANGED <<callsMade, queue, retry>>
    BY <1>7 DEF SettleQualification, World, CollectionInv, StageAgrees
  <2>3. collectionPc \in CollectionModes
    BY <2>2 DEF CollectionModes
  <2>4. Accepted' = Accepted /\ \A q : Flying(q)' => Flying(q)
    BY <2>1, <2>2, <2>3, SettledKeeps, AttemptedFinite
  <2> QED
    BY <1>1, <2>2, <2>3, <2>4
<1>8. CASE Fill
  <2>1. /\ collectionPc = "fill" /\ CanReserve /\ queue' = Tail(queue) /\ queue # <<>> /\ UNCHANGED <<callsMade, clients, retry>>
    BY <1>8 DEF Fill, CanReserve, World
  <2>2. /\ \A i, j \in DOMAIN queue : queue[i] = queue[j] => i = j
        /\ \A i, j \in DOMAIN retry : retry[i] = retry[j] => i = j
        /\ \A i \in DOMAIN queue : \A j \in DOMAIN retry : queue[i] # retry[j]
        /\ \A i \in DOMAIN queue : queue[i] \notin Accepted /\ ~Flying(queue[i])
        /\ \A i \in DOMAIN retry : retry[i] \notin Accepted /\ ~Flying(retry[i])
    BY <2>1 DEF CollectionInv, QueueAgrees, CollectionModes
  <2>3. /\ \A k \in DOMAIN queue' :
             k \in Nat /\ k + 1 \in DOMAIN queue /\ k + 1 # 1 /\ queue'[k] = queue[k + 1]
        /\ Head(queue) = queue[1] /\ 1 \in DOMAIN queue
    BY <1>0, <2>1, TailMeans
  <2>4. \A i, j \in DOMAIN queue' : queue'[i] = queue'[j] => i = j
    <3> SUFFICES ASSUME NEW i \in DOMAIN queue', NEW j \in DOMAIN queue', queue'[i] = queue'[j] PROVE i = j
      OBVIOUS
    <3>1. i + 1 = j + 1 /\ i \in Nat /\ j \in Nat
      BY <2>2, <2>3
    <3> QED
      BY <3>1
  <2>5. Accepted' = Accepted /\ \A q : Flying(q)' => (Flying(q) \/ q = Head(queue))
    <3>1. CASE CapReached(Head(queue))
      BY <1>8, <3>1 DEF Fill, disk, Accepted, Flying
    <3>2. CASE ~CapReached(Head(queue))
      <4>1. ReserveIntent(Head(queue))
        BY <1>8, <3>2 DEF Fill
      <4> QED
        BY <2>1, <3>2, <4>1, FillMayReserve, ReserveKeeps
    <3> QED
      BY <3>1, <3>2
  <2>6. \A k \in DOMAIN queue' : queue'[k] # Head(queue)
    BY <2>2, <2>3
  <2>7. \A k \in DOMAIN retry : retry[k] # Head(queue)
    BY <2>2, <2>3
  <2> QED
    BY <2>1, <2>2, <2>3, <2>4, <2>5, <2>6, <2>7 DEF QueueAgrees
<1>9. CASE Requeue
  <2>1. /\ collectionPc = "settle" /\ UNCHANGED <<attemptLedger, jobs>> /\ retry' = <<>>
        /\ (queue' = queue \/ queue' = Reverse(retry) \o queue)
    BY <1>9 DEF Requeue, disk
  <2>2. /\ \A i, j \in DOMAIN queue : queue[i] = queue[j] => i = j
        /\ \A i, j \in DOMAIN retry : retry[i] = retry[j] => i = j
        /\ \A i \in DOMAIN queue : \A j \in DOMAIN retry : queue[i] # retry[j]
        /\ \A i \in DOMAIN queue : queue[i] \notin Accepted /\ ~Flying(queue[i])
        /\ \A i \in DOMAIN retry : retry[i] \notin Accepted /\ ~Flying(retry[i])
    BY <2>1 DEF CollectionInv, QueueAgrees, CollectionModes
  <2>3. DOMAIN retry' = {} /\ Accepted' = Accepted /\ \A q : Flying(q)' <=> Flying(q)
    BY <2>1 DEF Accepted, Flying
  <2>4. CASE queue' = queue
    BY <2>2, <2>3, <2>4 DEF QueueAgrees
  <2>5. CASE queue' = Reverse(retry) \o queue
    <3> DEFINE r == Reverse(retry) \o queue
    <3>1. /\ \A i \in DOMAIN r :
               \/ Len(retry) - i + 1 \in DOMAIN retry /\ r[i] = retry[Len(retry) - i + 1] /\ i <= Len(retry)
               \/ i - Len(retry) \in DOMAIN queue /\ r[i] = queue[i - Len(retry)] /\ i > Len(retry)
          /\ \A i \in DOMAIN r : i \in Nat
      BY <1>0, InFront
    <3>2. Len(retry) \in Nat
      BY <1>0
    <3> HIDE DEF r
    <3>3. ASSUME NEW i \in DOMAIN r, NEW j \in DOMAIN r, r[i] = r[j] PROVE i = j
      <4>1. i \in Nat /\ j \in Nat
        BY <3>1
      <4>2. \/ Len(retry) - i + 1 = Len(retry) - j + 1
            \/ i - Len(retry) = j - Len(retry)
        BY <2>2, <3>1, <3>3
      <4> QED
        BY <3>2, <4>1, <4>2
    <3>4. \A i \in DOMAIN r : r[i] \notin Accepted /\ ~Flying(r[i])
      BY <2>2, <3>1
    <3>5. queue' = r
      BY <2>5 DEF r
    <3> QED
      BY <2>3, <3>3, <3>4, <3>5 DEF QueueAgrees
  <2> QED
    BY <2>1, <2>4, <2>5
<1>10. CASE SettleIntent
  <2> DEFINE i == Min(done)
  <2>1. /\ Settled(i) /\ done # {} /\ collectionPc = "settle" /\ collectionPc' = collectionPc /\ queue' = queue /\ UNCHANGED callsMade
        /\ retry' = IF jobs[i].status = "retryable_failure" THEN Append(retry, jobs[i].pair) ELSE retry
    BY <1>10 DEF SettleIntent, World
  <2>2. i \in done
    BY <2>1, LeastDone DEF CollectionInv
  <2> HIDE DEF i
  <2>3. collectionPc \in CollectionModes
    BY <2>1 DEF CollectionModes
  <2>4. i \in DOMAIN jobs /\ jobs[i].status # "submitted" /\ jobs[i].pair \in BankPairs
    BY <2>1, <2>2, <2>3 DEF CollectionInv, CollectionTyped, MemoryAgrees, StageAgrees
  <2>a. PICK p \in BankPairs : p = jobs[i].pair
    BY <2>4
  <2>5. /\ Accepted' = IF jobs[i].status = "succeeded" THEN Accepted \cup {p} ELSE Accepted
        /\ p \notin Accepted /\ \A q : Flying(q)' <=> (Flying(q) /\ q # p)
    BY <2>1, <2>3, <2>4, <2>a, SettledKeeps
  <2>6. Flying(p)
    BY <2>4, <2>a DEF Flying
  <2>7. /\ \A k, j \in DOMAIN queue : queue[k] = queue[j] => k = j
        /\ \A k, j \in DOMAIN retry : retry[k] = retry[j] => k = j
        /\ \A k \in DOMAIN queue : \A j \in DOMAIN retry : queue[k] # retry[j]
        /\ \A k \in DOMAIN queue : queue[k] \notin Accepted /\ ~Flying(queue[k])
        /\ \A k \in DOMAIN retry : retry[k] \notin Accepted /\ ~Flying(retry[k])
    BY <2>3 DEF CollectionInv, QueueAgrees
  <2>8. /\ \A k \in DOMAIN queue : queue[k] # p
        /\ \A k \in DOMAIN retry : retry[k] # p
    BY <2>6, <2>7
  <2>b. \A q : q = p \/ ~Flying(q) => \A j \in DOMAIN jobs' : jobs'[j].pair # q
    BY <2>5 DEF Flying
  <2>c. \A k \in DOMAIN queue' : queue'[k] \notin Accepted' /\ \A j \in DOMAIN jobs' : jobs'[j].pair # queue'[k]
    <3>1. \A k \in DOMAIN queue' : queue'[k] \notin Accepted' /\ ~Flying(queue'[k])
      BY <2>1, <2>5, <2>7, <2>8
    <3> QED
      BY <2>b, <3>1
  <2>9. CASE jobs[i].status = "retryable_failure"
    <3>1. retry' = Append(retry, p)
      BY <2>1, <2>9, <2>a
    <3>2. \A k \in DOMAIN retry' : \/ k \in DOMAIN retry /\ retry'[k] = retry[k]
                                   \/ k = Len(retry) + 1 /\ retry'[k] = p
      BY <1>0, <3>1
    <3>3. Accepted' = Accepted
      BY <2>5, <2>9
    <3>4. \A k, j \in DOMAIN retry' : retry'[k] = retry'[j] => k = j
      BY <2>7, <2>8, <3>2
    <3>5. \A k \in DOMAIN retry' : retry'[k] \notin Accepted' /\ \A j \in DOMAIN jobs' : jobs'[j].pair # retry'[k]
      <4>1. \A k \in DOMAIN retry' : retry'[k] = p \/ (~Flying(retry'[k]) /\ retry'[k] \notin Accepted)
        BY <2>7, <3>2
      <4> QED
        BY <2>5, <2>b, <3>3, <4>1
    <3>6. \A k \in DOMAIN queue' : \A j \in DOMAIN retry' : queue'[k] # retry'[j]
      BY <2>1, <2>7, <2>8, <3>2
    <3>7. \A k, j \in DOMAIN queue' : queue'[k] = queue'[j] => k = j
      BY <2>1, <2>7
    <3> QED
      BY <2>c, <3>4, <3>5, <3>6, <3>7 DEF QueueAgrees, Flying
  <2>10. CASE jobs[i].status # "retryable_failure"
    <3>1. retry' = retry
      BY <2>1, <2>10
    <3>2. \A k \in DOMAIN retry' : retry'[k] \notin Accepted' /\ \A j \in DOMAIN jobs' : jobs'[j].pair # retry'[k]
      <4>1. \A k \in DOMAIN retry' : ~Flying(retry'[k]) /\ retry'[k] \notin Accepted'
        BY <2>5, <2>7, <2>8, <3>1
      <4> QED
        BY <2>b, <4>1
    <3> QED
      BY <2>1, <2>7, <2>c, <3>1, <3>2 DEF QueueAgrees, Flying
  <2> QED
    BY <2>9, <2>10
<1>11. ASSUME NEW i \in DOMAIN jobs, Execute(i) PROVE QueueAgrees'
  <2>1. /\ DOMAIN jobs' = DOMAIN jobs /\ \A j \in DOMAIN jobs : jobs'[j].pair = jobs[j].pair
    BY <1>11, ExecuteKeeps
  <2>2. UNCHANGED <<attemptLedger, collectionPc, queue, retry>>
    BY <1>11 DEF Execute, disk
  <2> QED
    BY <1>1, <2>1, <2>2 DEF Accepted, Flying
<1> QED
  BY <1>3, <1>4, <1>5, <1>6, <1>7, <1>8, <1>9, <1>10, <1>11 DEF CollectionNext, Stage, Worker

-----------------------------------------------------------------------------
\* Once the collection is closed its ledger rests: nothing is reserved or settled
\* any more, and a kill finds nothing to append.
LEMMA ClosedLedgerRests ==
  ASSUME CollectionInv, [CollectionNext]_collectionVars, closure # None
  PROVE  attemptLedger' = attemptLedger
<1>1. /\ attemptLedger.pending = {} /\ ~attemptLedger.stopped /\ attemptLedger.qualified /\ Accepted = BankPairs
  BY DEF CollectionInv, ClosedFor
<1>2. collectionPc \in CollectionModes => DOMAIN jobs = {}
  <2>1. collectionPc \in CollectionModes => \A i \in DOMAIN jobs : [intent |-> i, pair |-> jobs[i].pair] \in attemptLedger.pending
    BY FlyingIsUnsettled
  <2> QED
    BY <1>1, <2>1
<1>3. collectionPc \in CollectionModes => queue = <<>>
  <2> SUFFICES ASSUME collectionPc \in CollectionModes, queue # <<>> PROVE FALSE
    OBVIOUS
  <2>1. 1 \in DOMAIN queue /\ queue[1] \in BankPairs
    BY DEF CollectionInv, CollectionTyped
  <2> QED
    BY <1>1, <2>1 DEF CollectionInv, QueueAgrees
<1>4. collectionPc \notin {"qualify", "qualifying"}
  BY <1>1 DEF CollectionInv, StageAgrees
<1>5. DOMAIN jobs = {}
  BY <1>2, <1>4 DEF CollectionModes, CollectionInv, StageAgrees
<1>6. done = {}
  BY <1>5 DEF CollectionInv, CollectionTyped
<1>7. CASE UNCHANGED collectionVars \/ PrepareBank \/ Authorize \/ Collect \/ Wait \/ Requeue \/ EndLoop
             \/ StartPaths \/ PublishPath \/ StopPaths
             \/ ClosePaths \/ OpenReport \/ CloseReport \/ PublishBank \/ PublishClosure
  BY <1>7 DEF collectionVars, disk, PrepareBank, Authorize, Collect, Wait, Requeue, EndLoop, StartPaths, PublishPath,
     StopPaths, Publishes, ClosePaths, OpenReport, CloseReport, PublishBank, PublishClosure
<1>8. CASE Kill
  <2>1. ~Appending
    BY <1>3, <1>4, <1>6 DEF Appending, CanReserve, CollectionModes
  <2> QED
    BY <1>8, <2>1 DEF Kill
<1>9. CASE Qualify \/ SettleQualification
  BY <1>4, <1>9 DEF Qualify, SettleQualification
<1>10. CASE Fill
  BY <1>3, <1>10 DEF Fill, CanReserve, CollectionModes
<1>11. CASE SettleIntent
  BY <1>6, <1>11 DEF SettleIntent
<1>12. ASSUME NEW i \in DOMAIN jobs, Execute(i) PROVE attemptLedger' = attemptLedger
  BY <1>5, <1>12
<1> QED
  BY <1>7, <1>8, <1>9, <1>10, <1>11, <1>12 DEF CollectionNext, Stage, Worker

\* Every step keeps closure and study what was made of the bank and the ledger.
LEMMA ClosedForStep ==
  ASSUME CollectionInv, [CollectionNext]_collectionVars PROVE ClosedFor'
<1>1. CASE PublishClosure
  <2>1. /\ collectionPc = "close" /\ UNCHANGED <<attemptLedger, bank, study>>
        /\ closure' = [status |-> "complete", bank |-> bank, events |-> attemptLedger.events,
                       physical |-> Total(attempts), retries |-> retries,
                       qualifications |-> attempts[Qualification], authorization |-> authorized]
    BY <1>1 DEF PublishClosure
  <2>2. collectionPc \in CollectionModes
    BY <2>1 DEF CollectionModes
  <2>3. attemptLedger.pending = InFlight /\ attempts = attemptLedger.attempts /\ retries = Retried(attemptLedger.attempts)
    BY <2>2 DEF CollectionInv, MemoryAgrees
  <2>4. DOMAIN jobs = {} /\ ~attemptLedger.stopped /\ attemptLedger.qualified /\ Accepted = BankPairs /\ bank = attemptLedger.source
    BY <2>1 DEF CollectionInv, StageAgrees
  <2>5. attemptLedger.pending = {}
    BY <2>3, <2>4 DEF InFlight
  <2>6. closure' = ClosedBy(authorized) /\ closure'.authorization = authorized /\ closure' # None
    BY <2>1, <2>3 DEF ClosedBy, None
  <2>7. \A a : ClosedBy(a)' = ClosedBy(a)
    BY <2>1 DEF ClosedBy
  <2>8. study' # None => study' = ClosedBy(study'.authorization)
    BY <2>1 DEF CollectionInv, ClosedFor
  <2> QED
    BY <2>1, <2>4, <2>5, <2>6, <2>7, <2>8 DEF ClosedFor, Accepted, ClosedBy
<1>2. CASE closure' = closure /\ (closure # None => bank' = bank)
  <2>1. closure # None => attemptLedger' = attemptLedger /\ bank' = bank
    BY <1>2, ClosedLedgerRests
  <2>2. study' = study \/ (study' = closure /\ closure # None)
    BY DEF collectionVars, disk, CollectionNext, Stage, Worker, PrepareBank, Authorize, Collect, Qualify, SettleQualification,
       ReserveIntent, Settled, OthersUnchanged, Fill, Wait, SettleIntent, Requeue, EndLoop, PublishBank, PublishClosure,
       StartPaths, PublishPath, StopPaths, Publishes, ClosePaths, OpenReport, CloseReport, Execute, Kill
  <2>3. closure # None => closure = ClosedBy(closure.authorization)
    BY DEF CollectionInv, ClosedFor
  <2>4. study' # None => closure # None /\ study' = ClosedBy(study'.authorization)
    BY <2>2, <2>3 DEF CollectionInv, ClosedFor
  <2> QED
    BY <1>2, <2>1, <2>4 DEF CollectionInv, ClosedFor, ClosedBy, Accepted
<1>3. CASE PublishBank
  <2>1. bank' = attemptLedger.source /\ closure' = closure
    BY <1>3 DEF PublishBank
  <2>2. closure # None => bank' = bank
    BY <2>1 DEF CollectionInv, ClosedFor
  <2> QED
    BY <1>2, <2>1, <2>2
<1>4. PublishClosure \/ PublishBank \/ (closure' = closure /\ bank' = bank)
  BY DEF collectionVars, disk, CollectionNext, Stage, Worker, PrepareBank, Authorize, Collect, Qualify, SettleQualification,
     ReserveIntent, Settled, OthersUnchanged, Fill, Wait, SettleIntent, Requeue, EndLoop,
     StartPaths, PublishPath, StopPaths, Publishes, ClosePaths, OpenReport, CloseReport, Execute, Kill
<1> QED
  BY <1>1, <1>2, <1>3, <1>4

\* A sum of zeros is zero.
LEMMA SumOfZeros ==
  ASSUME NEW f, NEW S, IsFiniteSet(S), \A x \in S : f[x] = 0
  PROVE  Sum(f, S) = 0
<1>1. Sum(f, S) \in Nat
  BY SumNat
<1>2. Sum(f, S) <= Cardinality(S) * 0
  <2>1. \A x \in S : f[x] \in Nat /\ f[x] <= 0
    OBVIOUS
  <2> QED
    BY <2>1, SumBound
<1>3. Cardinality(S) \in Nat
  BY FS_CardinalityType
<1> QED
  BY <1>1, <1>2, <1>3

\* Nothing is prepared, recorded or running at first.
LEMMA CollectionInitHolds == CollectionInit => CollectionInv
<1> SUFFICES ASSUME CollectionInit PROVE CollectionInv
  OBVIOUS
<1>1. CollectionTyped
  BY CollectionInitTyped
<1>2. /\ attemptLedger = Empty /\ ledgerText = "whole" /\ closure = None /\ study = None /\ collectionPc = "down" /\ jobs = <<>>
      /\ callsMade = [p \in Attempted |-> 0]
  BY DEF CollectionInit
<1>3. /\ attemptLedger.pending = {} /\ attemptLedger.reads /\ attemptLedger.bounded /\ ~attemptLedger.stopped /\ ~attemptLedger.qualified
      /\ attemptLedger.attempts = [p \in Attempted |-> 0] /\ attemptLedger.settled = [p \in Attempted |-> 0]
  BY <1>2 DEF Empty
<1>4. Qualification \in Attempted
  BY AttemptedFinite
<1>5. LedgerCounts
  BY <1>2, <1>3, <1>4 DEF LedgerCounts, Unsettled
<1>6. Budgets
  <2> DEFINE r == [p \in BankPairs |-> IF attemptLedger.attempts[p] > 1 THEN attemptLedger.attempts[p] - 1 ELSE 0]
  <2>1. \A p \in BankPairs : r[p] = 0
    BY <1>3, AttemptedFinite
  <2>2. Sum(r, BankPairs) = 0
    <3> HIDE DEF r
    <3> QED
      BY <2>1, AttemptedFinite, SumOfZeros
  <2>3. \A p \in Attempted : attemptLedger.attempts[p] = 0
    BY <1>3
  <2>4. Sum(attemptLedger.attempts, Attempted) = 0
    BY <2>3, AttemptedFinite, SumOfZeros
  <2>5. PhysicalCap \in Nat /\ GlobalRetries \in Nat /\ PairAttempts \in Nat
    BY CollectionAssumption DEF PhysicalCap, Qualifications
  <2> QED
    BY <1>4, <2>2, <2>3, <2>4, <2>5, AttemptedFinite DEF Budgets, Total, Retried
<1>7. DOMAIN jobs = {}
  BY <1>2
<1>8. MemoryAgrees /\ StageAgrees /\ QueueAgrees /\ ClosedFor
  BY <1>2, <1>7 DEF MemoryAgrees, StageAgrees, QueueAgrees, ClosedFor, CollectionModes
<1> QED
  BY <1>1, <1>5, <1>6, <1>8 DEF CollectionInv

\* The invariant of a collection, for any number of pairs, transports, retries,
\* kills and reruns: what is in flight is what the ledger has not settled, what
\* waits is open, what the process counts is what the ledger says, and closure and
\* study were made of the settled ledger, with the authorization there was by then.
THEOREM CollectionInductive == CollectionSpec => []CollectionInv
<1>1. CollectionInit => CollectionInv
  BY CollectionInitHolds
<1>2. CollectionInv /\ [CollectionNext]_collectionVars => CollectionInv'
  <2> SUFFICES ASSUME CollectionInv, [CollectionNext]_collectionVars PROVE CollectionInv'
    OBVIOUS
  <2>1. CollectionTyped'
    BY CollectionTypedStep DEF CollectionInv
  <2> QED
    BY <2>1, LedgerCountsStep, MemoryAgreesStep, StageAgreesStep, QueueAgreesStep, ClosedForStep
    DEF CollectionInv
<1> QED
  BY <1>1, <1>2, PTL DEF CollectionSpec

\* A ledger whose lines parse is one its reader takes, and the closure over it is what
\* the evidence recomputes, unless the authorization came after it; the paths are drawn
\* from a closure that differs from it in the authorization at most.
THEOREM LedgerAlwaysHolds == CollectionSpec => []LedgerHolds
<1>1. ASSUME CollectionInv PROVE LedgerHolds
  <2>1. attemptLedger.reads /\ attemptLedger.bounded
    BY <1>1 DEF CollectionInv, LedgerCounts
  <2>2. ASSUME ClosedAsAuthorized, ledgerText # "corrupt" PROVE EvidenceAccepts
    <3>1. /\ Total(attemptLedger.attempts) <= PhysicalCap /\ attemptLedger.attempts[Qualification] <= Qualifications
          /\ Retried(attemptLedger.attempts) <= GlobalRetries
          /\ \A p \in BankPairs : attemptLedger.attempts[p] <= PairAttempts
      <4>1. attemptLedger.attempts[Qualification] \in Nat
        BY <1>1, MemoryTypes, AttemptedFinite DEF CollectionInv
      <4> QED
        BY <1>1, <4>1 DEF CollectionInv, Budgets, Qualifications
    <3>2. /\ attemptLedger.pending = {} /\ ~attemptLedger.stopped /\ attemptLedger.qualified
          /\ Accepted = BankPairs /\ bank = attemptLedger.source /\ closure = ClosedBy(authorized)
      BY <1>1, <2>2 DEF CollectionInv, ClosedFor, ClosedAsAuthorized
    <3> QED
      BY <2>1, <2>2, <3>1, <3>2 DEF EvidenceAccepts, Readable, ClosedBy
  <2>3. ASSUME study # None PROVE study = [closure EXCEPT !.authorization = study.authorization]
    <3>1. closure = ClosedBy(closure.authorization) /\ study = ClosedBy(study.authorization)
      BY <1>1, <2>3 DEF CollectionInv, ClosedFor
    <3>2. \A a, b : ClosedBy(b) = [ClosedBy(a) EXCEPT !.authorization = b]
      BY DEF ClosedBy
    <3> QED
      BY <3>1, <3>2
  <2> QED
    BY <2>1, <2>2, <2>3 DEF LedgerHolds
<1> QED
  BY <1>1, CollectionInductive, PTL

-----------------------------------------------------------------------------
\* An empty ledger is one the promise starts from.
LEMMA PromiseInit == CollectionInit => Promise!Init
<1> SUFFICES ASSUME CollectionInit PROVE Promise!Init
  OBVIOUS
<1>1. /\ attemptLedger.attempts = [p \in Attempted |-> 0] /\ attemptLedger.settled = [p \in Attempted |-> 0]
      /\ attemptLedger.source = [p \in BankPairs |-> 0] /\ attemptLedger.qualified = FALSE
      /\ callsMade = [p \in Attempted |-> 0]
  BY DEF CollectionInit, Empty
<1>2. Accepted = {}
  BY <1>1 DEF Accepted
<1> QED
  BY <1>1, <1>2 DEF Promise!Init

\* Every step charges a pair that is open, calls a charge that was not called, or
\* settles one that was, or leaves the ledger and the calls alone.
LEMMA PromiseStep ==
  ASSUME CollectionInv, [CollectionNext]_collectionVars PROVE [Promise!Next]_(Promise!vars)
<1> DEFINE won == Accepted \cup (IF attemptLedger.qualified THEN {Qualification} ELSE {})
<1>0. Qualification \in Attempted /\ BankPairs \subseteq Attempted /\ Qualification \notin BankPairs
  BY AttemptedFinite
<1>1. CASE UNCHANGED <<attemptLedger, callsMade>>
  BY <1>1 DEF Promise!vars, Accepted
<1>2. ASSUME NEW p, MayReserve(p), AppendIntent(p), UNCHANGED callsMade
      PROVE  [Promise!Next]_(Promise!vars)
  <2>1. /\ p \in Attempted /\ p \notin Accepted /\ ~Unsettled(p) /\ ~CapReached(p)
        /\ (p = Qualification => ~attemptLedger.qualified /\ attemptLedger.attempts[p] = 0) /\ collectionPc \in CollectionModes
    BY <1>2 DEF MayReserve, CollectionModes
  <2>2. /\ attemptLedger'.attempts = [attemptLedger.attempts EXCEPT ![p] = @ + 1] /\ attemptLedger'.settled = attemptLedger.settled
        /\ attemptLedger'.qualified = attemptLedger.qualified
    BY <1>2, <2>1, IntentMeans DEF CollectionInv
  <2>3. Accepted' = Accepted
    BY <1>2, IntentKeeps
  <2>4. p \notin won
    BY <2>1
  <2>5. attemptLedger.settled[p] = attemptLedger.attempts[p]
    <3>1. attemptLedger.settled[p] \in Nat
      BY <2>1, MemoryTypes DEF CollectionInv
    <3> QED
      BY <2>1, <3>1 DEF CollectionInv, LedgerCounts
  <2>6. attemptLedger.attempts[p] < PairAttempts
    <3>1. attemptLedger.attempts[p] \in Nat /\ PairAttempts \in Nat \ {0} /\ attempts = attemptLedger.attempts
      BY <2>1, MemoryTypes, CollectionAssumption DEF CollectionInv, MemoryAgrees
    <3>2. CASE p \in BankPairs
      BY <2>1, <3>1, <3>2 DEF CapReached
    <3>3. CASE p \notin BankPairs
      BY <2>1, <3>1, <3>3 DEF Attempted
    <3> QED
      BY <3>2, <3>3
  <2>7. Promise!Charge(p)
    BY <1>2, <2>2, <2>3, <2>4, <2>5, <2>6 DEF Promise!Charge
  <2> QED
    BY <2>1, <2>7 DEF Promise!Next
<1>3. ASSUME NEW i \in DOMAIN jobs, jobs[i].status # "submitted", Settles(i), UNCHANGED callsMade,
             collectionPc \in CollectionModes
      PROVE  [Promise!Next]_(Promise!vars)
  <2>0. PICK p \in Attempted : p = jobs[i].pair
    BY DEF CollectionInv, CollectionTyped
  <2>1. /\ attemptLedger'.attempts = attemptLedger.attempts /\ attemptLedger'.settled = [attemptLedger.settled EXCEPT ![p] = @ + 1]
        /\ attemptLedger'.qualified = (attemptLedger.qualified \/ (jobs[i].status = "succeeded" /\ p = Qualification))
    BY <1>3, <2>0, SettlementMeans DEF CollectionInv
  <2>2. Accepted' = IF jobs[i].status = "succeeded" /\ p \in BankPairs THEN Accepted \cup {p} ELSE Accepted
    BY <1>3, <2>0, SettlementKeeps
  <2>3. won' \in {won, won \cup {p}}
    BY <1>0, <2>0, <2>1, <2>2 DEF Attempted
  <2>4. Unsettled(p)
    BY <1>3, <2>0, FlyingIsUnsettled DEF Flying
  <2>5. attemptLedger.settled[p] < attemptLedger.attempts[p]
    <3>1. attemptLedger.settled[p] \in Nat /\ attemptLedger.attempts[p] = attemptLedger.settled[p] + 1
      BY <2>4, MemoryTypes DEF CollectionInv, LedgerCounts
    <3> QED
      BY <3>1
  <2>6. callsMade[p] = attemptLedger.attempts[p]
    <3>1. callsMade[p] \in Nat /\ callsMade[p] + 0 = attemptLedger.attempts[p]
      BY <1>3, <2>0 DEF CollectionInv, CollectionTyped, MemoryAgrees
    <3> QED
      BY <3>1
  <2>7. Promise!Settle(p)
    BY <1>3, <2>1, <2>3, <2>5, <2>6 DEF Promise!Settle
  <2> QED
    BY <2>7 DEF Promise!Next
<1>4. ASSUME NEW i \in DOMAIN jobs, Execute(i) PROVE [Promise!Next]_(Promise!vars)
  <2>0. PICK p \in Attempted : p = jobs[i].pair
    BY DEF CollectionInv, CollectionTyped
  <2>1. /\ callsMade' = [callsMade EXCEPT ![p] = @ + 1] /\ jobs[i].status = "submitted" /\ collectionPc \in CollectionModes
    BY <1>4, <2>0, ExecuteKeeps
  <2>2. attemptLedger' = attemptLedger
    BY <1>4 DEF Execute, disk
  <2>3. callsMade[p] < attemptLedger.attempts[p]
    <3>1. callsMade[p] \in Nat /\ callsMade[p] + 1 = attemptLedger.attempts[p]
      BY <2>0, <2>1 DEF CollectionInv, CollectionTyped, MemoryAgrees
    <3> QED
      BY <3>1
  <2>4. Promise!Call(p)
    BY <2>1, <2>2, <2>3 DEF Promise!Call, Accepted
  <2> QED
    BY <2>4 DEF Promise!Next
<1> QED
  BY <1>1, <1>2, <1>3, <1>4, CollectionSteps

\* The collection of the parameter study implements the promise of an attempt
\* ledger: a pair, and the self-check, is not sent again while an attempt of it is
\* unresolved or after it succeeded, and never more often than it may be.
THEOREM CollectionKeepsPromise == CollectionSpec => KeepsCollectionPromise
<1>1. CollectionInit => Promise!Init
  BY PromiseInit
<1>2. CollectionInv /\ [CollectionNext]_collectionVars => [Promise!Next]_(Promise!vars)
  BY PromiseStep
<1> QED
  BY <1>1, <1>2, CollectionInductive, PTL DEF CollectionSpec, KeepsCollectionPromise, Promise!Spec

=============================================================================
