------------------------ MODULE RecoveryCampaignProofs ------------------------
(***************************************************************************)
(* Theorems about RecoveryCampaign, for every size of a cell and a batch,  *)
(* every retry limit and number of lanes, any kills and interrupts, and a  *)
(* revocation at any moment.                                               *)
(***************************************************************************)
EXTENDS RecoveryCampaign, FiniteLemmas, FiniteSetTheorems

\* How many batches there are, and the places of the driver: about to enter a batch, at
\* work on one, or with calls in its lanes.
Count == PerCell \div BatchSize
Live == {"ready", "running", "paused"}
Talking == {"batch", "intent", "calling", "unwind"}
Starting ==
  {"claim", "admit", "loop", "precheck", "check", "checking", "derive", "study", "epoch", "invoke"}
Working == {"drive", "project", "dispatch", "calling", "intent"}
\* What the chain and the lanes say of the calls of a pair.
Account(p) ==
  LET n == Len(state.attempts[p])
  IN  /\ Tried(state, p) /\ Last(state, p) = "retryable_failure" => n < MaxAttempts
      /\ p \in state.inflight => p \notin Decided(state) /\ n < MaxAttempts
      /\ p \notin state.inflight => lanes[p] = "idle" /\ calls[p] = n
      /\ p \in state.inflight => calls[p] \in {n, n + 1}
      /\ lanes[p] = "queued" => calls[p] = n
      /\ lanes[p] \notin {"idle", "queued"} => calls[p] = n + 1
Accounts ==
  /\ \A p \in Pairs : Account(p)
  /\ \A a \in state.approved : a[2] < MaxAttempts
\* A status that lets the driver on leaves no failure unapproved and no call unknown.
Verdicts == state.status \in Live => Unapproved(state) = {} /\ state.unknown = {}
\* How far the schedule is, and how far the pairs of its open batch.
Sched ==
  /\ NextBatch \in 1 .. Count + 1 /\ state.committed = 1 .. NextBatch - 1
  /\ (NextBatch - 1) * BatchSize <= state.prefix
  /\ NextBatch <= Count => state.prefix <= NextBatch * BatchSize
  /\ state.reservation # NoPair => state.reservation = NextPair /\ BatchOpen
  /\ state.judged \/ state.realized => state.reservation # NoPair
  /\ state.pending # NoPair => state.parallel
  /\ state.parallel /\ state.reservation # NoPair => state.reservation \in Decided(state)
  /\ \A p \in Pairs : Tried(state, p) \/ p \in state.inflight => BatchOf(p) <= NextBatch
\* A parallel batch: what remains of it is neither decided nor in flight, and while it
\* runs nothing undecided is forgotten.
InBatch ==
  /\ \A p \in remaining : BatchOf(p) <= NextBatch
  /\ remaining \cap (Decided(state) \cup state.inflight) = {}
  /\ state.status = "running" /\ state.pending # NoPair => state.inflight \subseteq {state.pending}
  /\ state.status = "running" /\ ~pause =>
       Undecided(NextBatch) \subseteq remaining \cup state.inflight \cup (IF pc = "intent" THEN {at} ELSE {})
\* The pair that has passed the gate.
Intended ==
  /\ at \in Pairs /\ BatchOf(at) <= NextBatch
  /\ at \notin Decided(state) \cup state.inflight \cup remaining
  /\ ~pause
  /\ state.pending # NoPair => at = state.pending /\ state.inflight = {}
\* Where the driver is.
Place ==
  /\ pc \notin Talking => \A p \in Pairs : lanes[p] = "idle"
  /\ pc \in Starting \cup {"observe", "drive", "project", "dispatch"} => state.inflight = {}
  /\ pc \in Starting => state.status \in Live
  /\ pc \in Working => state.status = "running"
  /\ pc = "dispatch" => at \in Pairs /\ at = state.reservation /\ at \notin Decided(state)
  /\ pc = "calling" =>
       /\ state.reservation \in Pairs /\ state.inflight = {state.reservation}
       /\ \A p \in Pairs : InLane(p) <=> p = state.reservation
  /\ pc = "project" /\ state.parallel => Undecided(NextBatch) = {}
  /\ pc \in {"batch", "intent"} => InBatch
  /\ pc = "intent" => Intended
\* After a revocation one late dispatch is left, to a driver already past the gate.
Revoking ==
  /\ late <= 1 /\ (~signal => late = 0)
  /\ late = 1 => pc \notin {"intent", "dispatch", "check"}

IInv == TypeOK /\ Accounts /\ Verdicts /\ Sched /\ Place /\ Revoking

-----------------------------------------------------------------------------
\* The batches of a cell: one after another, all of one size.
LEMMA BatchBound ==
  \A p \in Pairs, n \in Nat : BatchOf(p) \in Nat \ {0} /\ (BatchOf(p) <= n <=> p <= n * BatchSize)
<1> SUFFICES ASSUME NEW p \in Pairs, NEW n \in Nat
             PROVE  BatchOf(p) \in Nat \ {0} /\ (BatchOf(p) <= n <=> p <= n * BatchSize)
  OBVIOUS
<1> DEFINE q == (p - 1) \div BatchSize
<1>1. p \in Nat \ {0} /\ BatchSize \in Nat \ {0}
  BY SizeAssumption DEF Pairs
<1>2. q \in Nat
  BY <1>1
<1>3. q * BatchSize <= p - 1 /\ p - 1 < (q + 1) * BatchSize
  BY <1>1
<1>4. BatchOf(p) = q + 1
  BY DEF BatchOf
<1> HIDE DEF q
<1>5. CASE q + 1 <= n
  <2>1. (q + 1) * BatchSize <= n * BatchSize
    BY <1>1, <1>2, <1>5
  <2> QED
    BY <1>1, <1>2, <1>3, <1>4, <1>5, <2>1
<1>6. CASE ~(q + 1 <= n)
  <2>1. n * BatchSize <= q * BatchSize
    BY <1>1, <1>2, <1>6
  <2> QED
    BY <1>1, <1>2, <1>3, <1>4, <1>6, <2>1
<1> QED
  BY <1>5, <1>6

\* They fill the cell.
LEMMA CountTells == Count \in Nat \ {0} /\ Count * BatchSize = PerCell /\ Batches = 1 .. Count
<1>1. PerCell \in Nat \ {0} /\ BatchSize \in Nat \ {0} /\ PerCell % BatchSize = 0
  BY SizeAssumption
<1>2. Count \in Nat /\ PerCell = Count * BatchSize + (PerCell % BatchSize)
  BY <1>1 DEF Count
<1> QED
  BY <1>1, <1>2 DEF Batches, Count

\* The pairs of a batch lie between its bounds, and its last one is at the upper.
LEMMA BatchMembers ==
  ASSUME NEW n \in Nat
  PROVE  /\ \A p \in PairsOf(n + 1) : p \in Pairs /\ BatchOf(p) = n + 1 /\ p <= (n + 1) * BatchSize
         /\ \A p \in Pairs : n * BatchSize < p /\ p <= (n + 1) * BatchSize => p \in PairsOf(n + 1)
         /\ n + 1 <= Count => (n + 1) * BatchSize \in PairsOf(n + 1)
         /\ n + 1 > Count => PairsOf(n + 1) = {}
         /\ (n + 1) * BatchSize = n * BatchSize + BatchSize
<1>1. BatchSize \in Nat \ {0} /\ n * BatchSize \in Nat /\ (n + 1) * BatchSize = n * BatchSize + BatchSize
  BY SizeAssumption
<1>2. \A p \in Pairs : /\ BatchOf(p) \in Nat \ {0} /\ p \in Nat
                       /\ BatchOf(p) <= n <=> p <= n * BatchSize
                       /\ BatchOf(p) <= n + 1 <=> p <= (n + 1) * BatchSize
                       /\ BatchOf(p) <= Count
  <2>1. \A p \in Pairs : p <= Count * BatchSize /\ p \in Nat
    BY CountTells, SizeAssumption DEF Pairs
  <2> QED
    BY <2>1, BatchBound, CountTells
<1>3. \A p \in Pairs : n * BatchSize < p /\ p <= (n + 1) * BatchSize => p \in PairsOf(n + 1)
  BY <1>1, <1>2 DEF PairsOf
<1>4. n + 1 <= Count => (n + 1) * BatchSize \in PairsOf(n + 1)
  <2>1. n + 1 <= Count => (n + 1) * BatchSize <= Count * BatchSize
    BY <1>1, CountTells
  <2>2. n + 1 <= Count => (n + 1) * BatchSize \in Pairs
    BY <1>1, <2>1, CountTells, SizeAssumption DEF Pairs
  <2> QED
    BY <1>1, <1>3, <2>2
<1>5. n + 1 > Count => PairsOf(n + 1) = {}
  BY <1>2, CountTells DEF PairsOf
<1>6. \A p \in PairsOf(n + 1) : p \in Pairs /\ BatchOf(p) = n + 1 /\ p <= (n + 1) * BatchSize
  BY <1>2 DEF PairsOf
<1> QED
  BY <1>1, <1>3, <1>4, <1>5, <1>6

NextOf(done) == Min({b \in Batches : b \notin done} \cup {Max(Batches) + 1})

\* When the first batches are committed, the next one is next.
LEMMA NextOfPrefix == \A n \in 0 .. Count : NextOf(1 .. n) = n + 1
<1> SUFFICES ASSUME NEW n \in 0 .. Count PROVE NextOf(1 .. n) = n + 1
  OBVIOUS
<1>1. Max(Batches) = Count
  <2>1. Count \in Batches /\ \A b \in Batches : b \in Int /\ b <= Count
    BY CountTells
  <2>2. \E x \in Batches : \A y \in Batches : x >= y
    BY <2>1, CountTells
  <2>3. Max(Batches) \in Batches /\ \A y \in Batches : Max(Batches) >= y
    BY <2>2 DEF Max
  <2> QED
    BY <2>1, <2>3, CountTells
<1> DEFINE S == {b \in Batches : b \notin 1 .. n} \cup {Count + 1}
<1>2. n + 1 \in S /\ \A b \in S : b \in Int /\ n + 1 <= b
  BY CountTells
<1> HIDE DEF S
<1>3. Min(S) \in S /\ \A y \in S : Min(S) <= y
  BY <1>2 DEF Min
<1>4. Min(S) = n + 1
  BY <1>2, <1>3
<1> QED
  BY <1>1, <1>4 DEF NextOf, S

-----------------------------------------------------------------------------
\* What is known of the calls, and where the schedule is.
SameAttempts ==
  /\ state'.attempts = state.attempts /\ state'.inflight = state.inflight
  /\ state'.approved = state.approved
SameCalls == SameAttempts /\ state'.unknown = state.unknown
SamePlan ==
  /\ state'.committed = state.committed /\ state'.prefix = state.prefix
  /\ state'.reservation = state.reservation /\ state'.pending = state.pending
  /\ state'.judged = state.judged /\ state'.realized = state.realized
  /\ state'.parallel = state.parallel

\* Without a word about a call the same pairs are decided and failed.
LEMMA CallsTell ==
  ASSUME SameAttempts
  PROVE  /\ Decided(state') = Decided(state) /\ HardFailed(state') = HardFailed(state)
         /\ Unapproved(state') = Unapproved(state)
         /\ \A p \in Pairs : Tried(state', p) <=> Tried(state, p)
BY DEF SameCalls, SameAttempts, Decided, HardFailed, Unapproved, Tried, Last

\* A worker whose answer nobody reads leaves the accounts right.
LEMMA AccountsKept ==
  ASSUME Accounts, SameAttempts, calls' = calls, \A p \in Pairs : lanes'[p] \in {lanes[p], "idle"}
  PROVE  Accounts'
<1>1. \A p \in Pairs : Account(p)'
  <2> SUFFICES ASSUME NEW p \in Pairs PROVE Account(p)'
    OBVIOUS
  <2>1. Account(p) /\ lanes'[p] \in {lanes[p], "idle"}
    BY DEF Accounts
  <2>2. /\ state'.attempts[p] = state.attempts[p] /\ (p \in state'.inflight <=> p \in state.inflight)
        /\ Tried(state', p) = Tried(state, p) /\ Last(state', p) = Last(state, p)
        /\ Decided(state') = Decided(state) /\ calls'[p] = calls[p]
    BY CallsTell DEF SameCalls, SameAttempts, Tried, Last
  <2> QED
    BY <2>1, <2>2 DEF Account
<1> QED
  BY <1>1 DEF Accounts, SameCalls, SameAttempts

\* Nor do the verdicts change while no status comes to life.
LEMMA VerdictsKept ==
  ASSUME Verdicts, SameCalls, state'.status \in Live => state.status \in Live
  PROVE  Verdicts'
BY CallsTell DEF Verdicts, SameCalls, SameAttempts

\* Nor the schedule.
LEMMA SchedKept == ASSUME Sched, SameAttempts, SamePlan PROVE Sched'
<1>1. NextBatch' = NextBatch /\ NextPair' = NextPair
  BY DEF NextBatch, NextPair, SamePlan
<1>2. BatchOpen' = BatchOpen
  BY <1>1 DEF BatchOpen, SamePlan
<1> QED
  BY <1>1, <1>2, CallsTell DEF Sched, SamePlan, SameCalls, SameAttempts

\* The invariant from its parts, when no lane and no call changes.
LEMMA QuietStep ==
  ASSUME IInv, TypeOK', SameCalls, SamePlan, calls' = calls,
         \A p \in Pairs : lanes'[p] \in {lanes[p], "idle"},
         state'.status \in Live => state.status \in Live,
         Place', Revoking'
  PROVE  IInv'
BY AccountsKept, VerdictsKept, SchedKept DEF SameCalls, IInv

\* A step that leaves the late dispatches and does not go where one is recorded.
LEMMA RevokingKept ==
  ASSUME Revoking, late' = late, signal' = signal,
         pc' \in {"intent", "dispatch", "check"} => pc' = pc \/ ~signal
  PROVE  Revoking'
BY DEF Revoking

\* The driver moves on between two records.
LEMMA GoStep ==
  ASSUME IInv, Start \/ Claim \/ Loop \/ CheckGate \/ DerivePlan \/ EnterStudy
  PROVE  IInv'
<1>1. /\ state' = state /\ calls' = calls /\ lanes' = lanes /\ late' = late /\ signal' = signal
      /\ UNCHANGED <<at, remaining, pause, crashes>>
  BY DEF Start, Claim, Loop, CheckGate, DerivePlan, EnterStudy, disk, locals, world
<1>2. SameCalls /\ SamePlan /\ TypeOK'
  BY <1>1 DEF SameCalls, SameAttempts, SamePlan, IInv, TypeOK
<1>3. Revoking'
  BY <1>1, RevokingKept DEF IInv, Start, Claim, Loop, CheckGate, DerivePlan, EnterStudy, Goto, Ended, Revoked
<1>4. Place'
  <2>1. \/ pc' \in Starting /\ state.status \in Live /\ state.inflight = {}
        \/ pc' \in {"down", "outer"}
        \/ pc' = "observe" /\ state.inflight = {}
    BY DEF IInv, Place, Start, Claim, Loop, CheckGate, DerivePlan, EnterStudy, Goto, Ended,
           Live, Starting, TypeOK, Progress, Statuses
  <2>2. \A p \in Pairs : lanes[p] = "idle"
    BY DEF IInv, Place, Start, Claim, Loop, CheckGate, DerivePlan, EnterStudy, Talking
  <2> QED
    BY <1>1, <2>1, <2>2 DEF Place, Starting, Working, Talking
<1> QED
  BY <1>1, <1>2, <1>3, <1>4, QuietStep DEF SameCalls, IInv

\* The driver records what is no call and no step of the schedule.
LEMMA NoteStep ==
  ASSUME IInv,
         AdmitTask \/ CheckIntent \/ CheckAnswer \/ Observe \/ AdmitEpoch \/ Invoke \/ Outer
  PROVE  IInv'
<1>1. /\ state' \in Progress /\ SameCalls /\ SamePlan
      /\ state'.status \in {state.status, "stopped", "running"}
      /\ state'.status = "running" => state.status = "running" \/ pc \in {"epoch", "invoke"}
  <2>1. state \in Progress
    BY DEF IInv, TypeOK
  <2>2. CASE state' = state
    BY <2>1, <2>2 DEF SameCalls, SameAttempts, SamePlan, Progress
  <2>3. CASE state' = [state EXCEPT !.task = TRUE]
    BY <2>1, <2>3 DEF SameCalls, SameAttempts, SamePlan, Progress
  <2>4. CASE state' = [state EXCEPT !.check = "intent"]
    BY <2>1, <2>4 DEF SameCalls, SameAttempts, SamePlan, Progress
  <2>5. CASE state' = [state EXCEPT !.check = "succeeded"]
    BY <2>1, <2>5 DEF SameCalls, SameAttempts, SamePlan, Progress
  <2>6. CASE state' = [state EXCEPT !.check = "failed", !.status = "stopped"]
    BY <2>1, <2>6 DEF SameCalls, SameAttempts, SamePlan, Progress, Statuses
  <2>7. CASE state' = [state EXCEPT !.revoked = TRUE]
    BY <2>1, <2>7 DEF SameCalls, SameAttempts, SamePlan, Progress
  <2>8. CASE state' = [state EXCEPT !.epoch = TRUE, !.status = "running"] /\ pc = "epoch"
    BY <2>1, <2>8 DEF SameCalls, SameAttempts, SamePlan, Progress, Statuses
  <2>9. CASE state' = [state EXCEPT !.status = "running"] /\ pc = "invoke"
    BY <2>1, <2>9 DEF SameCalls, SameAttempts, SamePlan, Progress, Statuses
  <2> QED
    BY <2>2, <2>3, <2>4, <2>5, <2>6, <2>7, <2>8, <2>9
    DEF AdmitTask, CheckIntent, CheckAnswer, Observe, AdmitEpoch, Invoke, Outer,
        ObserveRevocation, Record
<1>2. /\ calls' = calls /\ lanes' = lanes /\ signal' = signal
      /\ UNCHANGED <<at, remaining, pause, crashes>>
  BY DEF AdmitTask, CheckIntent, CheckAnswer, Observe, AdmitEpoch, Invoke, Outer, locals, world
<1>3. Revoking' /\ late' \in Nat
  <2>1. CASE late' = late
    BY <1>2, <2>1, RevokingKept
    DEF IInv, TypeOK, AdmitTask, CheckIntent, CheckAnswer, Observe, AdmitEpoch, Invoke, Outer, Goto
  <2>2. CASE CheckIntent
    BY <1>2, <2>2 DEF IInv, TypeOK, Revoking, CheckIntent, CountLate, Goto
  <2> QED
    BY <2>1, <2>2 DEF AdmitTask, CheckAnswer, Observe, AdmitEpoch, Invoke, Outer
<1>4. TypeOK'
  BY <1>1, <1>2, <1>3 DEF IInv, TypeOK
<1>5. Place'
  <2>1. \/ pc' \in Starting /\ state'.status \in Live /\ state.inflight = {}
        \/ pc' \in {"down", "outer"}
        \/ pc' = "observe" /\ state.inflight = {}
        \/ pc' = "drive" /\ state.inflight = {} /\ state'.status = "running"
    <3>1. CASE AdmitTask \/ CheckIntent
      <4>1. \/ state' = state
            \/ state' = [state EXCEPT !.task = TRUE]
            \/ state' = [state EXCEPT !.check = "intent"]
        BY <3>1 DEF AdmitTask, CheckIntent, Record
      <4>2. state'.status = state.status
        BY <4>1 DEF IInv, TypeOK, Progress
      <4> QED
        BY <3>1, <4>2 DEF IInv, Place, AdmitTask, CheckIntent, Goto, Live, Starting
    <3>2. CASE CheckAnswer \/ Outer
      BY <3>2 DEF IInv, Place, CheckAnswer, Outer, Goto, Starting
    <3>3. CASE Observe
      BY <1>1, <3>3 DEF Observe, Goto, Ended, Live, Starting, Progress, Statuses, SameCalls, SameAttempts
    <3>4. CASE AdmitEpoch
      <4>1. state' = [state EXCEPT !.epoch = TRUE, !.status = "running"] /\ pc' = "invoke" /\ pc = "epoch"
        BY <3>4 DEF AdmitEpoch, Goto
      <4> QED
        BY <4>1 DEF IInv, TypeOK, Progress, Place, Live, Starting
    <3>5. CASE Invoke
      <4>1. state' = [state EXCEPT !.status = "running"] /\ pc' = "drive" /\ pc = "invoke"
        BY <3>5 DEF Invoke, Goto, Record
      <4> QED
        BY <4>1 DEF IInv, TypeOK, Progress, Place, Starting
    <3> QED
      BY <3>1, <3>2, <3>3, <3>4, <3>5
  <2>2. \A p \in Pairs : lanes[p] = "idle"
    BY DEF IInv, Place, AdmitTask, CheckIntent, CheckAnswer, Observe, AdmitEpoch, Invoke, Outer, Talking
  <2> QED
    BY <1>1, <1>2, <2>1, <2>2 DEF Place, Starting, Working, Talking, SameCalls, SameAttempts
<1>6. state'.status \in Live => state.status \in Live
  BY <1>1 DEF IInv, Place, Starting, Live
<1> QED
  BY <1>1, <1>2, <1>3, <1>4, <1>5, <1>6, QuietStep DEF SameCalls

\* The process leaves the batches, by an exception or a kill, or has finished them.
LEMMA LeaveStep ==
  ASSUME IInv, FinishEpoch \/ Caught \/ Unwind \/ Interrupt \/ Crash
  PROVE  IInv'
<1>1. /\ state' \in Progress /\ SameCalls /\ SamePlan
      /\ state'.status \in Live => state.status \in Live
      /\ pc' \in {"drive", "observe", "down"} => state' = state
  <2>1. state \in Progress
    BY DEF IInv, TypeOK
  <2>2. CASE state' = state
    BY <2>1, <2>2 DEF SameCalls, SameAttempts, SamePlan, Progress
  <2>3. CASE state' = [state EXCEPT !.status = "complete"] /\ FinishEpoch
    <3>1. pc' = "outer"
      BY <2>3 DEF FinishEpoch, Goto
    <3>2. state' \in Progress /\ SameCalls /\ SamePlan /\ state'.status = "complete"
      BY <2>1, <2>3 DEF SameCalls, SameAttempts, SamePlan, Progress, Statuses
    <3> QED
      BY <3>1, <3>2 DEF Live
  <2>4. CASE Caught /\ state.status = "running"
    <3>1. PICK st \in {"paused", "reconciliation_required"} : state' = [state EXCEPT !.status = st]
      BY <2>4 DEF Caught, Record
    <3> QED
      BY <2>1, <2>4, <3>1 DEF SameCalls, SameAttempts, SamePlan, Progress, Statuses, Live, Caught, Goto
  <2> QED
    BY <2>2, <2>3, <2>4 DEF FinishEpoch, Caught, Unwind, Interrupt, Crash, Record, disk
<1>2. /\ calls' = calls /\ signal' = signal /\ late' = late
      /\ at' \in {at, NoPair} /\ remaining' \in {remaining, {}} /\ pause' \in {pause, FALSE}
      /\ crashes' \in {crashes, crashes + 1}
      /\ lanes' \in {lanes, NoLanes}
  BY DEF FinishEpoch, Caught, Unwind, Interrupt, Crash, locals, world, disk
<1>3. \A p \in Pairs : lanes'[p] \in {lanes[p], "idle"}
  BY <1>2 DEF NoLanes
<1>4. pc' \in {"outer", "down", "caught", "unwind"}
  BY DEF FinishEpoch, Caught, Unwind, Interrupt, Crash, Goto
<1>5. Revoking'
  BY <1>2, <1>4, RevokingKept DEF IInv
<1>6. TypeOK'
  <2>1. lanes' \in [Pairs -> {"idle", "queued", "calling"} \cup Answers]
    BY <1>2 DEF IInv, TypeOK, NoLanes
  <2>2. crashes' \in Nat /\ remaining' \subseteq Pairs /\ at' \in Pairs \cup {NoPair}
    BY <1>2 DEF IInv, TypeOK
  <2>3. pause' \in BOOLEAN
    BY DEF IInv, TypeOK, FinishEpoch, Caught, Unwind, Interrupt, Crash, locals
  <2> QED
    BY <1>1, <1>2, <2>1, <2>2, <2>3 DEF IInv, TypeOK
<1>7. Place'
  <2>1. pc' # "unwind" => \A p \in Pairs : lanes'[p] = "idle"
    BY DEF IInv, Place, FinishEpoch, Caught, Unwind, Interrupt, Crash, NoLanes, Goto, InStudy, Talking
  <2> QED
    BY <1>4, <2>1 DEF Place, Starting, Working, Talking
<1> QED
  BY <1>1, <1>2, <1>3, <1>5, <1>6, <1>7, QuietStep DEF SameCalls

\* A worker takes up its call or comes back.
LEMMA WorkerStep ==
  ASSUME IInv, NEW p \in Pairs, Call(p) \/ Answer(p)
  PROVE  IInv'
<1>1. /\ UNCHANGED <<state, pc, at, remaining, pause, signal, late, crashes>>
      /\ lanes' = [lanes EXCEPT ![p] = lanes'[p]]
      /\ lanes[p] \in {"queued", "calling"}
      /\ lanes'[p] \in {"calling"} \cup Answers
      /\ calls' = IF lanes[p] = "queued" THEN [calls EXCEPT ![p] = calls[p] + 1] ELSE calls
  <2>1. lanes \in [Pairs -> {"idle", "queued", "calling"} \cup Answers]
    BY DEF IInv, TypeOK
  <2> QED
    BY <2>1 DEF Call, Answer, disk, locals, world
<1>2. TypeOK'
  BY <1>1 DEF IInv, TypeOK
<1>3. Accounts'
  <2> SUFFICES ASSUME NEW q \in Pairs PROVE Account(q)'
    BY <1>1 DEF IInv, Accounts
  <2>1. Account(q) /\ Account(p)
    BY DEF IInv, Accounts
  <2>2. /\ Decided(state)' = Decided(state) /\ Tried(state, q)' = Tried(state, q)
        /\ Last(state, q)' = Last(state, q)
    BY <1>1 DEF Decided, Tried, Last
  <2>3. CASE q # p
    BY <1>1, <2>1, <2>2, <2>3 DEF IInv, TypeOK, Account
  <2>4. CASE q = p
    BY <1>1, <2>1, <2>2, <2>4 DEF IInv, TypeOK, Account, Answers, Outcomes
  <2> QED
    BY <2>3, <2>4
<1>4. Verdicts' /\ Sched'
  <2>1. SameCalls /\ SamePlan
    BY <1>1 DEF SameCalls, SameAttempts, SamePlan
  <2> QED
    BY <1>1, <2>1, VerdictsKept, SchedKept DEF SameCalls, IInv
<1>5. Revoking'
  BY <1>1, RevokingKept DEF IInv
<1>6. Place'
  <2>1. pc \in Talking
    BY <1>1 DEF IInv, Place
  <2>2. /\ NextBatch' = NextBatch /\ Undecided(NextBatch)' = Undecided(NextBatch)
        /\ Decided(state)' = Decided(state) /\ InBatch' = InBatch /\ Intended' = Intended
    BY <1>1 DEF NextBatch, Undecided, Decided, InBatch, Intended, Tried, Last
  <2>3. \A q \in Pairs : InLane(q)' <=> InLane(q)
    BY <1>1 DEF InLane, IInv, TypeOK, Answers, Outcomes
  <2> QED
    BY <1>1, <2>1, <2>2, <2>3 DEF IInv, Place, Talking, Starting, Working
<1> QED
  BY <1>2, <1>3, <1>4, <1>5, <1>6 DEF IInv

\* Publishing a revocation changes what the gates see and nothing else.
LEMMA RevokeStep == ASSUME IInv, Revoke PROVE IInv'
<1>1. UNCHANGED <<state, pc, at, remaining, pause, lanes, calls, crashes, late>> /\ signal' = TRUE /\ ~signal
  BY DEF Revoke, locals, world
<1>2. SameCalls /\ SamePlan /\ TypeOK'
  BY <1>1 DEF SameCalls, SameAttempts, SamePlan, IInv, TypeOK
<1>3. Revoking'
  BY <1>1 DEF IInv, Revoking
<1>4. Place'
  BY <1>1 DEF IInv, Place, InBatch, Intended, InLane, Undecided, NextBatch
<1> QED
  BY <1>1, <1>2, <1>3, <1>4, QuietStep DEF SameCalls, IInv

-----------------------------------------------------------------------------
\* Of an open batch the next pair is one, and of one with nothing left the last is past.
LEMMA OpenTells ==
  ASSUME TypeOK, Sched, BatchOpen
  PROVE  /\ NextBatch \in 1 .. Count /\ NextPair \in PairsOf(NextBatch) /\ NextPair \in Pairs
         /\ NextPair <= NextBatch * BatchSize
<1> DEFINE n == NextBatch - 1
<1>1. n \in Nat /\ NextBatch = n + 1 /\ n <= Count
  BY CountTells DEF Sched
<1>2. PICK p \in PairsOf(n + 1) : p > state.prefix
  BY <1>1 DEF BatchOpen
<1>3. state.prefix \in Nat /\ n * BatchSize <= state.prefix /\ BatchSize \in Nat \ {0}
      /\ n * BatchSize \in Nat /\ (n + 1) * BatchSize \in Nat
  BY <1>1, SizeAssumption DEF Sched, TypeOK, Progress
<1> HIDE DEF n
<1>4. p \in Pairs /\ p <= (n + 1) * BatchSize /\ n + 1 <= Count
  <2>1. p \in Pairs /\ p <= (n + 1) * BatchSize
    BY <1>1, <1>2, BatchMembers
  <2>2. ~(n + 1 > Count)
    BY <1>1, <1>2, BatchMembers
  <2> QED
    BY <1>1, <2>1, <2>2, CountTells
<1>5. NextPair \in Pairs /\ n * BatchSize < NextPair /\ NextPair <= (n + 1) * BatchSize
  BY <1>2, <1>3, <1>4, SizeAssumption DEF NextPair, Pairs
<1>6. NextPair \in PairsOf(n + 1)
  BY <1>1, <1>5, BatchMembers
<1> QED
  BY <1>1, <1>4, <1>5, <1>6

\* With nothing of it left, a batch is settled to its end and not beyond.
LEMMA ClosedTells ==
  ASSUME TypeOK, Sched, ~BatchOpen, NextBatch \in Batches
  PROVE  /\ state.prefix >= NextBatch * BatchSize
         /\ state.prefix <= (NextBatch + 1) * BatchSize
<1> DEFINE n == NextBatch - 1
<1>1. n \in Nat /\ NextBatch = n + 1 /\ n + 1 <= Count
  BY CountTells
<1>2. (n + 1) * BatchSize \in PairsOf(n + 1)
  BY <1>1, BatchMembers
<1> HIDE DEF n
<1>3. state.prefix \in Nat /\ BatchSize \in Nat \ {0} /\ (n + 1) * BatchSize \in Nat
  BY <1>1, SizeAssumption DEF TypeOK, Progress
<1>7. (n + 2) * BatchSize = (n + 1) * BatchSize + BatchSize
  BY <1>1, <1>3
<1>4. state.prefix >= (n + 1) * BatchSize
  BY <1>1, <1>2, <1>3 DEF BatchOpen
<1>5. state.prefix <= (n + 1) * BatchSize
  BY <1>1 DEF Sched
<1>6. NextBatch + 1 = n + 2
  BY <1>1
<1> QED
  BY <1>1, <1>3, <1>4, <1>5, <1>6, <1>7

\* Steps between the records of a pair: the next batch, if nothing of it is left to
\* ask, goes to its pairs; the sequential lane asks its gate.
LEMMA ProjectStep == ASSUME IInv, EnterProjection \/ SequentialGate PROVE IInv'
<1>1. /\ UNCHANGED <<state, lanes, calls, remaining, pause, signal, late, crashes>>
      /\ at' \in {at, state.reservation}
  BY DEF EnterProjection, SequentialGate, disk, locals, world
<1>2. SameCalls /\ SamePlan /\ TypeOK'
  BY <1>1 DEF SameCalls, SameAttempts, SamePlan, IInv, TypeOK, Progress
<1>3. Revoking'
  BY <1>1, RevokingKept DEF IInv, EnterProjection, SequentialGate, Goto, Revoked
<1>4. Place'
  <2>1. pc \in {"drive", "project"} /\ pc' \in {"project", "caught", "dispatch"}
    BY DEF EnterProjection, SequentialGate, Goto
  <2>2. /\ \A p \in Pairs : lanes'[p] = "idle"
        /\ state'.inflight = {} /\ state'.status = "running"
    BY <1>1, <2>1 DEF IInv, Place, Talking, Working
  <2>3. pc' = "project" /\ state'.parallel => Undecided(NextBatch)' = {}
    BY <1>1 DEF EnterProjection, SequentialGate, Goto, Undecided, NextBatch
  <2>4. pc' = "dispatch" => at' \in Pairs /\ at' = state'.reservation /\ at' \notin Decided(state)'
    BY <1>1 DEF IInv, TypeOK, Progress, EnterProjection, SequentialGate, Goto
  <2> QED
    BY <2>1, <2>2, <2>3, <2>4 DEF Place, Talking, Working, Starting
<1> QED
  BY <1>1, <1>2, <1>3, <1>4, QuietStep DEF SameCalls, IInv

\* A pair is reserved, judged, realized and settled with its answer there.
LEMMA PairStep ==
  ASSUME IInv, ReservePair \/ PersistJudgment \/ PersistRealized \/ SettlePair
  PROVE  IInv'
<1>1. /\ UNCHANGED <<pc, lanes, calls, at, remaining, pause, signal, late, crashes>>
      /\ pc = "project"
  BY DEF ReservePair, PersistJudgment, PersistRealized, SettlePair, locals, world
<1>2. state \in Progress /\ Sched /\ NoPair \notin Pairs
  BY NoPairAssumption DEF IInv, TypeOK
<1>3. /\ state' \in Progress /\ SameCalls /\ state'.status = state.status
      /\ state'.committed = state.committed /\ state'.parallel = state.parallel
      /\ state'.pending = state.pending
      /\ \/ /\ BatchOpen /\ state'.prefix = state.prefix /\ state'.reservation = NextPair
            /\ state'.judged = state.judged /\ state'.realized = state.realized
         \/ /\ state.reservation # NoPair
            /\ state'.prefix = state.prefix /\ state'.reservation = state.reservation
         \/ /\ state.reservation # NoPair
            /\ state'.prefix = state.prefix + 1 /\ state'.reservation = NoPair
            /\ ~state'.judged /\ ~state'.realized
  <2>1. CASE ReservePair
    <3>1. state' = [state EXCEPT !.reservation = NextPair] /\ BatchOpen /\ NextPair \in Pairs
      BY <1>2, <2>1, OpenTells DEF IInv, ReservePair, Record
    <3> QED
      BY <1>2, <3>1 DEF Progress, SameCalls, SameAttempts
  <2>2. CASE PersistJudgment
    <3>1. state' = [state EXCEPT !.judged = TRUE] /\ state.reservation # NoPair
      BY <1>2, <2>2 DEF PersistJudgment, Record, Decided
    <3> QED
      BY <1>2, <3>1 DEF Progress, SameCalls, SameAttempts
  <2>3. CASE PersistRealized
    <3>1. state' = [state EXCEPT !.realized = TRUE] /\ state.reservation # NoPair
      BY <1>2, <2>3 DEF PersistRealized, Record, Sched
    <3> QED
      BY <1>2, <3>1 DEF Progress, SameCalls, SameAttempts
  <2>4. CASE SettlePair
    <3>1. state' = [state EXCEPT !.prefix = @ + 1, !.reservation = NoPair,
                                 !.judged = FALSE, !.realized = FALSE]
          /\ state.reservation # NoPair
      BY <1>2, <2>4 DEF SettlePair, Record, Sched
    <3>2. state.prefix + 1 \in 0 .. PerCell
      BY <1>2, <3>1, OpenTells, SizeAssumption DEF IInv, Sched, NextPair, Pairs
    <3> QED
      BY <1>2, <3>1, <3>2 DEF Progress, SameCalls, SameAttempts
  <2> QED
    BY <2>1, <2>2, <2>3, <2>4
<1>4. NextBatch' = NextBatch /\ Undecided(NextBatch)' = Undecided(NextBatch)
  BY <1>3, CallsTell DEF SameCalls, NextBatch, Undecided
<1>5. Sched'
  <2>1. /\ (NextBatch - 1) * BatchSize \in Int /\ NextBatch * BatchSize \in Int
        /\ state.prefix \in Nat /\ state'.prefix \in Nat
    BY <1>2, <1>3, CountTells, SizeAssumption DEF Sched, Progress
  <2>2. /\ (NextBatch - 1) * BatchSize <= state'.prefix
        /\ NextBatch <= Count => state'.prefix <= NextBatch * BatchSize
    <3>1. CASE state'.prefix = state.prefix
      BY <1>2, <3>1 DEF Sched
    <3>2. CASE state'.prefix = state.prefix + 1 /\ state.reservation # NoPair
      <4>1. NextPair <= NextBatch * BatchSize
        BY <1>2, <3>2, OpenTells DEF IInv, Sched
      <4> QED
        BY <1>2, <2>1, <3>2, <4>1 DEF Sched, NextPair
    <3> QED
      BY <1>3, <3>1, <3>2
  <2>3. state'.reservation # NoPair =>
          /\ state'.reservation = NextPair' /\ BatchOpen'
          /\ state'.parallel => state'.reservation \in Decided(state')
    <3>1. CASE BatchOpen /\ state'.prefix = state.prefix /\ state'.reservation = NextPair
      <4>1. state.parallel => NextPair \in Decided(state)
        BY <1>1, <1>2, <3>1, OpenTells DEF IInv, Place, Undecided
      <4> QED
        BY <1>3, <1>4, <3>1, <4>1, CallsTell DEF SameCalls, BatchOpen, NextPair
    <3>2. CASE state'.prefix = state.prefix /\ state'.reservation = state.reservation
      BY <1>2, <1>3, <1>4, <3>2, CallsTell DEF SameCalls, Sched, BatchOpen, NextPair
    <3> QED
      BY <1>3, <3>1, <3>2
  <2>4. state'.judged \/ state'.realized => state'.reservation # NoPair
    <3>1. BatchOpen => NextPair # NoPair
      BY <1>2, OpenTells DEF IInv
    <3> QED
      BY <1>2, <1>3, <3>1 DEF Sched
  <2> QED
    BY <1>2, <1>3, <1>4, <2>2, <2>3, <2>4, CallsTell DEF Sched, SameCalls, SameAttempts
<1>6. TypeOK' /\ Revoking' /\ Accounts' /\ Verdicts'
  BY <1>1, <1>3, AccountsKept, VerdictsKept, RevokingKept DEF SameCalls, IInv, TypeOK
<1>7. Place'
  BY <1>1, <1>3, <1>4 DEF IInv, Place, SameCalls, SameAttempts, Talking, Working, Starting
<1> QED
  BY <1>5, <1>6, <1>7 DEF IInv

\* Committing a batch, all of whose pairs are settled, makes the one after it next.
LEMMA CommitStep == ASSUME IInv, CommitBatch PROVE IInv'
<1>1. /\ UNCHANGED <<lanes, calls, at, remaining, pause, signal, late, crashes>>
      /\ pc \in {"drive", "project"} /\ pc' = "drive"
      /\ NextBatch \in Batches /\ ~BatchOpen
      /\ state' = [state EXCEPT !.committed = @ \cup {NextBatch},
                                !.batch = IF @ = NextBatch THEN 0 ELSE @]
  BY DEF CommitBatch, AllSettled, Record, Goto, locals, world
<1>2. state \in Progress /\ Sched
  BY DEF IInv, TypeOK
<1>3. /\ state' \in Progress /\ SameCalls /\ state'.status = state.status
      /\ state'.committed = state.committed \cup {NextBatch}
      /\ state'.prefix = state.prefix /\ state'.reservation = state.reservation
      /\ state'.pending = state.pending /\ state'.parallel = state.parallel
      /\ state'.judged = state.judged /\ state'.realized = state.realized
  BY <1>1, <1>2 DEF Progress, SameCalls, SameAttempts
<1>4. NextBatch' = NextBatch + 1 /\ state'.committed = 1 .. NextBatch
  <2>1. NextBatch \in 1 .. Count
    BY <1>1, CountTells
  <2>2. state'.committed = 1 .. NextBatch
    BY <1>2, <1>3, <2>1 DEF Sched
  <2>3. NextOf(1 .. NextBatch) = NextBatch + 1
    BY <2>1, NextOfPrefix, CountTells
  <2> QED
    BY <2>2, <2>3 DEF NextBatch, NextOf
<1>5. Sched'
  <2>1. NextBatch' \in 1 .. Count + 1 /\ NextBatch' - 1 = NextBatch /\ NextBatch \in Nat
    BY <1>1, <1>4, CountTells
  <2>2. /\ NextBatch * BatchSize <= state'.prefix
        /\ state'.prefix <= (NextBatch + 1) * BatchSize
    <3>1. NextBatch * BatchSize \in Int /\ state.prefix \in Int
      BY <1>2, <2>1, SizeAssumption DEF Progress
    <3> QED
      BY <1>1, <1>2, <1>3, <3>1, ClosedTells DEF IInv
  <2>3. state'.reservation = NoPair
    BY <1>1, <1>2, <1>3 DEF Sched
  <2>4. \A p \in Pairs : Tried(state', p) \/ p \in state'.inflight => BatchOf(p) <= NextBatch + 1
    <3>1. \A p \in Pairs : BatchOf(p) \in Nat
      BY BatchBound
    <3> QED
      BY <1>2, <1>3, <2>1, <3>1, CallsTell DEF Sched, SameCalls, SameAttempts
  <2> QED
    BY <1>2, <1>3, <1>4, <2>1, <2>2, <2>3, <2>4 DEF Sched
<1>6. TypeOK' /\ Revoking' /\ Accounts' /\ Verdicts'
  BY <1>1, <1>3, AccountsKept, VerdictsKept, RevokingKept DEF SameCalls, IInv, TypeOK
<1>7. Place'
  BY <1>1, <1>3 DEF IInv, Place, SameCalls, SameAttempts, Talking, Working, Starting
<1> QED
  BY <1>5, <1>6, <1>7 DEF IInv

-----------------------------------------------------------------------------
\* The records of a pair are a sequence.
LEMMA Records ==
  ASSUME IInv
  PROVE  \A p \in Pairs : state.attempts[p] \in Seq(Recordable) /\ Len(state.attempts[p]) \in Nat
<1>1. state.attempts \in [Pairs -> Seq(Recordable)]
  BY DEF IInv, TypeOK, Progress
<1> QED
  BY <1>1

\* A pair that may be dispatched has an attempt left.
LEMMA AttemptLeft ==
  ASSUME IInv, state.status \in Live, NEW p \in Pairs, p \notin Decided(state)
  PROVE  Len(state.attempts[p]) < MaxAttempts
<1>1. state.attempts[p] \in Seq(Recordable) /\ MaxAttempts \in Nat \ {0}
  BY AttemptsAssumption DEF IInv, TypeOK, Progress
<1>2. Account(p) /\ Unapproved(state) = {}
  BY DEF IInv, Accounts, Verdicts
<1>3. CASE ~Tried(state, p)
  BY <1>1, <1>3 DEF Tried
<1>4. CASE Tried(state, p) /\ Last(state, p) = "retryable_failure"
  BY <1>2, <1>4 DEF Account
<1>5. CASE Tried(state, p) /\ Last(state, p) # "retryable_failure"
  <2>1. p \in HardFailed(state)
    BY <1>5 DEF HardFailed, Decided
  <2>2. <<p, Len(state.attempts[p])>> \in state.approved
    BY <1>2, <2>1 DEF Unapproved
  <2> QED
    BY <2>2 DEF IInv, Accounts
<1> QED
  BY <1>3, <1>4, <1>5

\* A progress with another value in a field is one.
LEMMA FieldsKept ==
  ASSUME NEW s \in Progress
  PROVE  /\ \A x \in [Pairs -> Seq(Recordable)] : [s EXCEPT !.attempts = x] \in Progress
         /\ \A x \in SUBSET Pairs : [s EXCEPT !.inflight = x] \in Progress
         /\ \A x \in Statuses : [s EXCEPT !.status = x] \in Progress
         /\ \A x \in Pairs \cup {NoPair} : [s EXCEPT !.pending = x] \in Progress
<1>1. \A x \in [Pairs -> Seq(Recordable)] : [s EXCEPT !.attempts = x] \in Progress
  BY DEF Progress
<1>2. \A x \in SUBSET Pairs : [s EXCEPT !.inflight = x] \in Progress
  BY DEF Progress
<1>3. \A x \in Statuses : [s EXCEPT !.status = x] \in Progress
  BY DEF Progress
<1>4. \A x \in Pairs \cup {NoPair} : [s EXCEPT !.pending = x] \in Progress
  BY DEF Progress
<1> QED
  BY <1>1, <1>2, <1>3, <1>4

\* How an answer is noted.
Outcome(p) == Graded(state, p, lanes[p])

\* The progress that an answer makes, field by field.
LEMMA NotedTells ==
  ASSUME IInv, NEW p \in Pairs, p \in state.inflight, Ready(p), lanes[p] # "unknown",
         state' = Noted(p)
  PROVE  /\ state' \in Progress /\ Outcome(p) \in Recordable
         /\ state'.attempts = [state.attempts EXCEPT ![p] = Append(state.attempts[p], Outcome(p))]
         /\ state'.inflight = state.inflight \ {p} /\ state'.unknown = state.unknown
         /\ state'.approved = state.approved
         /\ state'.committed = state.committed /\ state'.prefix = state.prefix
         /\ state'.reservation = state.reservation
         /\ state'.judged = state.judged /\ state'.realized = state.realized
         /\ state'.parallel = state.parallel
         /\ state'.pending \in {state.pending, NoPair}
         /\ p = state.pending /\ Outcome(p) = "succeeded" => state'.pending = NoPair
         /\ state'.status \in {state.status, "stopped"}
         /\ state'.status \in Live => Outcome(p) \in {"succeeded", "retryable_failure"}
         /\ Outcome(p) = "retryable_failure" => Len(state.attempts[p]) + 1 < MaxAttempts
<1>1. state \in Progress /\ lanes[p] \in Outcomes
  BY DEF IInv, TypeOK, Ready, Answers
<1>2. Account(p) /\ Len(state.attempts[p]) \in Nat /\ Len(state.attempts[p]) < MaxAttempts
      /\ MaxAttempts \in Nat
  BY <1>1, AttemptsAssumption DEF IInv, Accounts, Account, Progress
<1>3. Outcome(p) \in Recordable
      /\ (Outcome(p) = "retryable_failure" => Len(state.attempts[p]) + 1 < MaxAttempts)
  BY <1>1, <1>2 DEF Outcome, Graded, NextNumber, Recordable, Outcomes
<1>4. state' = Settled(state, p, Outcome(p))
  BY DEF Noted, Outcome
<1> DEFINE log == [state.attempts EXCEPT ![p] = Append(state.attempts[p], Outcome(p))]
           ends == \/ p = state.pending /\ Outcome(p) # "succeeded"
                   \/ /\ Outcome(p) \notin {"succeeded", "retryable_failure"}
                      /\ state.status # "reconciliation_required"
           st == IF ends THEN "stopped" ELSE state.status
           pe == IF p = state.pending /\ Outcome(p) = "succeeded" THEN NoPair ELSE state.pending
<1>5. state' = [state EXCEPT !.attempts = log, !.inflight = state.inflight \ {p},
                             !.status = st, !.pending = pe]
  BY <1>1, <1>4 DEF Settled, Progress
<1>6. log \in [Pairs -> Seq(Recordable)]
  BY <1>1, <1>3 DEF Progress
<1>7. st \in Statuses /\ pe \in Pairs \cup {NoPair}
  BY <1>1 DEF Progress, Statuses
<1>8. st \in {state.status, "stopped"}
      /\ (st \in Live => Outcome(p) \in {"succeeded", "retryable_failure"})
  BY DEF Live
<1>9. pe \in {state.pending, NoPair} /\ (p = state.pending /\ Outcome(p) = "succeeded" => pe = NoPair)
  OBVIOUS
<1> HIDE DEF log, st, pe, ends
<1>10. /\ state' \in Progress /\ state'.status = st /\ state'.pending = pe /\ state'.attempts = log
       /\ state'.inflight = state.inflight \ {p} /\ state'.unknown = state.unknown
       /\ state'.approved = state.approved
       /\ state'.committed = state.committed /\ state'.prefix = state.prefix
       /\ state'.reservation = state.reservation
       /\ state'.judged = state.judged /\ state'.realized = state.realized
       /\ state'.parallel = state.parallel
  <2>1. state.inflight \ {p} \in SUBSET Pairs
    BY <1>1 DEF Progress
  <2>2. state' \in Progress
    <3>1. [state EXCEPT !.attempts = log] \in Progress
      BY <1>1, <1>6, FieldsKept
    <3>2. [[state EXCEPT !.attempts = log] EXCEPT !.inflight = state.inflight \ {p}] \in Progress
      BY <2>1, <3>1, FieldsKept
    <3> DEFINE s == [[state EXCEPT !.attempts = log] EXCEPT !.inflight = state.inflight \ {p}]
    <3>3. [s EXCEPT !.status = st] \in Progress
      BY <1>7, <3>2, FieldsKept
    <3>4. [[s EXCEPT !.status = st] EXCEPT !.pending = pe] \in Progress
      BY <1>7, <3>3, FieldsKept
    <3> QED
      BY <1>5, <3>4
  <2>3. /\ state'.status = st /\ state'.pending = pe /\ state'.attempts = log
        /\ state'.inflight = state.inflight \ {p} /\ state'.unknown = state.unknown
        /\ state'.approved = state.approved
        /\ state'.committed = state.committed /\ state'.prefix = state.prefix
    BY <1>1, <1>5 DEF Progress
  <2>4. /\ state'.reservation = state.reservation
        /\ state'.judged = state.judged /\ state'.realized = state.realized
        /\ state'.parallel = state.parallel
    BY <1>1, <1>5 DEF Progress
  <2> QED
    BY <2>2, <2>3, <2>4
<1> QED
  BY <1>3, <1>8, <1>9, <1>10 DEF log

\* Only that pair's record is longer, by its outcome.
LEMMA NotedAttempts ==
  ASSUME IInv, NEW p \in Pairs, p \in state.inflight, Ready(p), lanes[p] # "unknown",
         state' = Noted(p)
  PROVE  /\ \A q \in Pairs : q # p =>
              /\ state'.attempts[q] = state.attempts[q]
              /\ Tried(state', q) = Tried(state, q) /\ Last(state', q) = Last(state, q)
              /\ q \in Decided(state') <=> q \in Decided(state)
              /\ q \in HardFailed(state') <=> q \in HardFailed(state)
         /\ Len(state'.attempts[p]) = Len(state.attempts[p]) + 1
         /\ Tried(state', p) /\ Last(state', p) = Outcome(p)
         /\ p \notin Decided(state) /\ (p \in Decided(state') <=> Outcome(p) = "succeeded")
         /\ Decided(state) \subseteq Decided(state')
<1>1. state \in Progress /\ Account(p) /\ state.attempts \in [Pairs -> Seq(Recordable)]
  BY DEF IInv, TypeOK, Progress, Accounts
<1>2. /\ state'.attempts = [state.attempts EXCEPT ![p] = Append(state.attempts[p], Outcome(p))]
      /\ Outcome(p) \in Recordable
  BY NotedTells
<1>3. \A q \in Pairs : q # p => state'.attempts[q] = state.attempts[q]
  BY <1>1, <1>2
<1>4. state'.attempts[p] = Append(state.attempts[p], Outcome(p))
  BY <1>1, <1>2
<1>5. /\ Len(state'.attempts[p]) = Len(state.attempts[p]) + 1
      /\ Tried(state', p) /\ Last(state', p) = Outcome(p)
  <2>1. \A s \in Seq(Recordable), x \in Recordable :
          Len(Append(s, x)) = Len(s) + 1 /\ Append(s, x) # <<>> /\ Append(s, x)[Len(s) + 1] = x
    OBVIOUS
  <2>2. state.attempts[p] \in Seq(Recordable)
    BY <1>1
  <2> QED
    BY <1>2, <1>4, <2>1, <2>2 DEF Tried, Last
<1>6. p \notin Decided(state)
  BY <1>1 DEF Account
<1>7. \A q \in Pairs : q # p => Tried(state', q) = Tried(state, q) /\ Last(state', q) = Last(state, q)
  BY <1>3 DEF Tried, Last
<1> QED
  BY <1>3, <1>5, <1>6, <1>7 DEF Decided, HardFailed

\* The parts of the invariant that an answer noted keeps, whoever notes it.
LEMMA NotedKeeps ==
  ASSUME IInv, NEW p \in Pairs, p \in state.inflight, Ready(p), lanes[p] # "unknown",
         state' = Noted(p), calls' = calls, lanes'[p] = "idle",
         \A q \in Pairs : q # p => lanes'[q] = lanes[q]
  PROVE  Accounts' /\ Verdicts' /\ Sched'
<1>1. Accounts'
  <2>1. ASSUME NEW q \in Pairs, q # p PROVE Account(q)'
    <3>1. Account(q) /\ (q \in state'.inflight <=> q \in state.inflight) /\ calls'[q] = calls[q]
      BY <2>1, NotedTells DEF IInv, Accounts
    <3>2. /\ state'.attempts[q] = state.attempts[q] /\ lanes'[q] = lanes[q]
          /\ Tried(state', q) = Tried(state, q) /\ Last(state', q) = Last(state, q)
          /\ q \in Decided(state') <=> q \in Decided(state)
      BY <2>1, NotedAttempts
    <3> QED
      BY <3>1, <3>2 DEF Account
  <2>2. Account(p)'
    <3>1. Account(p) /\ calls'[p] = calls[p] /\ p \notin state'.inflight /\ Len(state.attempts[p]) \in Nat
      <4>1. Account(p) /\ state.attempts[p] \in Seq(Recordable)
        BY DEF IInv, Accounts, TypeOK, Progress
      <4>2. p \notin state'.inflight
        BY NotedTells
      <4> QED
        BY <4>1, <4>2
    <3>2. calls[p] = Len(state.attempts[p]) + 1
      BY <3>1 DEF Account, Ready, Answers, Outcomes
    <3>3. /\ Last(state', p) = Outcome(p) /\ (p \in Decided(state') <=> Outcome(p) = "succeeded")
          /\ Len(state'.attempts[p]) = Len(state.attempts[p]) + 1
      BY NotedAttempts
    <3>4. Outcome(p) = "retryable_failure" => Len(state.attempts[p]) + 1 < MaxAttempts
      BY NotedTells
    <3> QED
      BY <3>1, <3>2, <3>3, <3>4 DEF Account
  <2>3. state'.approved = state.approved
    BY NotedTells
  <2> QED
    BY <2>1, <2>2, <2>3 DEF IInv, Accounts
<1>2. Verdicts'
  <2> SUFFICES ASSUME state'.status \in Live PROVE Unapproved(state') = {} /\ state'.unknown = {}
    BY DEF Verdicts
  <2>1. state.status \in Live /\ Outcome(p) \in {"succeeded", "retryable_failure"}
    BY NotedTells DEF Live
  <2>2. Unapproved(state) = {} /\ state.unknown = {}
    BY <2>1 DEF IInv, Verdicts
  <2>3. p \notin HardFailed(state')
    BY <2>1, NotedAttempts DEF HardFailed
  <2>4. \A q \in HardFailed(state') :
          q \in HardFailed(state) /\ state'.attempts[q] = state.attempts[q]
    BY <2>3, NotedAttempts DEF HardFailed
  <2>5. state'.approved = state.approved /\ state'.unknown = state.unknown
    BY NotedTells
  <2> QED
    BY <2>2, <2>4, <2>5 DEF Unapproved
<1>3. Sched'
  <2>1. NextBatch' = NextBatch /\ NextPair' = NextPair
    BY NotedTells DEF NextBatch, NextPair
  <2>2. BatchOpen' = BatchOpen
    BY <2>1, NotedTells DEF BatchOpen
  <2>3. Decided(state) \subseteq Decided(state')
    BY NotedAttempts
  <2>4. \A q \in Pairs : Tried(state', q) \/ q \in state'.inflight => BatchOf(q) <= NextBatch
    <3>1. \A q \in Pairs : Tried(state', q) \/ q \in state'.inflight
                            => Tried(state, q) \/ q \in state.inflight
      <4>1. state'.inflight \subseteq state.inflight
        BY NotedTells
      <4>2. \A q \in Pairs : q # p => Tried(state', q) = Tried(state, q)
        BY NotedAttempts
      <4> QED
        BY <4>1, <4>2
    <3> QED
      BY <3>1 DEF IInv, Sched
  <2> QED
    BY <2>1, <2>2, <2>3, <2>4, NotedTells DEF IInv, Sched
<1> QED
  BY <1>1, <1>2, <1>3

-----------------------------------------------------------------------------
\* A frozen batch is entered with everything of it that is undecided.
LEMMA EnterStep == ASSUME IInv, EnterBatch PROVE IInv'
<1>1. /\ UNCHANGED <<at, lanes, calls, signal, late, crashes>>
      /\ pc = "drive" /\ pc' = "batch" /\ BatchOpen
      /\ remaining' = Undecided(NextBatch) /\ pause' = FALSE
      /\ \/ state' = state
         \/ state' = [state EXCEPT !.reserved = @ \cup {NextBatch}, !.batch = NextBatch]
  BY DEF EnterBatch, Record, Goto, world
<1>2. NextBatch \in Batches /\ state \in Progress
  BY <1>1, OpenTells, CountTells DEF IInv, TypeOK
<1>3. state' \in Progress /\ SameCalls /\ SamePlan /\ state'.status = state.status
  <2>1. CASE state' = state
    BY <1>2, <2>1 DEF SameCalls, SameAttempts, SamePlan
  <2>2. CASE state' = [state EXCEPT !.reserved = @ \cup {NextBatch}, !.batch = NextBatch]
    <3>1. state.reserved \cup {NextBatch} \in SUBSET Batches
      BY <1>2 DEF Progress
    <3>2. state' \in Progress
      BY <1>2, <2>2, <3>1 DEF Progress
    <3> QED
      BY <1>2, <2>2, <3>2 DEF Progress, SameCalls, SameAttempts, SamePlan
  <2> QED
    BY <1>1, <2>1, <2>2
<1>4. TypeOK'
  BY <1>1, <1>3 DEF IInv, TypeOK, Undecided, PairsOf
<1>5. Revoking'
  BY <1>1, RevokingKept DEF IInv
<1>6. Place'
  <2>1. /\ NextBatch' = NextBatch /\ Undecided(NextBatch)' = Undecided(NextBatch)
        /\ Decided(state') = Decided(state)
    BY <1>3, CallsTell DEF NextBatch, Undecided, SameCalls, SamePlan
  <2>2. state'.inflight = {}
    BY <1>1, <1>3 DEF IInv, Place, SameCalls, SameAttempts
  <2>3. InBatch'
    <3>1. \A p \in Undecided(NextBatch) : BatchOf(p) <= NextBatch /\ p \notin Decided(state)
      <4>1. \A p \in PairsOf(NextBatch) : BatchOf(p) = NextBatch /\ p \in Pairs
        BY DEF PairsOf
      <4>2. \A p \in Pairs : BatchOf(p) \in Nat
        BY BatchBound
      <4> QED
        BY <4>1, <4>2 DEF Undecided
    <3> QED
      BY <1>1, <2>1, <2>2, <3>1 DEF InBatch
  <2> QED
    BY <1>1, <2>3 DEF Place, Starting, Working, Talking
<1> QED
  BY <1>1, <1>3, <1>4, <1>5, <1>6, QuietStep

\* The gate lets one pair pass, or pauses the batch.
LEMMA GateStep == ASSUME IInv, NEW p \in Pairs, Gate(p) PROVE IInv'
<1>1. /\ UNCHANGED <<state, lanes, calls, signal, late, crashes>>
      /\ pc = "batch" /\ state.status = "running" /\ ~pause /\ MayDispatch(p)
      /\ \/ pause' = TRUE /\ remaining' = {} /\ pc' = pc /\ at' = at
         \/ /\ ~signal /\ pause' = pause
            /\ at' = p /\ remaining' = remaining \ {p} /\ pc' = "intent"
  BY DEF Gate, Goto, Revoked, disk, world
<1>2. SameCalls /\ SamePlan
  BY <1>1 DEF SameCalls, SameAttempts, SamePlan
<1>3. TypeOK'
  <2>1. pause' \in BOOLEAN
    BY <1>1 DEF IInv, TypeOK
  <2> QED
    BY <1>1, <2>1 DEF IInv, TypeOK
<1>4. Revoking'
  BY <1>1, RevokingKept DEF IInv
<1>5. Place'
  <2>1. InBatch
    BY <1>1 DEF IInv, Place
  <2>2. /\ NextBatch' = NextBatch /\ Undecided(NextBatch)' = Undecided(NextBatch)
        /\ Decided(state)' = Decided(state)
    BY <1>1 DEF NextBatch, Undecided, Decided, Tried, Last
  <2>3. InBatch'
    BY <1>1, <2>1, <2>2 DEF InBatch
  <2>4. pc' = "intent" => Intended'
    <3>1. p \in remaining /\ p \in Pairs /\ BatchOf(p) <= NextBatch /\ p \notin Decided(state) \cup state.inflight
      BY <1>1, <2>1 DEF MayDispatch, InBatch
    <3>2. state.pending # NoPair => p = state.pending /\ state.inflight = {}
      BY <1>1, <2>1, <3>1 DEF MayDispatch, InBatch
    <3> QED
      BY <1>1, <2>2, <3>1, <3>2 DEF Intended
  <2> QED
    BY <1>1, <2>3, <2>4 DEF IInv, Place, Starting, Working, Talking
<1> QED
  BY <1>1, <1>2, <1>3, <1>4, <1>5, QuietStep DEF IInv

\* The pair whose intent is recorded next, in either mode.
LEMMA IntentTells ==
  ASSUME IInv, Intent
  PROVE  /\ at \in Pairs /\ at \notin Decided(state) /\ at \notin state.inflight
         /\ state.status = "running" /\ BatchOf(at) <= NextBatch
         /\ Len(state.attempts[at]) < MaxAttempts
         /\ state.pending # NoPair => at = state.pending /\ state.inflight = {}
         /\ Unapproved(state) = {} /\ state.unknown = {}
<1>1. CASE pc = "intent"
  <2>1. Intended /\ state.status = "running"
    BY <1>1 DEF IInv, Place, Working
  <2>2. Len(state.attempts[at]) < MaxAttempts
    BY <2>1, AttemptLeft DEF Intended, Live
  <2>3. Unapproved(state) = {} /\ state.unknown = {}
    BY <2>1 DEF IInv, Verdicts, Live
  <2> QED
    BY <2>1, <2>2, <2>3 DEF Intended
<1>2. CASE pc = "dispatch"
  <2>1. /\ at \in Pairs /\ at = state.reservation /\ at \notin Decided(state)
        /\ state.inflight = {} /\ state.status = "running"
    BY <1>2 DEF IInv, Place, Working
  <2>2. at # NoPair /\ BatchOpen /\ state.pending = NoPair
    BY <2>1, NoPairAssumption DEF IInv, Sched
  <2>3. BatchOf(at) <= NextBatch
    <3>1. at = NextPair /\ NextPair \in PairsOf(NextBatch) /\ NextBatch \in 1 .. Count
      BY <2>1, <2>2, OpenTells DEF IInv, Sched
    <3> QED
      BY <3>1, CountTells DEF PairsOf
  <2> QED
    BY <2>1, <2>2, <2>3, AttemptLeft DEF IInv, Verdicts, Live
<1> QED
  BY <1>1, <1>2 DEF Intent

\* The intent of a pair that may be dispatched keeps the invariant.
LEMMA IntentStep == ASSUME IInv, Intent PROVE IInv'
<1> DEFINE p == at
<1>1. /\ UNCHANGED <<calls, signal, remaining, pause, crashes>>
      /\ state' = [state EXCEPT !.inflight = @ \cup {p}]
      /\ lanes' = [lanes EXCEPT ![p] = "queued"] /\ at' = NoPair
      /\ pc \in {"intent", "dispatch"}
      /\ pc' = IF pc = "intent" THEN "batch" ELSE "calling"
      /\ late' = IF signal THEN late + 1 ELSE late
  BY DEF Intent, Record, CountLate, Goto, world
<1>2. /\ p \in Pairs /\ p \notin Decided(state) /\ p \notin state.inflight
      /\ state.status = "running" /\ BatchOf(p) <= NextBatch
      /\ Len(state.attempts[p]) < MaxAttempts
      /\ state.pending # NoPair => p = state.pending /\ state.inflight = {}
  BY IntentTells
<1> HIDE DEF p
<1>3. /\ state' \in Progress /\ SamePlan /\ state'.attempts = state.attempts
      /\ state'.inflight = state.inflight \cup {p} /\ state'.unknown = state.unknown
      /\ state'.approved = state.approved /\ state'.status = state.status
  <2>1. state \in Progress /\ state.inflight \cup {p} \in SUBSET Pairs
    BY <1>2 DEF IInv, TypeOK, Progress
  <2>2. state' \in Progress
    BY <1>1, <2>1 DEF Progress
  <2> QED
    BY <1>1, <2>1, <2>2 DEF Progress, SamePlan
<1>4. TypeOK'
  <2>1. late' \in Nat
    BY <1>1 DEF IInv, TypeOK
  <2>2. lanes' \in [Pairs -> {"idle", "queued", "calling"} \cup Answers]
    BY <1>1, <1>2 DEF IInv, TypeOK
  <2> QED
    BY <1>1, <1>3, <2>1, <2>2 DEF IInv, TypeOK
<1>5. /\ Decided(state') = Decided(state) /\ HardFailed(state') = HardFailed(state)
      /\ Unapproved(state') = Unapproved(state)
      /\ \A q \in Pairs : Tried(state', q) = Tried(state, q) /\ Last(state', q) = Last(state, q)
  BY <1>3 DEF Decided, HardFailed, Unapproved, Tried, Last
<1>6. Accounts'
  <2> SUFFICES ASSUME NEW q \in Pairs PROVE Account(q)'
    BY <1>3 DEF IInv, Accounts
  <2>1. Account(q) /\ calls'[q] = calls[q] /\ state'.attempts[q] = state.attempts[q]
        /\ Len(state.attempts[q]) \in Nat
    BY <1>1, <1>3 DEF IInv, Accounts, TypeOK, Progress
  <2>2. CASE q # p
    <3>1. lanes'[q] = lanes[q] /\ (q \in state'.inflight <=> q \in state.inflight)
      BY <1>1, <1>3, <2>2 DEF IInv, TypeOK
    <3> QED
      BY <1>5, <2>1, <3>1 DEF Account
  <2>3. CASE q = p
    <3>1. lanes'[q] = "queued" /\ q \in state'.inflight
      BY <1>1, <1>2, <1>3, <2>3 DEF IInv, TypeOK
    <3>2. calls[q] = Len(state.attempts[q])
      BY <1>2, <2>1, <2>3 DEF Account
    <3> QED
      BY <1>2, <1>5, <2>1, <2>3, <3>1, <3>2 DEF Account
  <2> QED
    BY <2>2, <2>3
<1>7. Verdicts'
  BY <1>3, <1>5 DEF IInv, Verdicts
<1>8. NextBatch' = NextBatch /\ NextPair' = NextPair /\ BatchOpen' = BatchOpen
      /\ Undecided(NextBatch)' = Undecided(NextBatch)
  <2>1. NextBatch' = NextBatch /\ NextPair' = NextPair
    BY <1>3 DEF NextBatch, NextPair, SamePlan
  <2> QED
    BY <1>3, <1>5, <2>1 DEF BatchOpen, Undecided, SamePlan
<1>9. Sched'
  BY <1>2, <1>3, <1>5, <1>8 DEF IInv, Sched, SamePlan
<1>10. Revoking'
  BY <1>1 DEF IInv, Revoking, TypeOK
<1>11. Place'
  <2>1. CASE pc = "intent"
    <3>1. InBatch /\ p \notin remaining
      BY <1>1, <2>1 DEF IInv, Place, Intended, p
    <3>3. state'.pending # NoPair => state'.inflight \subseteq {state'.pending}
      BY <1>2, <1>3 DEF SamePlan
    <3>4. state'.status = "running" /\ ~pause' => Undecided(NextBatch)' \subseteq remaining' \cup state'.inflight
      BY <1>1, <1>3, <1>8, <2>1, <3>1 DEF InBatch, p
    <3>5. remaining' \cap (Decided(state') \cup state'.inflight) = {} 
          /\ \A q \in remaining' : BatchOf(q) <= NextBatch'
      BY <1>1, <1>3, <1>5, <1>8, <3>1 DEF InBatch
    <3>6. InBatch'
      BY <3>3, <3>4, <3>5 DEF InBatch
    <3> QED
      BY <1>1, <2>1, <3>6 DEF Place, Starting, Working, Talking
  <2>2. CASE pc = "dispatch"
    <3>1. state.inflight = {} /\ p = state.reservation /\ \A q \in Pairs : lanes[q] = "idle"
      BY <2>2 DEF IInv, Place, Talking, p
    <3>2. state'.reservation \in Pairs /\ state'.inflight = {state'.reservation}
      BY <1>2, <1>3, <3>1 DEF SamePlan
    <3>3. \A q \in Pairs : InLane(q)' <=> q = state'.reservation
      BY <1>1, <1>2, <1>3, <3>1 DEF SamePlan, InLane, IInv, TypeOK
    <3> QED
      BY <1>1, <1>2, <1>3, <2>2, <3>2, <3>3 DEF Place, Starting, Working, Talking
  <2> QED
    BY <1>1, <2>1, <2>2
<1> QED
  BY <1>4, <1>6, <1>7, <1>9, <1>10, <1>11 DEF IInv

\* An answer is taken from its lane and recorded; the batch goes on, retries or empties.
LEMMA DrainStep == ASSUME IInv, NEW p \in Pairs, Drain(p) PROVE IInv'
<1>1. /\ UNCHANGED <<calls, signal, pc, at, pause, late, crashes>>
      /\ pc = "batch" /\ Ready(p) /\ state' = Noted(p)
      /\ lanes' = [lanes EXCEPT ![p] = "idle"]
      /\ remaining' = Remaining(p, state')
  BY DEF Drain, Record, world
<1>2. /\ lanes'[p] = "idle" /\ \A q \in Pairs : q # p => lanes'[q] = lanes[q]
      /\ lanes' \in [Pairs -> {"idle", "queued", "calling"} \cup Answers]
  BY <1>1 DEF IInv, TypeOK
<1>3. p \in state.inflight /\ Account(p) /\ InBatch
  BY <1>1 DEF IInv, Accounts, Account, Place, Ready, Answers, Outcomes
<1>4. Revoking'
  BY <1>1, RevokingKept DEF IInv
<1>5. CASE lanes[p] = "unknown"
  <2>1. /\ SameAttempts /\ SamePlan /\ state'.status = "reconciliation_required"
        /\ state' \in Progress
    <3>1. state \in Progress /\ state.unknown \cup {p} \in SUBSET Pairs
      BY DEF IInv, TypeOK, Progress
    <3>2. state' = [state EXCEPT !.unknown = state.unknown \cup {p}, !.status = "reconciliation_required"]
      BY <1>1, <1>5 DEF Noted, Unresolved
    <3> QED
      BY <3>1, <3>2 DEF Progress, SameAttempts, SamePlan, Statuses
  <2>2. remaining' = {}
    BY <1>1, <2>1 DEF Remaining
  <2>3. TypeOK'
    BY <1>1, <1>2, <2>1, <2>2 DEF IInv, TypeOK
  <2>4. Accounts'
    BY <1>1, <1>2, <2>1, AccountsKept DEF IInv
  <2>5. Verdicts' /\ Sched'
    BY <2>1, SchedKept DEF IInv, Verdicts, Live
  <2>6. Place'
    BY <1>1, <2>1, <2>2 DEF Place, InBatch, Starting, Working, Talking
  <2> QED
    BY <1>4, <2>3, <2>4, <2>5, <2>6 DEF IInv
<1>6. CASE lanes[p] # "unknown"
  <2>1. Accounts' /\ Verdicts' /\ Sched'
    BY <1>1, <1>2, <1>3, <1>6, NotedKeeps
  <2>2. /\ state' \in Progress /\ state'.inflight = state.inflight \ {p}
        /\ state'.committed = state.committed /\ state'.pending \in {state.pending, NoPair}
        /\ state'.status \in {state.status, "stopped"}
        /\ state'.status \in Live => Outcome(p) \in {"succeeded", "retryable_failure"}
    BY <1>1, <1>3, <1>6, NotedTells
  <2>3. /\ Last(state', p) = Outcome(p) /\ p \notin Decided(state)
        /\ \A q \in Pairs : q # p => (q \in Decided(state') <=> q \in Decided(state))
        /\ p \in Decided(state') <=> Outcome(p) = "succeeded"
    BY <1>1, <1>3, <1>6, NotedAttempts
  <2>4. \/ remaining' = {} /\ (state'.status # "running" \/ pause)
        \/ remaining' = remaining \cup {p} /\ Outcome(p) = "retryable_failure"
        \/ /\ remaining' = remaining /\ Outcome(p) # "retryable_failure"
           /\ state'.status = "running"
    BY <1>1, <2>3 DEF Remaining
  <2>5. TypeOK'
    <3>1. remaining' \subseteq Pairs
      BY <2>4 DEF IInv, TypeOK
    <3> QED
      BY <1>1, <1>2, <2>2, <3>1 DEF IInv, TypeOK
  <2>6. NextBatch' = NextBatch
    BY <2>2 DEF NextBatch
  <2>7. \A q \in remaining' : q \in remaining \/ (q = p /\ Outcome(p) = "retryable_failure")
    BY <2>4
  <2>8. InBatch'
    <3>1. remaining' \cap (Decided(state') \cup state'.inflight) = {}
      <4> SUFFICES ASSUME NEW q \in remaining'
                   PROVE  q \notin Decided(state') /\ q \notin state'.inflight
        OBVIOUS
      <4>1. CASE q = p
        BY <1>3, <2>2, <2>3, <2>7, <4>1 DEF InBatch
      <4>2. CASE q # p
        BY <1>3, <2>2, <2>3, <2>5, <2>7, <4>2 DEF InBatch, TypeOK
      <4> QED
        BY <4>1, <4>2
    <3>2. state'.status = "running" /\ state'.pending # NoPair => state'.inflight \subseteq {state'.pending}
      BY <1>3, <2>2 DEF InBatch
    <3>3. state'.status = "running" /\ ~pause' => Undecided(NextBatch)' \subseteq remaining' \cup state'.inflight
      <4> SUFFICES ASSUME state'.status = "running", ~pause, NEW q \in Undecided(NextBatch)'
                   PROVE  q \in remaining' \cup state'.inflight
        BY <1>1
      <4>1. q \in Pairs /\ q \in PairsOf(NextBatch) /\ q \notin Decided(state')
        BY <2>6 DEF Undecided, PairsOf
      <4>2. state.status = "running"
        BY <2>2
      <4>3. CASE q = p
        BY <2>2, <2>3, <2>4, <4>1, <4>3 DEF Live
      <4>4. CASE q # p
        <5>1. q \in remaining \cup state.inflight
          BY <1>1, <1>3, <2>3, <4>1, <4>2, <4>4 DEF InBatch, Undecided
        <5> QED
          BY <2>2, <2>4, <4>4, <5>1
      <4> QED
        BY <4>3, <4>4
    <3>4. \A q \in remaining' : BatchOf(q) <= NextBatch'
      BY <1>3, <2>6, <2>7 DEF InBatch, IInv, Sched
    <3> QED
      BY <1>1, <3>1, <3>2, <3>3, <3>4 DEF InBatch
  <2>9. Place'
    BY <1>1, <2>8 DEF Place, Starting, Working, Talking
  <2> QED
    BY <1>4, <2>1, <2>5, <2>9 DEF IInv
<1> QED
  BY <1>5, <1>6

\* The loop over a batch ends with every lane empty.
LEMMA EndStep == ASSUME IInv, EndBatch PROVE IInv'
<1>1. /\ UNCHANGED <<state, at, remaining, pause, calls, signal, late, crashes>>
      /\ pc = "batch" /\ remaining = {} /\ lanes' = NoLanes
      /\ pc' \in {"caught", "outer", "project"}
      /\ pc' = "project" => ~pause /\ state.status = "running" /\ state.inflight = {}
  BY DEF EndBatch, Drained, Goto, disk, locals, world
<1>2. SameCalls /\ SamePlan /\ \A p \in Pairs : lanes'[p] = "idle"
  BY <1>1 DEF SameCalls, SameAttempts, SamePlan, NoLanes
<1>3. TypeOK'
  BY <1>1 DEF IInv, TypeOK, NoLanes
<1>4. Revoking'
  BY <1>1, RevokingKept DEF IInv
<1>5. Place'
  <2>1. pc' = "project" => Undecided(NextBatch)' = {}
    <3>1. Undecided(NextBatch)' = Undecided(NextBatch)
      BY <1>1 DEF Undecided, NextBatch
    <3>2. InBatch
      BY <1>1 DEF IInv, Place
    <3> QED
      BY <1>1, <3>1, <3>2 DEF InBatch
  <2> QED
    BY <1>1, <1>2, <2>1 DEF Place, Starting, Working, Talking
<1> QED
  BY <1>1, <1>2, <1>3, <1>4, <1>5, QuietStep DEF IInv

\* In the sequential mode the driver's own call has answered.
LEMMA SequentialStep == ASSUME IInv, SequentialAnswer PROVE IInv'
<1> DEFINE p == state.reservation
<1>1. /\ UNCHANGED <<calls, signal, at, remaining, pause, late, crashes>>
      /\ pc = "calling" /\ Ready(p) /\ lanes' = NoLanes
      /\ \/ lanes[p] = "unknown" /\ pc' = "caught" /\ state' = state
         \/ /\ lanes[p] # "unknown" /\ state' = Noted(p)
            /\ pc' = IF state'.status = "stopped" THEN "outer" ELSE "project"
  BY DEF SequentialAnswer, Record, Goto, locals, world
<1>2. /\ p \in Pairs /\ state.inflight = {p} /\ state.status = "running"
      /\ \A q \in Pairs : InLane(q) <=> q = p
  BY <1>1 DEF IInv, Place, Working
<1>3. \A q \in Pairs : lanes'[q] = "idle"
  BY <1>1 DEF NoLanes
<1>4. ~state.parallel
  <2>1. p # NoPair /\ p \notin Decided(state)
    BY <1>2, NoPairAssumption DEF IInv, Accounts, Account
  <2> QED
    BY <2>1 DEF IInv, Sched
<1> HIDE DEF p
<1>5. lanes' \in [Pairs -> {"idle", "queued", "calling"} \cup Answers]
  BY <1>1 DEF NoLanes
<1>6. Revoking'
  BY <1>1, RevokingKept DEF IInv
<1>7. CASE lanes[p] = "unknown"
  <2>1. pc' = "caught" /\ state' = state
    BY <1>1, <1>7
  <2>2. SameCalls /\ SamePlan /\ TypeOK'
    BY <1>1, <1>5, <2>1 DEF SameCalls, SameAttempts, SamePlan, IInv, TypeOK
  <2>3. Place'
    BY <1>3, <2>1 DEF Place, Starting, Working, Talking
  <2> QED
    BY <1>1, <1>3, <1>6, <2>1, <2>2, <2>3, QuietStep
<1>8. CASE lanes[p] # "unknown"
  <2>1. state' = Noted(p) /\ pc' = IF state'.status = "stopped" THEN "outer" ELSE "project"
    BY <1>1, <1>8
  <2>2. \A q \in Pairs : q # p => lanes'[q] = lanes[q]
    BY <1>2, <1>3 DEF InLane
  <2>3. Accounts' /\ Verdicts' /\ Sched'
    BY <1>1, <1>2, <1>3, <1>8, <2>1, <2>2, NotedKeeps
  <2>4. /\ state' \in Progress /\ state'.inflight = {} /\ state'.parallel = state.parallel
        /\ state'.status \in {"running", "stopped"}
    BY <1>1, <1>2, <1>8, <2>1, NotedTells
  <2>5. TypeOK'
    BY <1>1, <1>5, <2>4 DEF IInv, TypeOK
  <2>6. Place'
    BY <1>3, <1>4, <2>1, <2>4 DEF Place, Starting, Working, Talking
  <2> QED
    BY <1>6, <2>3, <2>5, <2>6 DEF IInv
<1> QED
  BY <1>7, <1>8

\* The operator extends a task that is at rest.
LEMMA ExtendStep == ASSUME IInv, AcceptParallel PROVE IInv'
<1>1. /\ UNCHANGED <<pc, lanes, calls, signal, at, remaining, pause, late, crashes>>
      /\ pc = "down" /\ state.reservation = NoPair
      /\ state' = [state EXCEPT !.parallel = TRUE]
  BY DEF AcceptParallel, NothingOpen, Record, locals, world
<1>2. state \in Progress
  BY DEF IInv, TypeOK
<1>3. /\ state' \in Progress /\ SameCalls /\ state'.parallel /\ state'.status = state.status
      /\ state'.committed = state.committed /\ state'.prefix = state.prefix
      /\ state'.reservation = NoPair /\ state'.judged = state.judged
      /\ state'.realized = state.realized
  BY <1>1, <1>2 DEF Progress, SameCalls, SameAttempts
<1>4. TypeOK' /\ Revoking' /\ Accounts' /\ Verdicts'
  BY <1>1, <1>3, AccountsKept, VerdictsKept, RevokingKept DEF IInv, TypeOK, SameCalls
<1>5. Sched'
  <2>1. NextBatch' = NextBatch
    BY <1>3 DEF NextBatch
  <2> QED
    BY <1>1, <1>3, <2>1, CallsTell DEF IInv, Sched, SameCalls, SameAttempts
<1>6. Place'
  BY <1>1 DEF IInv, Place, Starting, Working, Talking
<1> QED
  BY <1>4, <1>5, <1>6 DEF IInv

\* Approving a retry takes up the failed pairs: those, and with an attempt left.
LEMMA ApproveStep == ASSUME IInv, AcceptQuotaRetry PROVE IInv'
<1> DEFINE F == HardFailed(state)
           A == {<<p, Len(state.attempts[p])>> : p \in F}
<1>1. /\ UNCHANGED <<pc, lanes, calls, signal, at, remaining, pause, late, crashes>>
      /\ pc = "down" /\ QuotaTerms
      /\ state' = [state EXCEPT !.status = "paused", !.approved = A, !.pending = Min(F)]
  BY DEF AcceptQuotaRetry, Record, locals, world
<1>2. state \in Progress /\ \A p \in Pairs : Len(state.attempts[p]) \in Nat
  BY DEF IInv, TypeOK, Progress
<1>3. Min(F) \in F /\ F \subseteq Pairs
  <2>1. F # {}
    <3>1. Cardinality(F) # 0
      BY <1>1 DEF QuotaTerms
    <3>2. Cardinality({}) = 0
      BY FS_EmptySet
    <3> HIDE DEF F
    <3> QED
      BY <3>1, <3>2
  <2>2. F \subseteq Pairs
    BY DEF HardFailed
  <2>3. F \subseteq Nat
    BY <2>2 DEF Pairs
  <2> QED
    BY <2>1, <2>2, <2>3, MinIsMember
<1>4. A \in SUBSET (Pairs \X Nat) /\ \A a \in A : a[2] < MaxAttempts
  BY <1>1, <1>2, <1>3 DEF QuotaTerms
<1> HIDE DEF A
<1>5. /\ state' \in Progress /\ state'.status = "paused" /\ state'.approved = A
      /\ state'.attempts = state.attempts /\ state'.inflight = state.inflight
      /\ state'.unknown = state.unknown /\ state'.pending = Min(F)
      /\ state'.committed = state.committed /\ state'.prefix = state.prefix
      /\ state'.reservation = state.reservation /\ state'.judged = state.judged
      /\ state'.realized = state.realized /\ state'.parallel = state.parallel
  <2>1. Min(F) \in Pairs \cup {NoPair}
    BY <1>3
  <2> HIDE DEF F
  <2> QED
    BY <1>1, <1>2, <1>4, <2>1 DEF Progress, Statuses
<1>6. /\ Decided(state') = Decided(state) /\ HardFailed(state') = F
      /\ \A q \in Pairs : Tried(state', q) = Tried(state, q) /\ Last(state', q) = Last(state, q)
  BY <1>5 DEF Decided, HardFailed, Tried, Last
<1>7. TypeOK' /\ Revoking'
  BY <1>1, <1>5, RevokingKept DEF IInv, TypeOK
<1>8. Accounts'
  <2> SUFFICES ASSUME NEW q \in Pairs PROVE Account(q)'
    BY <1>4, <1>5 DEF Accounts
  <2> QED
    BY <1>1, <1>5, <1>6 DEF IInv, Accounts, Account
<1>9. Verdicts'
  BY <1>1, <1>5, <1>6 DEF Verdicts, Unapproved, QuotaTerms, NothingOpen, A
<1>10. Sched'
  <2>1. NextBatch' = NextBatch /\ NextPair' = NextPair /\ BatchOpen' = BatchOpen
    BY <1>5 DEF NextBatch, NextPair, BatchOpen
  <2>2. state.parallel
    BY <1>1 DEF QuotaTerms
  <2> QED
    BY <1>5, <1>6, <2>1, <2>2 DEF IInv, Sched
<1>11. Place'
  BY <1>1 DEF IInv, Place, Starting, Working, Talking
<1> QED
  BY <1>7, <1>8, <1>9, <1>10, <1>11 DEF IInv

-----------------------------------------------------------------------------
\* A task that nobody has claimed.
LEMMA InitInvariant == Init => IInv
<1> SUFFICES ASSUME Init PROVE IInv
  OBVIOUS
<1>1. /\ state = Fresh /\ pc = "down" /\ signal = FALSE /\ late = 0 /\ crashes = 0
      /\ at = NoPair /\ remaining = {} /\ pause = FALSE /\ lanes = NoLanes
      /\ \A p \in Pairs : lanes[p] = "idle" /\ calls[p] = 0 /\ state.attempts[p] = <<>>
      /\ calls = [p \in Pairs |-> 0]
  BY DEF Init, NoLanes, Fresh
<1>2. /\ state.status = "ready" /\ state.inflight = {} /\ state.unknown = {} /\ state.approved = {}
      /\ state.reservation = NoPair /\ state.pending = NoPair /\ state.prefix = 0
      /\ state.committed = {} /\ ~state.judged /\ ~state.realized /\ ~state.parallel
  BY <1>1 DEF Fresh
<1>3. TypeOK
  <2>1. state \in Progress
    <3>1. Fresh.attempts \in [Pairs -> Seq(Recordable)] /\ 0 \in 0 .. PerCell
      BY SizeAssumption DEF Fresh
    <3> QED
      BY <1>1, <3>1 DEF Fresh, Progress, Statuses
  <2> QED
    <3>1. lanes \in [Pairs -> {"idle", "queued", "calling"} \cup Answers]
      BY <1>1 DEF NoLanes
    <3>2. calls \in [Pairs -> Nat]
      BY <1>1
    <3> QED
      BY <1>1, <2>1, <3>1, <3>2 DEF TypeOK
<1>4. \A p \in Pairs : ~Tried(state, p)
  BY <1>1 DEF Tried
<1>5. Accounts /\ Verdicts
  BY <1>1, <1>2, <1>4 DEF Accounts, Account, Verdicts, Unapproved, HardFailed
<1>6. Sched
  <2>1. NextBatch = 1
    <3>1. state.committed = 1 .. 0 /\ 0 \in 0 .. Count
      BY <1>2, CountTells
    <3> QED
      BY <3>1, NextOfPrefix DEF NextBatch, NextOf
  <2>2. 0 * BatchSize = 0 /\ 1 * BatchSize = BatchSize /\ BatchSize \in Nat
    BY SizeAssumption
  <2> QED
    BY <1>2, <1>4, <2>1, <2>2, CountTells DEF Sched
<1>7. Place /\ Revoking
  BY <1>1 DEF Place, Revoking, Starting, Working, Talking
<1> QED
  BY <1>3, <1>5, <1>6, <1>7 DEF IInv

\* Every step keeps the invariant.
LEMMA NextInvariant == IInv /\ [Next]_vars => IInv'
<1> SUFFICES ASSUME IInv, [Next]_vars PROVE IInv'
  OBVIOUS
<1>1. CASE Start \/ Claim \/ Loop \/ CheckGate \/ DerivePlan \/ EnterStudy
  BY <1>1, GoStep
<1>2. CASE AdmitTask \/ CheckIntent \/ CheckAnswer \/ Observe \/ AdmitEpoch \/ Invoke \/ Outer
  BY <1>2, NoteStep
<1>3. CASE FinishEpoch \/ Caught \/ Unwind \/ Interrupt \/ Crash
  BY <1>3, LeaveStep
<1>4. CASE EnterProjection \/ SequentialGate
  BY <1>4, ProjectStep
<1>5. CASE ReservePair \/ PersistJudgment \/ PersistRealized \/ SettlePair
  BY <1>5, PairStep
<1>6. CASE CommitBatch
  BY <1>6, CommitStep
<1>7. CASE EnterBatch
  BY <1>7, EnterStep
<1>8. CASE \E p \in Pairs : Gate(p)
  BY <1>8, GateStep
<1>9. CASE Intent
  BY <1>9, IntentStep
<1>10. CASE \E p \in Pairs : Drain(p)
  BY <1>10, DrainStep
<1>11. CASE EndBatch
  BY <1>11, EndStep
<1>12. CASE SequentialAnswer
  BY <1>12, SequentialStep
<1>13. CASE \E p \in Pairs : Call(p) \/ Answer(p)
  BY <1>13, WorkerStep
<1>14. CASE Revoke
  BY <1>14, RevokeStep
<1>15. CASE AcceptParallel
  BY <1>15, ExtendStep
<1>16. CASE AcceptQuotaRetry
  BY <1>16, ApproveStep
<1>17. CASE UNCHANGED vars
  <2>1. UNCHANGED <<state, pc, at, remaining, pause, lanes, calls, signal, late, crashes>>
    BY <1>17 DEF vars, disk, locals, world
  <2>2. SameCalls /\ SamePlan /\ TypeOK' /\ Revoking'
    BY <2>1 DEF SameCalls, SameAttempts, SamePlan, IInv, TypeOK, Revoking
  <2>3. Place'
    BY <2>1 DEF IInv, Place, InBatch, Intended, InLane, Undecided, NextBatch
  <2> QED
    BY <2>1, <2>2, <2>3, QuietStep DEF IInv
<1> QED
  BY <1>1, <1>2, <1>3, <1>4, <1>5, <1>6, <1>7, <1>8, <1>9, <1>10, <1>11, <1>12, <1>13, <1>14,
     <1>15, <1>16, <1>17
  DEF Next, Driver

\* Types, the account of every pair, what a status says of failures, the place in the
\* schedule, the place of the driver and what may follow a revocation.
THEOREM InvariantHolds == Spec => []IInv
BY InitInvariant, NextInvariant, PTL DEF Spec

\* Whatever interleaves with it, a revocation lets one dispatch through at most: the
\* one that had passed its gate.
THEOREM RevocationHolds == Spec => []RevocationStopsDispatch
<1>1. IInv => RevocationStopsDispatch
  BY DEF IInv, Revoking, RevocationStopsDispatch
<1> QED
  BY <1>1, InvariantHolds, PTL

\* A pair is called only when every batch before its own is settled and committed.
THEOREM BarrierHolds == Spec => []BatchBarrier
<1>1. IInv => BatchBarrier
  <2> SUFFICES ASSUME IInv, NEW p \in Pairs, calls[p] > 0
               PROVE  /\ \A b \in Batches : b < BatchOf(p) => b \in state.committed
                      /\ (BatchOf(p) - 1) * BatchSize <= state.prefix
    BY DEF BatchBarrier
  <2>1. Account(p) /\ calls[p] \in Nat /\ state.attempts[p] \in Seq(Recordable)
    BY DEF IInv, Accounts, TypeOK, Progress
  <2>2. Tried(state, p) \/ p \in state.inflight
    BY <2>1 DEF Account, Tried
  <2>3. BatchOf(p) <= NextBatch /\ BatchOf(p) \in Nat \ {0} /\ NextBatch \in Nat \ {0}
    BY <2>2, BatchBound, CountTells DEF IInv, Sched
  <2>4. \A b \in Batches : b < BatchOf(p) => b \in state.committed
    BY <2>3, CountTells DEF IInv, Sched
  <2>5. (BatchOf(p) - 1) * BatchSize <= (NextBatch - 1) * BatchSize
    BY <2>3, SizeAssumption
  <2>6. (NextBatch - 1) * BatchSize <= state.prefix
    BY DEF IInv, Sched
  <2> QED
    <3>1. /\ (BatchOf(p) - 1) * BatchSize \in Int /\ (NextBatch - 1) * BatchSize \in Int
          /\ state.prefix \in Int
      BY <2>3, SizeAssumption DEF IInv, TypeOK, Progress
    <3> QED
      BY <2>4, <2>5, <2>6, <3>1
<1> QED
  BY <1>1, InvariantHolds, PTL

-----------------------------------------------------------------------------
\* Away from the dispatches, the answers and the workers, no record of a call changes.
LEMMA Elsewhere ==
  ASSUME IInv, [Next]_vars, ~Intent, ~SequentialAnswer,
         \A p \in Pairs : ~Drain(p) /\ ~Call(p)
  PROVE  calls' = calls /\ state'.attempts = state.attempts /\ state'.inflight = state.inflight
<1> DEFINE Kept == state'.attempts = state.attempts /\ state'.inflight = state.inflight
<1>1. state \in Progress
  BY DEF IInv, TypeOK
<1>2. CASE state' = state
  BY <1>2 DEF Next, Driver, Start, Claim, AdmitTask, Loop, CheckGate, CheckIntent, CheckAnswer,
     Observe, DerivePlan, EnterStudy, AdmitEpoch, Invoke, EnterBatch, Gate, EndBatch,
     EnterProjection, ReservePair, SequentialGate, PersistJudgment, PersistRealized, SettlePair,
     CommitBatch, FinishEpoch, Caught, Unwind, Outer, Answer, Interrupt, Crash, Revoke,
     AcceptParallel, AcceptQuotaRetry, vars, world
<1>3. CASE AdmitTask \/ CheckIntent \/ CheckAnswer \/ Observe \/ Outer
  <2>1. Kept
    BY <1>1, <1>3 DEF AdmitTask, CheckIntent, CheckAnswer, Observe, Outer, ObserveRevocation,
       Record, Progress
  <2> QED
    BY <1>3, <2>1 DEF AdmitTask, CheckIntent, CheckAnswer, Observe, Outer, world
<1>4. CASE AdmitEpoch \/ Invoke \/ EnterBatch \/ FinishEpoch \/ Caught
  <2>1. Kept
    BY <1>1, <1>4 DEF AdmitEpoch, Invoke, EnterBatch, FinishEpoch, Caught, Record, Progress
  <2> QED
    BY <1>4, <2>1 DEF AdmitEpoch, Invoke, EnterBatch, FinishEpoch, Caught, world
<1>5. CASE ReservePair \/ PersistJudgment \/ PersistRealized \/ SettlePair \/ CommitBatch
  <2>1. Kept
    BY <1>1, <1>5 DEF ReservePair, PersistJudgment, PersistRealized, SettlePair, CommitBatch,
       Record, Progress
  <2> QED
    BY <1>5, <2>1 DEF ReservePair, PersistJudgment, PersistRealized, SettlePair, CommitBatch, world
<1>6. CASE AcceptParallel \/ AcceptQuotaRetry
  <2>1. Kept
    BY <1>1, <1>6 DEF AcceptParallel, AcceptQuotaRetry, Record, Progress
  <2> QED
    BY <1>6, <2>1 DEF AcceptParallel, AcceptQuotaRetry, world
<1>7. CASE \/ Start \/ Claim \/ Loop \/ CheckGate \/ DerivePlan \/ EnterStudy \/ EndBatch
           \/ EnterProjection \/ SequentialGate \/ Unwind \/ Interrupt \/ Crash \/ Revoke
           \/ (\E p \in Pairs : Gate(p) \/ Answer(p)) \/ UNCHANGED vars
  <2>1. state' = state
    BY <1>7 DEF Start, Claim, Loop, CheckGate, DerivePlan, EnterStudy, EndBatch, EnterProjection,
       SequentialGate, Unwind, Interrupt, Crash, Revoke, Gate, Answer, vars
  <2> QED
    BY <1>2, <2>1
<1> QED
  BY <1>3, <1>4, <1>5, <1>6, <1>7 DEF Next, Driver

\* A lane is emptied only by the record of its answer, by a handler whose pool has
\* ended, or by an interrupt or a kill.
LEMMA LanesDrain == ASSUME IInv, [Next]_vars, NEW p \in Pairs PROVE Drains(p)
<1> SUFFICES ASSUME InLane(p), lanes'[p] = "idle"
             PROVE  Recorded(p) \/ pc = "unwind" \/ crashes' > crashes
  BY DEF Drains
<1>1. pc \in Talking /\ lanes[p] # "idle" /\ p \in state.inflight
  BY DEF IInv, Place, InLane, Accounts, Account
<1>2. CASE Interrupt \/ Crash
  BY <1>2 DEF Interrupt, Crash, IInv, TypeOK
<1>3. CASE Unwind \/ EndBatch \/ Caught
  BY <1>1, <1>3 DEF Unwind, EndBatch, Caught, Drained, InLane, Talking
<1>4. CASE SequentialAnswer
  <2>1. p = state.reservation /\ pc = "calling" /\ Ready(p)
    BY <1>1, <1>4 DEF SequentialAnswer, IInv, Place, InLane
  <2>2. CASE lanes[p] # "unknown"
    <3>1. state' = Noted(p)
      BY <1>4, <2>1, <2>2 DEF SequentialAnswer, Record
    <3>2. state'.inflight = state.inflight \ {p}
      BY <1>1, <2>1, <2>2, <3>1, NotedTells
    <3> QED
      BY <1>1, <3>2 DEF Recorded
  <2> QED
    BY <2>1, <2>2 DEF Recorded
<1>5. CASE \E q \in Pairs : Drain(q)
  <2> SUFFICES ASSUME NEW q \in Pairs, Drain(q) PROVE Recorded(p)
    BY <1>5
  <2>1. Ready(q) /\ state' = Noted(q) /\ lanes' = [lanes EXCEPT ![q] = "idle"]
    BY DEF Drain, Record
  <2>2. q = p
    BY <1>1, <2>1 DEF IInv, TypeOK
  <2>3. CASE lanes[p] = "unknown"
    BY <2>1, <2>2, <2>3 DEF Noted, Unresolved, Recorded, IInv, TypeOK, Progress
  <2>4. CASE lanes[p] # "unknown"
    BY <1>1, <2>1, <2>2, <2>4, NotedTells DEF Recorded
  <2> QED
    BY <2>3, <2>4
<1>6. CASE Intent \/ \E q \in Pairs : Call(q) \/ Answer(q)
  <2>1. \A x \in {"queued", "calling"} \cup Answers : x # "idle"
    BY DEF Answers, Outcomes
  <2> QED
    BY <1>1, <1>6, <2>1 DEF Intent, Call, Answer, IInv, TypeOK
<1>7. CASE lanes' = lanes
  BY <1>1, <1>7
<1> QED
  <2>1. CASE \/ Start \/ Claim \/ AdmitTask \/ Loop \/ CheckGate \/ CheckIntent \/ CheckAnswer
             \/ Observe \/ DerivePlan \/ EnterStudy \/ AdmitEpoch \/ Invoke \/ EnterBatch
             \/ EnterProjection \/ ReservePair \/ SequentialGate \/ PersistJudgment
             \/ PersistRealized \/ SettlePair \/ CommitBatch \/ FinishEpoch \/ Outer \/ Revoke
             \/ AcceptParallel \/ AcceptQuotaRetry \/ (\E q \in Pairs : Gate(q)) \/ UNCHANGED vars
    BY <1>7, <2>1 DEF Start, Claim, AdmitTask, Loop, CheckGate, CheckIntent, CheckAnswer,
       Observe, DerivePlan, EnterStudy, AdmitEpoch, Invoke, EnterBatch, EnterProjection,
       ReservePair, SequentialGate, PersistJudgment, PersistRealized, SettlePair, CommitBatch,
       FinishEpoch, Outer, Revoke, AcceptParallel, AcceptQuotaRetry, Gate, vars
  <2> QED
    BY <1>2, <1>3, <1>4, <1>5, <1>6, <2>1 DEF Next, Driver

\* Nothing but an intent adds a dispatch, and none is added that may not be.
LEMMA DispatchHolds == ASSUME IInv, [Next]_vars, NEW p \in Pairs PROVE Holds(p)
<1> SUFFICES ASSUME p \in state'.inflight, p \notin state.inflight PROVE Dispatchable(p)
  BY DEF Holds
<1>1. CASE Intent
  <2>1. state' = [state EXCEPT !.inflight = @ \cup {at}]
    BY <1>1 DEF Intent, Record
  <2>2. p = at
    BY <2>1 DEF IInv, TypeOK, Progress
  <2> QED
    BY <1>1, <2>2, IntentTells DEF Dispatchable
<1>2. ASSUME NEW q \in Pairs, Ready(q), q \in state.inflight, state' = Noted(q) PROVE FALSE
  <2>1. CASE lanes[q] = "unknown"
    BY <1>2, <2>1 DEF Noted, Unresolved, IInv, TypeOK, Progress
  <2>2. CASE lanes[q] # "unknown"
    BY <1>2, <2>2, NotedTells
  <2> QED
    BY <2>1, <2>2
<1>3. CASE SequentialAnswer
  <2>1. state.reservation \in Pairs /\ state.reservation \in state.inflight
    BY <1>3 DEF SequentialAnswer, IInv, Place
  <2> QED
    BY <1>2, <1>3, <2>1 DEF SequentialAnswer, Record
<1>4. CASE \E q \in Pairs : Drain(q)
  <2> SUFFICES ASSUME NEW q \in Pairs, Drain(q) PROVE FALSE
    BY <1>4
  <2>1. Ready(q) /\ state' = Noted(q) /\ Account(q)
    BY DEF Drain, Record, IInv, Accounts
  <2>2. q \in state.inflight
    BY <2>1 DEF Account, Ready, Answers, Outcomes
  <2> QED
    BY <1>2, <2>1, <2>2
<1>5. CASE \E q \in Pairs : Call(q)
  BY <1>5 DEF Call
<1> QED
  BY <1>1, <1>3, <1>4, <1>5, Elsewhere

\* A stop or a lost answer holds everything back but what the operator approved, and
\* no answer that a worker brings is left in its lane.
THEOREM StopHolds == Spec => StopDrainsAndHolds
<1>1. IInv /\ [Next]_vars => [\A p \in Pairs : Holds(p) /\ Drains(p)]_vars
  BY LanesDrain, DispatchHolds
<1> QED
  BY <1>1, InvariantHolds, PTL DEF Spec, StopDrainsAndHolds

-----------------------------------------------------------------------------
\* The chain implements AttemptLedger.
Charged == [p \in Pairs |-> Len(state.attempts[p]) + (IF p \in state.inflight THEN 1 ELSE 0)]
Noting  == [p \in Pairs |-> Len(state.attempts[p])]

\* How the two differ.
LEMMA LedgerTells ==
  ASSUME IInv, NEW p \in Pairs
  PROVE  /\ Noting[p] \in Nat /\ Noting[p] = Len(state.attempts[p])
         /\ p \in state.inflight => Charged[p] = Noting[p] + 1
         /\ p \notin state.inflight => Charged[p] = Noting[p]
<1>1. Len(state.attempts[p]) \in Nat
  BY DEF IInv, TypeOK, Progress
<1>2. Noting[p] = Len(state.attempts[p])
  BY DEF Noting
<1>3. Charged[p] = Len(state.attempts[p]) + (IF p \in state.inflight THEN 1 ELSE 0)
  BY DEF Charged
<1>4. CASE p \in state.inflight
  <2>1. Charged[p] = Len(state.attempts[p]) + 1
    BY <1>3, <1>4
  <2> QED
    BY <1>1, <1>2, <1>4, <2>1
<1>5. CASE p \notin state.inflight
  <2>1. Charged[p] = Len(state.attempts[p])
    BY <1>1, <1>3, <1>5
  <2> QED
    BY <1>1, <1>2, <1>5, <2>1
<1> QED
  BY <1>4, <1>5

\* A step that changes no record of a call is no step of the ledger.
LEMMA LedgerStutter ==
  ASSUME calls' = calls, state'.attempts = state.attempts, state'.inflight = state.inflight
  PROVE  UNCHANGED Ledger!vars
BY DEF Ledger!vars, Decided, Tried, Last

\* An intent charges its attempt.
LEMMA LedgerCharge == ASSUME IInv, Intent PROVE Ledger!Next
<1>1. /\ at \in Pairs /\ at \notin Decided(state) /\ at \notin state.inflight
      /\ Len(state.attempts[at]) < MaxAttempts
  BY IntentTells
<1>2. state' = [state EXCEPT !.inflight = @ \cup {at}] /\ calls' = calls
  BY DEF Intent, Record, world
<1>3. /\ state \in Progress /\ state'.attempts = state.attempts
      /\ state'.inflight = state.inflight \cup {at}
  BY <1>2 DEF IInv, TypeOK, Progress
<1>4. Noting' = Noting /\ Decided(state)' = Decided(state)
  BY <1>3 DEF Noting, Decided, Tried, Last
<1>5. PICK p \in Pairs : p = at
  BY <1>1
<1>6. Charged[p] = Noting[p] /\ Charged[p] < MaxAttempts
  BY <1>1, <1>5, LedgerTells
<1>7. Charged' = [Charged EXCEPT ![p] = @ + 1]
  <2>1. ASSUME NEW q \in Pairs PROVE Charged'[q] = IF q = p THEN Charged[p] + 1 ELSE Charged[q]
    <3>1. Charged'[q] = Len(state.attempts[q]) + (IF q \in state'.inflight THEN 1 ELSE 0)
      BY <1>3 DEF Charged
    <3>2. Charged[q] = Len(state.attempts[q]) + (IF q \in state.inflight THEN 1 ELSE 0)
      BY DEF Charged
    <3>3. CASE q = p
      BY <1>1, <1>3, <1>5, <3>1, <3>3, LedgerTells
    <3>4. CASE q # p
      BY <1>3, <1>5, <3>1, <3>2, <3>4
    <3> QED
      BY <3>3, <3>4
  <2> QED
    BY <2>1 DEF Charged
<1>8. Ledger!Charge(p)
  BY <1>1, <1>2, <1>4, <1>5, <1>6, <1>7 DEF Ledger!Charge, Charged, Noting
<1> QED
  BY <1>8 DEF Ledger!Next

\* A worker's call is one.
LEMMA LedgerCall == ASSUME IInv, NEW p \in Pairs, Call(p) PROVE Ledger!Next
<1>1. lanes[p] = "queued" /\ calls' = [calls EXCEPT ![p] = @ + 1] /\ state' = state
  BY DEF Call
<1>2. Account(p)
  BY DEF IInv, Accounts
<1>3. calls[p] < Charged[p]
  BY <1>1, <1>2, LedgerTells DEF Account
<1>4. Charged' = Charged /\ Noting' = Noting /\ Decided(state)' = Decided(state)
  BY <1>1 DEF Charged, Noting, Decided, Tried, Last
<1>5. Ledger!Call(p)
  BY <1>1, <1>3, <1>4 DEF Ledger!Call, Charged, Noting
<1> QED
  BY <1>5 DEF Ledger!Next

\* An answer recorded settles it; one whose outcome is unknown leaves it open.
LEMMA LedgerSettle ==
  ASSUME IInv, NEW p \in Pairs, p \in state.inflight, Ready(p), state' = Noted(p), calls' = calls
  PROVE  [Ledger!Next]_(Ledger!vars)
<1>1. state \in Progress /\ Account(p) /\ \A q \in Pairs : Len(state.attempts[q]) \in Nat
  BY Records DEF IInv, Accounts, TypeOK
<1>2. CASE lanes[p] = "unknown"
  <2>1. state'.attempts = state.attempts /\ state'.inflight = state.inflight
    BY <1>1, <1>2 DEF Noted, Unresolved, Progress
  <2> QED
    BY <2>1, LedgerStutter
<1>3. CASE lanes[p] # "unknown"
  <2>1. state'.inflight = state.inflight \ {p}
    BY <1>3, NotedTells
  <2>2. /\ \A q \in Pairs : q # p => /\ state'.attempts[q] = state.attempts[q]
                                     /\ q \in Decided(state') <=> q \in Decided(state)
        /\ Len(state'.attempts[p]) = Len(state.attempts[p]) + 1
        /\ Decided(state) \subseteq Decided(state')
    BY <1>3, NotedAttempts
  <2>3. calls[p] = Len(state.attempts[p]) + 1 /\ Charged[p] = Len(state.attempts[p]) + 1
    BY <1>1, LedgerTells DEF Account, Ready, Answers, Outcomes
  <2>4. Charged' = Charged
    <3>1. ASSUME NEW q \in Pairs PROVE Charged'[q] = Charged[q]
      <4>1. Charged'[q] = Len(state'.attempts[q]) + (IF q \in state'.inflight THEN 1 ELSE 0)
        BY DEF Charged
      <4>2. CASE q = p
        BY <1>1, <2>1, <2>2, <2>3, <4>1, <4>2
      <4>3. CASE q # p
        BY <2>1, <2>2, <4>1, <4>3 DEF Charged
      <4> QED
        BY <4>2, <4>3
    <3> QED
      BY <3>1 DEF Charged
  <2>5. Noting' = [Noting EXCEPT ![p] = @ + 1] /\ Noting[p] < Charged[p]
    <3>1. \A q \in Pairs : Noting'[q] = IF q = p THEN Noting[p] + 1 ELSE Noting[q]
      BY <1>1, <2>2 DEF Noting
    <3>2. Noting' = [Noting EXCEPT ![p] = @ + 1]
      BY <3>1 DEF Noting
    <3> QED
      BY <1>1, <2>3, <3>2, LedgerTells
  <2>6. Decided(state') \in {Decided(state), Decided(state) \cup {p}}
    <3>1. Decided(state') \subseteq Pairs /\ Decided(state) \subseteq Pairs
      BY DEF Decided
    <3>2. CASE p \in Decided(state')
      BY <2>2, <3>1, <3>2
    <3>3. CASE p \notin Decided(state')
      BY <2>2, <3>1, <3>3
    <3> QED
      BY <3>2, <3>3
  <2>7. Ledger!Settle(p)
    BY <2>3, <2>4, <2>5, <2>6 DEF Ledger!Settle, Charged, Noting
  <2> QED
    BY <2>7 DEF Ledger!Next
<1> QED
  BY <1>2, <1>3

\* Over revocations, kills, lost answers and restarts: an attempt is on the chain before
\* its call, is called once, and no pair is tried again while an attempt of it is open,
\* after it succeeded, or more often than MaxAttempts.
THEOREM AttemptsAreKept == Spec => KeepsAttemptPromise
<1>1. Init => Ledger!Init
  <2> SUFFICES ASSUME Init PROVE Ledger!Init
    OBVIOUS
  <2>1. /\ state.inflight = {} /\ \A p \in Pairs : state.attempts[p] = <<>>
        /\ calls = [p \in Pairs |-> 0]
    BY DEF Init, Fresh
  <2>2. Charged = [p \in Pairs |-> 0] /\ Noting = [p \in Pairs |-> 0] /\ Decided(state) = {}
    BY <2>1 DEF Charged, Noting, Decided, Tried
  <2> QED
    BY <2>1, <2>2 DEF Ledger!Init, Charged, Noting
<1>2. IInv /\ [Next]_vars => [Ledger!Next]_(Ledger!vars)
  <2> SUFFICES ASSUME IInv, [Next]_vars PROVE [Ledger!Next]_(Ledger!vars)
    OBVIOUS
  <2>1. CASE Intent
    BY <2>1, LedgerCharge
  <2>2. CASE \E p \in Pairs : Call(p)
    BY <2>2, LedgerCall
  <2>3. CASE SequentialAnswer
    <3>1. /\ state.reservation \in Pairs /\ state.reservation \in state.inflight
          /\ Ready(state.reservation) /\ calls' = calls
          /\ state' = Noted(state.reservation) \/ state' = state
      BY <2>3 DEF SequentialAnswer, IInv, Place, Record, world
    <3> QED
      BY <3>1, LedgerSettle, LedgerStutter
  <2>4. CASE \E p \in Pairs : Drain(p)
    <3> SUFFICES ASSUME NEW p \in Pairs, Drain(p) PROVE [Ledger!Next]_(Ledger!vars)
      BY <2>4
    <3>1. Ready(p) /\ state' = Noted(p) /\ Account(p) /\ calls' = calls
      BY DEF Drain, Record, IInv, Accounts, world
    <3>2. p \in state.inflight
      BY <3>1 DEF Account, Ready, Answers, Outcomes
    <3> QED
      BY <3>1, <3>2, LedgerSettle
  <2>5. CASE ~Intent /\ ~SequentialAnswer /\ \A p \in Pairs : ~Drain(p) /\ ~Call(p)
    BY <2>5, Elsewhere, LedgerStutter
  <2> QED
    BY <2>1, <2>2, <2>3, <2>4, <2>5
<1> QED
  BY <1>1, <1>2, InvariantHolds, PTL DEF Spec, KeepsAttemptPromise, Ledger!Spec
=============================================================================
