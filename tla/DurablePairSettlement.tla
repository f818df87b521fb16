------------------------ MODULE DurablePairSettlement ------------------------
(***************************************************************************)
(* Waves of provider calls, one thread per pair, settled durably one by    *)
(* one by the main thread in the order in which they complete.  The        *)
(* journal is written ahead of every call; a process that dies inside a    *)
(* wave leaves it open, and the next one seals it without calling anybody. *)
(* Source: durable_pair_settlement.py.                                     *)
(*                                                                         *)
(* The caller passes frozen waves; the adapters are modelled by the        *)
(* calls they make and the kind of outcome they end in.  The legacy ledger *)
(* is the optional event sink, here always connected.                      *)
(***************************************************************************)
EXTENDS Integers, Sequences, FiniteSetsExt, InOrder

CONSTANTS
  Pairs,            \* the pairs to be judged
  MaxAttempts,      \* maximum_attempts_per_dispatch, the reserved retry window
  MaxConcurrency,   \* max_concurrency, the longest wave
  Offered,          \* the frozen waves the caller may pass, in schedule order
  AttemptLimit,     \* bound: calls an adapter may make, window kept or not
  MaxCrashes        \* bound: how often the process dies in one behaviour

ASSUME PairsAssumption    == IsFiniteSet(Pairs)
ASSUME AttemptsAssumption == MaxAttempts \in Nat \ {0} /\ AttemptLimit \in Nat
ASSUME WaveAssumption     == MaxConcurrency \in Nat \ {0}
ASSUME CrashAssumption    == MaxCrashes \in Nat

\* A wave holds distinct pairs, one lane each.
Frozen == {w \in UNION {[1 .. n -> Pairs] : n \in 1 .. MaxConcurrency} :
             \A i, j \in DOMAIN w : w[i] = w[j] => i = j}

ASSUME OfferedAssumption == Offered \subseteq Frozen

VARIABLES
  \* --- on disk ---
  journal,    \* the settlement journal
  legacy,     \* the canonical ledger of the legacy event sink
  \* --- in the process ---
  pc,         \* what the main thread does next; it is not running when at rest
  known,      \* the pairs the last replay, or a closed wave, dispatched
  waves,      \* how many waves it knows
  wave,       \* the canonical pairs of the wave in flight
  done,       \* its settled outcomes in completion order
  sent,       \* how much of its legacy closure has been written
  lanes,      \* each pair's call: "idle", "calling" or the kind it ended in
  made,       \* the calls each adapter has counted since the wave was reserved
  \* --- in the world ---
  attempts,   \* physical calls really made for each pair
  answers,    \* the kind each pair's call has really ended in
  \* --- bound ---
  crashes

memory == <<known, waves, wave, done, sent>>
calls  == <<lanes, made, attempts, answers>>
vars   == <<journal, legacy, pc, memory, calls, crashes>>

AtRest == {"down", "rejected"}
Kinds  == {"terminal", "provenance_unknown", "implementation_failed"}

-----------------------------------------------------------------------------
\* The records of the journal and of the legacy ledger.

WaveReserved(n, pairs)     == [type |-> "wave_reserved", wave |-> n, pairs |-> pairs]
PairDispatched(n, p)       == [type |-> "pair_dispatched", wave |-> n, pair |-> p]
PairSettled(n, o)          == [type |-> "pair_settled", wave |-> n, outcome |-> o]
WaveClosed(n, summary)     == [type |-> "wave_closed", wave |-> n, summary |-> summary]

Settled(p, kind, actual) ==
  [pair |-> p, kind |-> kind, actual |-> actual, charge |-> actual, recovered |-> FALSE]

\* A dispatch whose answer was lost is charged its whole window.
Recovered(p) ==
  [pair |-> p, kind |-> "provenance_unknown", actual |-> 0,
   charge |-> MaxAttempts, recovered |-> TRUE]

PairsOf(outcomes) == {outcomes[i].pair : i \in DOMAIN outcomes}

IsTerminal(outcomes, p) ==
  \E i \in DOMAIN outcomes : outcomes[i].pair = p /\ outcomes[i].kind = "terminal"

\* The longest prefix of the canonical pairs that is terminal.
Frontier(pairs, outcomes) ==
  {pairs[i] : i \in {j \in DOMAIN pairs :
                       \A h \in 1 .. j : IsTerminal(outcomes, pairs[h])}}

Charge(outcomes) == MapThenSumSet(LAMBDA i : outcomes[i].charge, DOMAIN outcomes)

Summary(pairs, dispatched, outcomes) ==
  [pairs |-> pairs, dispatched |-> dispatched, completion |-> outcomes,
   charge |-> Charge(outcomes), frontier |-> Frontier(pairs, outcomes)]

\* What a closed wave adds to the legacy ledger: its accounting, then its frontier.
LegacyClosure ==
  <<[type |-> "wave_accounting", pairs |-> wave, charge |-> Charge(done)]>>
    \o [i \in 1 .. Cardinality(Frontier(wave, done)) |->
          [type |-> "pair_terminal", pair |-> wave[i]]]

-----------------------------------------------------------------------------
\* Reading the first n records of the journal back.

Indices(type, n)   == {i \in 1 .. n : journal[i].type = type}
Reserved(n)        == Indices("wave_reserved", n)
IsOpen(n)          == Cardinality(Reserved(n)) > Cardinality(Indices("wave_closed", n))
Closed(n)          == Cardinality(Indices("wave_closed", n))
DispatchedPairs(n) == {journal[i].pair : i \in Indices("pair_dispatched", n)}

\* The open wave after n records: its reservation, its dispatched pairs, which
\* are taken in canonical order, and its outcomes in completion order.
Start(n)        == Max(Reserved(n))
Lanes(n)        == journal[Start(n)].pairs
Dispatched(n)   ==
  SubSeq(Lanes(n), 1, Cardinality({i \in Indices("pair_dispatched", n) : i > Start(n)}))
SettledSince(n) == InOrder({i \in Indices("pair_settled", n) : i > Start(n)})
Outcomes(n)     == [k \in DOMAIN SettledSince(n) |-> journal[SettledSince(n)[k]].outcome]

\* Accounting that the reader takes: exact inside the window, or the whole window
\* for a dispatch recovered without its settlement.
Accounted(o) ==
  \/ o.recovered /\ o.kind = "provenance_unknown" /\ o.actual = 0 /\ o.charge = MaxAttempts
  \/ ~o.recovered /\ o.actual <= MaxAttempts /\ o.charge = o.actual

\* Whether the replay takes record i after the ones before it, or raises.
Accepts(i) ==
  LET rec == journal[i]
      n   == i - 1
  IN \/ /\ rec.type = "wave_reserved" /\ ~IsOpen(n)
        /\ rec.wave = Closed(n)
        /\ rec.pairs \in Frozen
        /\ DispatchedPairs(n) \cap {rec.pairs[j] : j \in DOMAIN rec.pairs} = {}
     \/ /\ rec.type = "pair_dispatched" /\ IsOpen(n)
        /\ rec.wave = Closed(n)
        /\ Len(Dispatched(n)) < Len(Lanes(n))
        /\ rec.pair = Lanes(n)[Len(Dispatched(n)) + 1]
     \/ /\ rec.type = "pair_settled" /\ IsOpen(n)
        /\ rec.wave = Closed(n)
        /\ \E j \in DOMAIN Dispatched(n) : Dispatched(n)[j] = rec.outcome.pair
        /\ rec.outcome.pair \notin PairsOf(Outcomes(n))
        /\ Accounted(rec.outcome)
     \/ /\ rec.type = "wave_closed" /\ IsOpen(n)
        /\ Len(Outcomes(n)) = Len(Dispatched(n))
        /\ rec.wave = Closed(n)
        /\ rec.summary = Summary(Lanes(n), Dispatched(n), Outcomes(n))

Readable == \A i \in 1 .. Len(journal) : Accepts(i)

-----------------------------------------------------------------------------
\* Starting, and dying.

NoCalls == [p \in Pairs |-> "idle"]
Zero    == [p \in Pairs |-> 0]

Init ==
  /\ journal = <<>> /\ legacy = <<>>
  /\ pc = "down"
  /\ known = {} /\ waves = 0 /\ wave = <<>> /\ done = <<>> /\ sent = 0
  /\ lanes = NoCalls /\ made = Zero
  /\ attempts = Zero /\ answers = NoCalls
  /\ crashes = 0

\* What ends with the process.
Forget ==
  /\ known' = {} /\ waves' = 0 /\ wave' = <<>> /\ done' = <<>> /\ sent' = 0
  /\ lanes' = NoCalls /\ made' = Zero

\* replay(seal_inflight=True), which every caller that resumes starts with.
Replay ==
  /\ pc = "down"
  /\ LET n == Len(journal)
     IN  IF ~Readable
         THEN pc' = "rejected" /\ UNCHANGED memory
         ELSE /\ known' = DispatchedPairs(n)
              /\ waves' = Closed(n)
              /\ sent' = 0
              /\ IF IsOpen(n)
                 THEN pc' = "seal" /\ wave' = Lanes(n) /\ done' = Outcomes(n)
                 ELSE pc' = "ready" /\ wave' = <<>> /\ done' = <<>>
  /\ UNCHANGED <<journal, legacy, calls, crashes>>

\* The process is killed; its threads die with it.
Crash ==
  /\ pc \notin AtRest
  /\ crashes < MaxCrashes
  /\ crashes' = crashes + 1
  /\ pc' = "down"
  /\ Forget
  /\ UNCHANGED <<journal, legacy, attempts, answers>>

-----------------------------------------------------------------------------
\* Sealing a wave that a dead process left open: no adapter is called.

DispatchedHere == Dispatched(Len(journal))

SealPair ==
  /\ pc = "seal"
  /\ \E j \in DOMAIN DispatchedHere :
       LET p == DispatchedHere[j]
       IN  /\ p \notin PairsOf(done)
           /\ \A h \in 1 .. j - 1 : DispatchedHere[h] \in PairsOf(done)
           /\ journal' = Append(journal, PairSettled(waves, Recovered(p)))
           /\ done' = Append(done, Recovered(p))
  /\ UNCHANGED <<legacy, pc, known, waves, wave, sent, calls, crashes>>

SealWave ==
  /\ pc = "seal"
  /\ Len(done) = Len(DispatchedHere)
  /\ journal' = Append(journal, WaveClosed(waves, Summary(wave, DispatchedHere, done)))
  /\ waves' = waves + 1
  /\ pc' = "ready"
  /\ wave' = <<>> /\ done' = <<>>
  /\ UNCHANGED <<legacy, known, sent, calls, crashes>>

-----------------------------------------------------------------------------
\* Running a wave: settle_wave.

\* A pair is not dispatched again.  (Mutant: one without its terminal may
\* be.)
FreshUnlessSettled(pairs) ==
  \A i \in DOMAIN pairs : pairs[i] \in known => answers[pairs[i]] # "terminal"
Fresh(pairs) == \A i \in DOMAIN pairs : pairs[i] \notin known

ReserveWave ==
  /\ pc = "ready"
  /\ \E pairs \in Offered :
       /\ Fresh(pairs)
       /\ journal' = Append(journal, WaveReserved(waves, pairs))
       /\ wave' = pairs
  /\ pc' = "reserved"
  /\ done' = <<>> /\ sent' = 0
  /\ lanes' = NoCalls /\ made' = Zero
  /\ UNCHANGED <<legacy, known, waves, attempts, answers, crashes>>

AnnounceWave ==
  /\ pc = "reserved"
  /\ legacy' = Append(legacy, [type |-> "suffix_wave_reserved", pairs |-> wave])
  /\ pc' = "dispatch"
  /\ UNCHANGED <<journal, memory, calls, crashes>>

\* The next pair to be dispatched, in canonical order.
Lane == wave[Len(DispatchedHere) + 1]

DispatchPair ==
  /\ pc = "dispatch"
  /\ Len(DispatchedHere) < Len(wave)
  /\ journal' = Append(journal, PairDispatched(waves, Lane))
  /\ pc' = "submit"
  /\ UNCHANGED <<legacy, memory, calls, crashes>>

\* Its call starts once the dispatch is durable.
SubmitPair ==
  /\ pc = "submit"
  /\ LET p == DispatchedHere[Len(DispatchedHere)]
     IN  /\ legacy' = Append(legacy, [type |-> "pair_dispatched", pair |-> p])
         /\ lanes' = [lanes EXCEPT ![p] = "calling"]
  /\ pc' = IF Len(DispatchedHere) = Len(wave) THEN "settle" ELSE "dispatch"
  /\ UNCHANGED <<journal, memory, made, attempts, answers, crashes>>

\* The thread of a pair: physical calls, then an outcome.
Call(p) ==
  /\ lanes[p] = "calling"
  /\ made[p] < AttemptLimit
  /\ made' = [made EXCEPT ![p] = @ + 1]
  /\ attempts' = [attempts EXCEPT ![p] = @ + 1]
  /\ UNCHANGED <<journal, legacy, pc, memory, lanes, answers, crashes>>

Answer(p) ==
  /\ lanes[p] = "calling"
  /\ \E kind \in Kinds :
       /\ lanes' = [lanes EXCEPT ![p] = kind]
       /\ answers' = [answers EXCEPT ![p] = kind]
  /\ UNCHANGED <<journal, legacy, pc, memory, made, attempts, crashes>>

\* A future knows its pair.  (Mutant: results are taken in canonical order.)
CanonicalPairOf(p) == wave[Len(done) + 1]
PairOf(p)          == p

\* The call of a pair has ended, in an answer or in an exception.  (Mutant: only an
\* answer is taken from a future.)
HasAnswer(p)  == lanes[p] = "terminal"
HasOutcome(p) == lanes[p] \in Kinds

\* as_completed: any pair that has its outcome comes next.
SettlePair(p) ==
  /\ pc = "settle" /\ Len(done) < Len(wave)
  /\ HasOutcome(p)
  /\ PairOf(p) \notin PairsOf(done)
  /\ made[p] <= MaxAttempts
  /\ LET o == Settled(PairOf(p), lanes[p], made[p])
     IN  /\ journal' = Append(journal, PairSettled(waves, o))
         /\ done' = Append(done, o)
  /\ UNCHANGED <<legacy, pc, known, waves, wave, sent, calls, crashes>>

\* An adapter that made more calls than were reserved for it raises; the wave
\* stays open, and the process ends when its other threads have ended.
OverrunWindow(p) ==
  /\ pc = "settle"
  /\ HasOutcome(p)
  /\ made[p] > MaxAttempts
  /\ pc' = "failing"
  /\ UNCHANGED <<journal, legacy, memory, calls, crashes>>

EndRun ==
  /\ pc = "failing"
  /\ \A p \in Pairs : lanes[p] # "calling"
  /\ pc' = "down"
  /\ Forget
  /\ UNCHANGED <<journal, legacy, attempts, answers, crashes>>

\* Every future is settled.  (Mutant: off by one.)
AllButOneSettled == Len(done) + 1 >= Len(wave)
AllSettled       == Len(done) = Len(wave)

AppendLegacy ==
  /\ pc = "settle" /\ AllSettled
  /\ sent < Len(LegacyClosure)
  /\ legacy' = Append(legacy, LegacyClosure[sent + 1])
  /\ sent' = sent + 1
  /\ UNCHANGED <<journal, pc, known, waves, wave, done, calls, crashes>>

CloseWave ==
  /\ pc = "settle" /\ AllSettled
  /\ sent = Len(LegacyClosure)
  /\ journal' = Append(journal, WaveClosed(waves, Summary(wave, wave, done)))
  /\ known' = known \cup {wave[i] : i \in DOMAIN wave}
  /\ waves' = waves + 1
  /\ pc' = "ready"
  /\ wave' = <<>> /\ done' = <<>> /\ sent' = 0
  /\ lanes' = NoCalls /\ made' = Zero
  /\ UNCHANGED <<legacy, attempts, answers, crashes>>

\* The caller has no further wave.
Leave ==
  /\ pc = "ready"
  /\ pc' = "down"
  /\ Forget
  /\ UNCHANGED <<journal, legacy, attempts, answers, crashes>>

-----------------------------------------------------------------------------
Seal    == SealPair \/ SealWave
Thread  == \E p \in Pairs : Call(p) \/ Answer(p)
Settle  == \E p \in Pairs : SettlePair(p) \/ OverrunWindow(p)
RunWave == AnnounceWave \/ DispatchPair \/ SubmitPair \/ Settle \/ EndRun
             \/ AppendLegacy \/ CloseWave

Next == Replay \/ Seal \/ ReserveWave \/ RunWave \/ Thread \/ Leave \/ Crash

Spec == Init /\ [][Next]_vars

\* The main thread goes on, the operator starts the process again, and a call
\* ends at last: its adapter has a timeout and a bounded number of retries (a worker
\* stuck as in Blocked of SubscriptionClient is left out).
Fairness ==
  /\ WF_vars(Replay)
  /\ WF_vars(Seal \/ RunWave)
  /\ \A p \in Pairs : WF_vars(Answer(p))

FairSpec == Spec /\ Fairness

-----------------------------------------------------------------------------
\* Properties.

Settlements == {journal[i].outcome : i \in Indices("pair_settled", Len(journal))}
SettledPairs == {o.pair : o \in Settlements}

\* Whatever was interrupted where, inside a wave or inside its sealing, the next
\* replay takes the whole journal, the recomputed closure of each wave included.
EveryReplayReads == pc # "rejected"

SettledAsAnswered ==
  \A o \in Settlements :
    IF o.recovered THEN o.kind = "provenance_unknown" ELSE o.kind = answers[o.pair]
LegacyFollowsJournal ==
  \A i \in DOMAIN legacy :
    /\ legacy[i].type = "pair_dispatched" =>
         legacy[i].pair \in DispatchedPairs(Len(journal))
    /\ legacy[i].type = "pair_terminal" =>
         /\ \E o \in Settlements : o.pair = legacy[i].pair /\ o.kind = "terminal"
         /\ \A j \in DOMAIN legacy : legacy[j] = legacy[i] => i = j

\* What the journal says of a pair is what its own call ended in, in whatever order
\* the calls completed; an answer that was lost is never made up; and the legacy
\* ledger never runs ahead: it names a dispatch only after the journal does, and a
\* terminal only once, for a pair that was settled so.
LedgersTellAnswers == SettledAsAnswered /\ LegacyFollowsJournal

\* A pair that was dispatched is settled at last: answered, or recovered.
DispatchedIsSettled ==
  \A p \in Pairs : p \in DispatchedPairs(Len(journal)) ~> p \in SettledPairs

\* The journal keeps the promise made for each pair: dispatched once, called only
\* while dispatched, settled once and for good.
OutcomeOf(p) == CHOOSE o \in Settlements : o.pair = p
Promise == INSTANCE PairSettlement WITH
  status  <- [p \in Pairs |->
                IF p \in SettledPairs THEN "settled"
                ELSE IF p \in DispatchedPairs(Len(journal)) THEN "dispatched" ELSE "open"],
  outcome <- [p \in Pairs |->
                IF p \in SettledPairs
                THEN [kind |-> OutcomeOf(p).kind, charge |-> OutcomeOf(p).charge]
                ELSE [kind |-> "none", charge |-> 0]]
KeepsSettlementPromise == Promise!Spec
=============================================================================
