--------------------------- MODULE SettlementProofs ---------------------------
(***************************************************************************)
(* Theorems about the two runners that settle pairs, for every number of   *)
(* pairs, every retry window, cap and number of kills.                     *)
(*                                                                         *)
(* The durable settlement: its journals always read, and tell no more and  *)
(* no less than the calls made.  The formal run: its ledger covers the     *)
(* calls, and the closed source has paid for exactly them.  Both keep the  *)
(* settlement promise.                                                     *)
(***************************************************************************)
EXTENDS DurablePairSettlement, FormalGuard, FiniteLemmas, FiniteSetTheorems,
        SequenceTheorems, TLAPS

-----------------------------------------------------------------------------
\* The durable settlement.

Running  == {"reserved", "dispatch", "submit", "settle", "failing"}
Outcome  == [pair : Pairs, kind : Kinds, actual : Nat, charge : Nat, recovered : BOOLEAN]
Records  ==
  {WaveReserved(k, w) : k \in Nat, w \in Frozen}
    \cup {PairDispatched(k, p) : k \in Nat, p \in Pairs}
    \cup {PairSettled(k, o) : k \in Nat, o \in Outcome}
    \cup {WaveClosed(k, Summary(w, d, os)) : k \in Nat, w \in Frozen, d \in Seq(Pairs), os \in Seq(Outcome)}
LegacyRecords ==
  {[type |-> "suffix_wave_reserved", pairs |-> w] : w \in Frozen}
    \cup {[type |-> "pair_dispatched", pair |-> p] : p \in Pairs}
    \cup {[type |-> "wave_accounting", pairs |-> w, charge |-> Charge(os)] : w \in Frozen, os \in Seq(Outcome)}
    \cup {[type |-> "pair_terminal", pair |-> p] : p \in Pairs}

\* What the journal says by now.
ReservedNow == Cardinality(Reserved(Len(journal)))
OpenNow     == IsOpen(Len(journal))
ClosedNow   == Closed(Len(journal))
LanesNow    == Lanes(Len(journal))
OutcomesNow == Outcomes(Len(journal))
PairsNow    == DispatchedPairs(Len(journal))
CountNow    == Cardinality({i \in Indices("pair_dispatched", Len(journal)) : i > Start(Len(journal))})
Members(s)  == {s[i] : i \in DOMAIN s}

DurableTyped ==
  /\ journal \in Seq(Records) /\ legacy \in Seq(LegacyRecords)
  /\ pc \in Running \cup AtRest \cup {"ready", "seal"}
  /\ known \subseteq Pairs /\ waves \in Nat /\ wave \in Frozen \cup {<<>>}
  /\ done \in Seq(Outcome) /\ sent \in Nat
  /\ lanes \in [Pairs -> {"idle", "calling"} \cup Kinds] /\ answers \in [Pairs -> {"idle"} \cup Kinds]
  /\ made \in [Pairs -> Nat] /\ attempts \in [Pairs -> Nat]

\* A journal that reads: at most one wave is open, and what it has settled.
JournalReads ==
  /\ Readable
  /\ ReservedNow = ClosedNow + (IF OpenNow THEN 1 ELSE 0)
  /\ PairsNow \subseteq Pairs /\ SettledPairs \subseteq PairsNow
  /\ \A o, x \in Settlements : o.pair = x.pair => o = x
  /\ OpenNow =>
       /\ LanesNow \in Frozen /\ CountNow <= Len(LanesNow)
       /\ Members(DispatchedHere) = PairsNow \cap Members(LanesNow)
       /\ Members(OutcomesNow) \subseteq Settlements
       /\ PairsOf(OutcomesNow) = SettledPairs \cap Members(LanesNow)
       /\ \A i, j \in DOMAIN OutcomesNow : OutcomesNow[i].pair = OutcomesNow[j].pair => i = j

\* What the main thread knows is what the journal says.
MemoryMatches ==
  /\ pc \notin AtRest => waves = ClosedNow
  /\ pc = "ready" => ~OpenNow /\ known = PairsNow
  /\ pc \in Running \cup {"seal"} => OpenNow /\ wave = LanesNow /\ done = OutcomesNow
  /\ pc = "seal" => known = PairsNow
  /\ pc \in Running => Members(wave) \cap known = {} /\ PairsNow = known \cup Members(DispatchedHere)
  /\ pc \in {"reserved", "dispatch"} => CountNow < Len(wave)
  /\ pc = "reserved" => CountNow = 0
  /\ pc = "submit" => CountNow > 0
  /\ pc \in {"reserved", "dispatch", "submit"} => done = <<>>
  /\ pc \in {"settle", "failing"} => CountNow = Len(wave)
  /\ pc # "rejected"

\* The calls are those of the pairs of the wave that were submitted.
CallsMatch ==
  /\ pc \notin Running => lanes = NoCalls
  /\ \A p \in Pairs :
       /\ lanes[p] # "idle" =>
            \E i \in DOMAIN DispatchedHere :
              DispatchedHere[i] = p /\ (pc = "submit" => i # Len(DispatchedHere))
       /\ lanes[p] \in Kinds => answers[p] = lanes[p]
       /\ lanes[p] = "calling" => p \notin SettledPairs
       /\ p \notin PairsNow => attempts[p] = 0
       /\ pc \in Running /\ p \in Members(wave) => made[p] = attempts[p]
  /\ SettledAsAnswered

\* The legacy ledger follows the journal, and names each terminal once.
LegacyMatches ==
  /\ \A i \in DOMAIN legacy :
       /\ legacy[i].type = "pair_dispatched" => legacy[i].pair \in PairsNow
       /\ legacy[i].type = "pair_terminal" =>
            /\ \E o \in Settlements : o.pair = legacy[i].pair /\ o.kind = "terminal"
            /\ pc \in Running => legacy[i].pair \in known \cup {wave[j] : j \in {h \in DOMAIN wave : h < sent}}
            /\ \A j \in DOMAIN legacy : legacy[j] = legacy[i] => i = j

DurableInv == DurableTyped /\ JournalReads /\ MemoryMatches /\ CallsMatch /\ LegacyMatches

-----------------------------------------------------------------------------
\* A wave, its lanes and its pairs.
LEMMA FrozenMeans ==
  ASSUME NEW w \in Frozen
  PROVE  /\ w \in Seq(Pairs) /\ Len(w) \in 1 .. MaxConcurrency /\ DOMAIN w = 1 .. Len(w)
         /\ \A i \in 1 .. Len(w) : w[i] \in Pairs
         /\ \A i, j \in 1 .. Len(w) : w[i] = w[j] => i = j
         /\ Len(w) \in Nat \ {0}
<1>1. PICK k \in 1 .. MaxConcurrency : w \in [1 .. k -> Pairs]
  BY DEF Frozen
<1>2. k \in Nat /\ k # 0
  BY WaveAssumption
<1>3. w \in Seq(Pairs) /\ Len(w) = k /\ DOMAIN w = 1 .. k
  BY <1>1, <1>2
<1> QED
  BY <1>1, <1>2, <1>3 DEF Frozen

\* The fields of a record of the journal.
LEMMA RecordFields ==
  ASSUME NEW rec \in Records
  PROVE  /\ rec.type \in {"wave_reserved", "pair_dispatched", "pair_settled", "wave_closed"}
         /\ rec.type = "wave_reserved" => rec.pairs \in Frozen
         /\ rec.type = "pair_dispatched" => rec.pair \in Pairs
         /\ rec.type = "pair_settled" => rec.outcome \in Outcome
BY DEF Records, WaveReserved, PairDispatched, PairSettled, WaveClosed

\* The greatest of the members of a finite set.
LEMMA MaxIsGreatest ==
  ASSUME NEW m \in Nat, NEW S \in SUBSET (0 .. m), S # {}
  PROVE  Max(S) \in S /\ \A y \in S : y <= Max(S)
<1> DEFINE T == {m - x : x \in S}
<1>0. \A x \in S : x \in Nat /\ x <= m
  OBVIOUS
<1>1. T \subseteq Nat /\ T # {}
  <2>1. \A x \in S : m - x \in Nat
    BY <1>0
  <2> QED
    BY <2>1
<1>2. PICK t \in T : \A u \in T : t <= u
  BY <1>1, LeastMember
<1>3. PICK x \in S : t = m - x
  BY <1>2
<1>4. \A y \in S : x >= y
  <2> SUFFICES ASSUME NEW y \in S PROVE x >= y
    OBVIOUS
  <2>1. m - y \in T
    OBVIOUS
  <2>2. m - x <= m - y
    BY <1>2, <1>3, <2>1
  <2>3. x \in Nat /\ y \in Nat
    BY <1>0
  <2> QED
    BY <2>2, <2>3
<1>5. \E z \in S : \A y \in S : z >= y
  BY <1>4
<1>6. Max(S) \in S /\ \A y \in S : Max(S) >= y
  BY <1>5 DEF Max
<1> QED
  BY <1>6

\* A number beyond a set is the greatest when it is added to it.
LEMMA MaxOfNext ==
  ASSUME NEW m \in Nat, NEW S \in SUBSET (1 .. m)
  PROVE  Max(S \cup {m + 1}) = m + 1
<1>1. S \cup {m + 1} \in SUBSET (0 .. (m + 1)) /\ S \cup {m + 1} # {} /\ m + 1 \in Nat
  OBVIOUS
<1>2. /\ Max(S \cup {m + 1}) \in S \cup {m + 1}
      /\ \A y \in S \cup {m + 1} : y <= Max(S \cup {m + 1})
  BY <1>1, MaxIsGreatest
<1> DEFINE x == Max(S \cup {m + 1})
<1>3. x \in 0 .. (m + 1) /\ m + 1 <= x
  BY <1>1, <1>2
<1> HIDE DEF x
<1>4. x = m + 1
  BY <1>3
<1> QED
  BY <1>4 DEF x

\* The records of a kind are finitely many, among those that are there.
LEMMA IndicesMean ==
  ASSUME NEW t, NEW k \in Nat
  PROVE  /\ Indices(t, k) \in SUBSET (1 .. k) /\ IsFiniteSet(Indices(t, k))
         /\ Cardinality(Indices(t, k)) \in Nat
<1>1. Indices(t, k) \subseteq 1 .. k
  BY DEF Indices
<1>2. IsFiniteSet(1 .. k)
  BY FS_Interval
<1>3. IsFiniteSet(Indices(t, k))
  BY <1>1, <1>2, FS_Subset
<1> QED
  BY <1>1, <1>3, FS_CardinalityType

\* A record appended to the journal comes after the others, which stay.
LEMMA AppendMeans ==
  ASSUME DurableTyped, NEW rec \in Records, journal' = Append(journal, rec), NEW n, n = Len(journal)
  PROVE  /\ n \in Nat /\ Len(journal') = n + 1 /\ journal' \in Seq(Records) /\ journal'[n + 1] = rec
         /\ \A i \in 1 .. n : journal'[i] = journal[i] /\ journal[i] \in Records
         /\ \A k \in 0 .. n : \A t : Indices(t, k)' = Indices(t, k)
         /\ \A t : Indices(t, n + 1)' = IF rec.type = t THEN Indices(t, n) \cup {n + 1} ELSE Indices(t, n)
<1>1. journal \in Seq(Records)
  BY DEF DurableTyped
<1>2. /\ n \in Nat /\ Len(journal') = n + 1 /\ journal' \in Seq(Records) /\ journal'[n + 1] = rec
      /\ \A i \in 1 .. n : journal'[i] = journal[i]
  BY <1>1
<1>3. \A i \in 1 .. n : journal[i] \in Records
  BY <1>1, ElementOfSeq
<1>4. ASSUME NEW k \in 0 .. n, NEW t PROVE Indices(t, k)' = Indices(t, k)
  <2>1. \A i \in 1 .. k : i \in 1 .. n
    BY <1>2
  <2> QED
    BY <1>2, <2>1 DEF Indices
<1>5. ASSUME NEW t
      PROVE  Indices(t, n + 1)' = IF rec.type = t THEN Indices(t, n) \cup {n + 1} ELSE Indices(t, n)
  <2>1. 1 .. (n + 1) = (1 .. n) \cup {n + 1} /\ n + 1 \notin 1 .. n
    BY <1>2
  <2> QED
    BY <1>2, <2>1 DEF Indices
<1> QED
  BY <1>2, <1>3, <1>4, <1>5

\* What is read of an open wave, of which the reservation is the last one.
LEMMA OpenMeans ==
  ASSUME NEW k \in Nat, IsOpen(k)
  PROVE  /\ Reserved(k) # {} /\ Start(k) \in Reserved(k) /\ Start(k) \in 1 .. k
         /\ journal[Start(k)].type = "wave_reserved" /\ Lanes(k) = journal[Start(k)].pairs
<1>1. /\ Reserved(k) \in SUBSET (1 .. k) /\ IsFiniteSet(Reserved(k)) /\ Cardinality(Reserved(k)) \in Nat
      /\ Cardinality(Indices("wave_closed", k)) \in Nat
  BY IndicesMean DEF Reserved
<1>2. Cardinality(Reserved(k)) # 0
  BY <1>1 DEF IsOpen
<1>3. Reserved(k) # {}
  BY <1>2, FS_EmptySet
<1>4. Reserved(k) \in SUBSET (0 .. k)
  BY <1>1
<1>5. Start(k) \in Reserved(k)
  BY <1>3, <1>4, MaxIsGreatest DEF Start
<1> QED
  BY <1>1, <1>3, <1>5 DEF Lanes, Reserved, Indices

\* What is read of the records before the last is what was read of them.
LEMMA PrefixSame ==
  ASSUME DurableTyped, NEW rec \in Records, journal' = Append(journal, rec), NEW k \in 0 .. Len(journal)
  PROVE  /\ IsOpen(k)' = IsOpen(k) /\ Closed(k)' = Closed(k) /\ DispatchedPairs(k)' = DispatchedPairs(k)
         /\ Reserved(k)' = Reserved(k) /\ Start(k)' = Start(k)
         /\ IsOpen(k) => /\ Lanes(k)' = Lanes(k) /\ Dispatched(k)' = Dispatched(k)
                         /\ Outcomes(k)' = Outcomes(k)
<1> DEFINE n == Len(journal)
<1>0. n \in Nat
  BY DEF DurableTyped
<1>1. /\ \A i \in 1 .. n : journal'[i] = journal[i]
      /\ \A t : Indices(t, k)' = Indices(t, k)
  BY AppendMeans
<1> HIDE DEF n
<1>2. k \in Nat /\ \A i \in 1 .. k : i \in 1 .. n
  BY <1>0 DEF n
<1>3. IsOpen(k)' = IsOpen(k) /\ Closed(k)' = Closed(k) /\ Reserved(k)' = Reserved(k)
  BY <1>1 DEF IsOpen, Closed, Reserved
<1>4. Start(k)' = Start(k)
  BY <1>3 DEF Start
<1>5. DispatchedPairs(k)' = DispatchedPairs(k)
  <2>1. \A i \in Indices("pair_dispatched", k) : journal'[i] = journal[i]
    BY <1>1, <1>2 DEF Indices
  <2>2. Indices("pair_dispatched", k)' = Indices("pair_dispatched", k)
    BY <1>1
  <2>3. {journal'[i].pair : i \in Indices("pair_dispatched", k)} = {journal[i].pair : i \in Indices("pair_dispatched", k)}
    BY <2>1
  <2> QED
    BY <2>2, <2>3, Zenon DEF DispatchedPairs
<1>6. ASSUME IsOpen(k)
      PROVE  Lanes(k)' = Lanes(k) /\ Dispatched(k)' = Dispatched(k) /\ Outcomes(k)' = Outcomes(k)
  <2>1. Start(k) \in 1 .. n
    BY <1>2, <1>6, OpenMeans
  <2>2. Lanes(k)' = Lanes(k)
    BY <1>1, <1>4, <2>1 DEF Lanes
  <2>a. Indices("pair_dispatched", k)' = Indices("pair_dispatched", k)
        /\ Indices("pair_settled", k)' = Indices("pair_settled", k)
    BY <1>1
  <2>3. Dispatched(k)' = Dispatched(k)
    BY <1>4, <2>2, <2>a, Zenon DEF Dispatched
  <2>4. SettledSince(k)' = SettledSince(k)
    BY <1>4, <2>a, Zenon DEF SettledSince
  <2>5. \A j \in DOMAIN SettledSince(k) : SettledSince(k)[j] \in 1 .. n
    <3> DEFINE S == {i \in Indices("pair_settled", k) : i > Start(k)}
    <3>1. S \subseteq Nat /\ IsFiniteSet(S) /\ \A i \in S : i \in 1 .. n
      <4>1. S \subseteq Indices("pair_settled", k)
        OBVIOUS
      <4>2. Indices("pair_settled", k) \in SUBSET (1 .. k) /\ IsFiniteSet(Indices("pair_settled", k))
        BY <1>2, IndicesMean
      <4>3. IsFiniteSet(S)
        BY <4>1, <4>2, FS_Subset
      <4> HIDE DEF S
      <4> QED
        BY <1>2, <4>1, <4>2, <4>3
    <3> HIDE DEF S
    <3>2. InOrder(S) \in Seq(S)
      BY <3>1, InOrderIsEach
    <3>3. \A j \in DOMAIN InOrder(S) : InOrder(S)[j] \in S
      <4>1. DOMAIN InOrder(S) = 1 .. Len(InOrder(S))
        BY <3>2
      <4> QED
        BY <3>2, <4>1, ElementOfSeq
    <3> QED
      BY <3>1, <3>3 DEF SettledSince, S
  <2>6. Outcomes(k)' = Outcomes(k)
    BY <1>1, <2>4, <2>5 DEF Outcomes
  <2> QED
    BY <2>2, <2>3, <2>6
<1> QED
  BY <1>3, <1>4, <1>5, <1>6

\* Whether the reader takes a record after those that are there.
Takes(rec) ==
  \/ /\ rec.type = "wave_reserved" /\ ~OpenNow /\ rec.wave = ClosedNow
     /\ rec.pairs \in Frozen /\ PairsNow \cap Members(rec.pairs) = {}
  \/ /\ rec.type = "pair_dispatched" /\ OpenNow /\ rec.wave = ClosedNow
     /\ Len(DispatchedHere) < Len(LanesNow) /\ rec.pair = LanesNow[Len(DispatchedHere) + 1]
  \/ /\ rec.type = "pair_settled" /\ OpenNow /\ rec.wave = ClosedNow
     /\ rec.outcome.pair \in Members(DispatchedHere) /\ rec.outcome.pair \notin PairsOf(OutcomesNow)
     /\ Accounted(rec.outcome)
  \/ /\ rec.type = "wave_closed" /\ OpenNow /\ rec.wave = ClosedNow
     /\ Len(OutcomesNow) = Len(DispatchedHere)
     /\ rec.summary = Summary(LanesNow, DispatchedHere, OutcomesNow)

\* A journal that reads still reads after such a record.
LEMMA AppendReads ==
  ASSUME DurableTyped, Readable, NEW rec \in Records, Takes(rec), journal' = Append(journal, rec)
  PROVE  Readable'
<1>0. PICK n \in Nat : n = Len(journal)
  BY DEF DurableTyped
<1>1. /\ Len(journal') = n + 1 /\ journal'[n + 1] = rec
      /\ \A i \in 1 .. n : journal'[i] = journal[i]
  BY <1>0, AppendMeans
<1>2. ASSUME NEW i \in 1 .. n PROVE Accepts(i)'
  <2> DEFINE k == i - 1
  <2>1. k \in 0 .. n /\ Accepts(i) /\ journal'[i] = journal[i]
    BY <1>0, <1>1 DEF Readable
  <2>2. /\ IsOpen(k)' = IsOpen(k) /\ Closed(k)' = Closed(k) /\ DispatchedPairs(k)' = DispatchedPairs(k)
        /\ IsOpen(k) => /\ Lanes(k)' = Lanes(k) /\ Dispatched(k)' = Dispatched(k)
                        /\ Outcomes(k)' = Outcomes(k)
    BY <1>0, <2>1, PrefixSame
  <2>3. CASE IsOpen(i - 1)
    <3>1. /\ IsOpen(i - 1)' /\ Closed(i - 1)' = Closed(i - 1) /\ Lanes(i - 1)' = Lanes(i - 1)
          /\ Dispatched(i - 1)' = Dispatched(i - 1) /\ Outcomes(i - 1)' = Outcomes(i - 1)
      BY <2>2, <2>3
    <3> QED
      BY <2>1, <2>3, <3>1 DEF Accepts
  <2>4. CASE ~IsOpen(i - 1)
    <3>1. /\ ~IsOpen(i - 1)' /\ Closed(i - 1)' = Closed(i - 1)
          /\ DispatchedPairs(i - 1)' = DispatchedPairs(i - 1)
      BY <2>2, <2>4
    <3> QED
      BY <2>1, <2>4, <3>1 DEF Accepts
  <2> QED
    BY <2>3, <2>4
<1>3. Accepts(n + 1)'
  <2>1. PICK m \in Nat : m = n + 1
    BY <1>0
  <2>2. PICK k \in 0 .. n : k = n
    BY <1>0
  <2>3. /\ IsOpen(k)' = IsOpen(k) /\ Closed(k)' = Closed(k) /\ DispatchedPairs(k)' = DispatchedPairs(k)
        /\ IsOpen(k) => /\ Lanes(k)' = Lanes(k) /\ Dispatched(k)' = Dispatched(k)
                        /\ Outcomes(k)' = Outcomes(k)
    BY <1>0, <2>2, PrefixSame
  <2>4. k = Len(journal) /\ m - 1 = k /\ journal'[m] = rec
    BY <1>0, <1>1, <2>1, <2>2
  <2>5. Accepts(m)'
    <3>1. CASE rec.type = "wave_reserved"
      <4>1. /\ ~IsOpen(k)' /\ rec.wave = Closed(k)' /\ rec.pairs \in Frozen
            /\ DispatchedPairs(k)' \cap {rec.pairs[j] : j \in DOMAIN rec.pairs} = {}
        BY <2>3, <2>4, <3>1 DEF Takes, OpenNow, ClosedNow, PairsNow, Members
      <4> QED
        BY <2>4, <3>1, <4>1 DEF Accepts
    <3>2. CASE rec.type = "pair_dispatched"
      <4>1. /\ IsOpen(k)' /\ rec.wave = Closed(k)'
            /\ Len(Dispatched(k)') < Len(Lanes(k)') /\ rec.pair = (Lanes(k)')[Len(Dispatched(k)') + 1]
        BY <2>3, <2>4, <3>2 DEF Takes, OpenNow, ClosedNow, LanesNow, DispatchedHere
      <4> QED
        BY <2>4, <3>2, <4>1 DEF Accepts
    <3>3. CASE rec.type = "pair_settled"
      <4>1. /\ IsOpen(k)' /\ rec.wave = Closed(k)'
            /\ \E j \in DOMAIN (Dispatched(k)') : (Dispatched(k)')[j] = rec.outcome.pair
            /\ rec.outcome.pair \notin PairsOf(Outcomes(k)') /\ Accounted(rec.outcome)
        BY <2>3, <2>4, <3>3 DEF Takes, OpenNow, ClosedNow, DispatchedHere, OutcomesNow, Members
      <4> QED
        BY <2>4, <3>3, <4>1 DEF Accepts
    <3>4. CASE rec.type = "wave_closed"
      <4>1. /\ IsOpen(k)' /\ rec.wave = Closed(k)'
            /\ Len(Outcomes(k)') = Len(Dispatched(k)')
            /\ rec.summary = Summary(Lanes(k)', Dispatched(k)', Outcomes(k)')
        BY <2>3, <2>4, <3>4 DEF Takes, OpenNow, ClosedNow, LanesNow, DispatchedHere, OutcomesNow
      <4> QED
        BY <2>4, <3>4, <4>1 DEF Accepts
    <3> QED
      BY <3>1, <3>2, <3>3, <3>4, RecordFields
  <2> QED
    BY <2>1, <2>5
<1> QED
  BY <1>0, <1>1, <1>2, <1>3 DEF Readable

\* The outcomes of the open wave are those of settlements, in their order.
LEMMA OutcomesMean ==
  ASSUME DurableTyped, NEW k \in 0 .. Len(journal)
  PROVE  /\ Outcomes(k) \in Seq(Outcome) /\ DOMAIN Outcomes(k) = DOMAIN SettledSince(k)
         /\ \A j \in DOMAIN Outcomes(k) : Outcomes(k)[j] = journal[SettledSince(k)[j]].outcome
         /\ SettledSince(k) = InOrder({i \in Indices("pair_settled", k) : i > Start(k)})
         /\ {i \in Indices("pair_settled", k) : i > Start(k)} \in SUBSET (1 .. k)
         /\ IsFiniteSet({i \in Indices("pair_settled", k) : i > Start(k)})
         /\ DOMAIN SettledSince(k) = 1 .. Len(SettledSince(k)) /\ Len(SettledSince(k)) \in Nat
         /\ \A j \in DOMAIN SettledSince(k) :
              SettledSince(k)[j] \in Indices("pair_settled", k) /\ SettledSince(k)[j] > Start(k)
<1> DEFINE S == {i \in Indices("pair_settled", k) : i > Start(k)}
<1>1. journal \in Seq(Records) /\ k \in Nat /\ Len(journal) \in Nat
  BY DEF DurableTyped
<1>2. Indices("pair_settled", k) \in SUBSET (1 .. k) /\ IsFiniteSet(Indices("pair_settled", k))
  BY <1>1, IndicesMean
<1>3. S \subseteq Indices("pair_settled", k) /\ \A i \in S : i > Start(k)
  OBVIOUS
<1> HIDE DEF S
<1>4. IsFiniteSet(S) /\ S \subseteq Nat /\ S \in SUBSET (1 .. k)
  BY <1>2, <1>3, FS_Subset
<1>5. SettledSince(k) = InOrder(S)
  BY DEF SettledSince, S
<1>6. InOrder(S) \in Seq(S)
  BY <1>4, InOrderIsEach
<1>7. DOMAIN InOrder(S) = 1 .. Len(InOrder(S)) /\ Len(InOrder(S)) \in Nat
  BY <1>6
<1>8. \A j \in DOMAIN InOrder(S) : InOrder(S)[j] \in S
  BY <1>6, <1>7, ElementOfSeq
<1>9. \A j \in DOMAIN SettledSince(k) : SettledSince(k)[j] \in Indices("pair_settled", k) /\ SettledSince(k)[j] > Start(k)
  BY <1>3, <1>5, <1>8
<1>10. \A i \in Indices("pair_settled", k) : journal[i].outcome \in Outcome
  <2> SUFFICES ASSUME NEW i \in Indices("pair_settled", k) PROVE journal[i].outcome \in Outcome
    OBVIOUS
  <2>1. i \in 1 .. Len(journal) /\ journal[i].type = "pair_settled"
    BY <1>1, <1>2 DEF Indices
  <2>2. journal[i] \in Records
    BY <1>1, <2>1, ElementOfSeq
  <2> QED
    BY <2>1, <2>2, RecordFields
<1>11. Outcomes(k) = [j \in 1 .. Len(SettledSince(k)) |-> journal[SettledSince(k)[j]].outcome]
  BY <1>5, <1>7 DEF Outcomes
<1>12. \A j \in 1 .. Len(SettledSince(k)) : journal[SettledSince(k)[j]].outcome \in Outcome
  BY <1>5, <1>7, <1>9, <1>10
<1>13. Outcomes(k) \in Seq(Outcome)
  BY <1>5, <1>7, <1>11, <1>12
<1>14. DOMAIN SettledSince(k) = 1 .. Len(SettledSince(k)) /\ Len(SettledSince(k)) \in Nat
  BY <1>5, <1>7
<1> QED
  BY <1>4, <1>5, <1>9, <1>11, <1>13, <1>14 DEF S

\* What another record adds to what the journal says.
LEMMA AppendEffects ==
  ASSUME DurableTyped, NEW rec \in Records, journal' = Append(journal, rec)
  PROVE  /\ Settlements' = IF rec.type = "pair_settled" THEN Settlements \cup {rec.outcome} ELSE Settlements
         /\ PairsNow' = IF rec.type = "pair_dispatched" THEN PairsNow \cup {rec.pair} ELSE PairsNow
         /\ ClosedNow \in Nat /\ ClosedNow' = ClosedNow + (IF rec.type = "wave_closed" THEN 1 ELSE 0)
         /\ ReservedNow \in Nat /\ ReservedNow' = ReservedNow + (IF rec.type = "wave_reserved" THEN 1 ELSE 0)
         /\ (OpenNow <=> ReservedNow > ClosedNow) /\ (OpenNow' <=> ReservedNow' > ClosedNow')
<1>0. PICK n \in Nat : n = Len(journal)
  BY DEF DurableTyped
<1>m. PICK m \in Nat : m = n + 1
  OBVIOUS
<1>1. /\ Len(journal') = m /\ journal'[m] = rec
      /\ \A i \in 1 .. n : journal'[i] = journal[i]
      /\ \A t : Indices(t, m)' = IF rec.type = t THEN Indices(t, n) \cup {m} ELSE Indices(t, n)
  <2>1. /\ Len(journal') = n + 1 /\ journal'[n + 1] = rec
        /\ \A i \in 1 .. n : journal'[i] = journal[i]
    BY <1>0, AppendMeans
  <2>2. ASSUME NEW t
        PROVE  Indices(t, m)' = IF rec.type = t THEN Indices(t, n) \cup {m} ELSE Indices(t, n)
    <3>1. 1 .. m = (1 .. n) \cup {m} /\ m \notin 1 .. n
      BY <1>m
    <3> QED
      BY <1>m, <2>1, <3>1 DEF Indices
  <2> QED
    BY <1>m, <2>1, <2>2
<1>2. \A t : Indices(t, n) \in SUBSET (1 .. n) /\ IsFiniteSet(Indices(t, n)) /\ Cardinality(Indices(t, n)) \in Nat
  BY IndicesMean
<1>3. ASSUME NEW t
      PROVE  Cardinality(Indices(t, m)') = Cardinality(Indices(t, n)) + (IF rec.type = t THEN 1 ELSE 0)
  <2>1. m \notin Indices(t, n)
    BY <1>2, <1>m
  <2>2. Cardinality(Indices(t, n) \cup {m}) = Cardinality(Indices(t, n)) + 1
    BY <1>2, <2>1, FS_AddElement
  <2>3. CASE rec.type = t
    <3>1. Indices(t, m)' = Indices(t, n) \cup {m}
      BY <1>1, <2>3
    <3> QED
      BY <2>2, <2>3, <3>1
  <2>4. CASE rec.type # t
    <3>1. Indices(t, m)' = Indices(t, n)
      BY <1>1, <2>4
    <3>2. Cardinality(Indices(t, m)') = Cardinality(Indices(t, n))
      BY <3>1, Zenon
    <3> QED
      BY <1>2, <2>4, <3>2
  <2> QED
    BY <2>3, <2>4
<1>4. /\ ClosedNow = Cardinality(Indices("wave_closed", n)) /\ ClosedNow' = Cardinality(Indices("wave_closed", m)')
      /\ ReservedNow = Cardinality(Indices("wave_reserved", n)) /\ ReservedNow' = Cardinality(Indices("wave_reserved", m)')
  BY <1>0, <1>1 DEF ClosedNow, Closed, ReservedNow, Reserved
<1>5. (OpenNow <=> ReservedNow > ClosedNow) /\ (OpenNow' <=> ReservedNow' > ClosedNow')
  BY DEF OpenNow, IsOpen, ReservedNow, ClosedNow, Closed
<1>6. Settlements' = IF rec.type = "pair_settled" THEN Settlements \cup {rec.outcome} ELSE Settlements
  <2>1. Settlements = {journal[i].outcome : i \in Indices("pair_settled", n)}
    BY <1>0 DEF Settlements
  <2>2. Settlements' = {journal'[i].outcome : i \in Indices("pair_settled", m)'}
    BY <1>1 DEF Settlements
  <2>3. \A i \in Indices("pair_settled", n) : journal'[i] = journal[i]
    BY <1>1, <1>2
  <2>4. CASE rec.type = "pair_settled"
    <3>1. Indices("pair_settled", m)' = Indices("pair_settled", n) \cup {m}
      BY <1>1, <2>4
    <3>2. Settlements' = {journal'[i].outcome : i \in Indices("pair_settled", n) \cup {m}}
      BY <2>2, <3>1, Zenon
    <3>3. Settlements' = {journal'[i].outcome : i \in Indices("pair_settled", n)} \cup {journal'[m].outcome}
      BY <3>2
    <3>4. {journal'[i].outcome : i \in Indices("pair_settled", n)} = Settlements
      BY <2>1, <2>3
    <3>5. journal'[m] = rec
      BY <1>1
    <3> QED
      BY <2>4, <3>3, <3>4, <3>5, Zenon
  <2>5. CASE rec.type # "pair_settled"
    <3>1. Indices("pair_settled", m)' = Indices("pair_settled", n)
      BY <1>1, <2>5
    <3>2. Settlements' = {journal'[i].outcome : i \in Indices("pair_settled", n)}
      BY <2>2, <3>1, Zenon
    <3> QED
      BY <2>1, <2>3, <2>5, <3>2
  <2> QED
    BY <2>4, <2>5
<1>7. PairsNow' = IF rec.type = "pair_dispatched" THEN PairsNow \cup {rec.pair} ELSE PairsNow
  <2>1. PairsNow = {journal[i].pair : i \in Indices("pair_dispatched", n)}
    BY <1>0 DEF PairsNow, DispatchedPairs
  <2>2. PairsNow' = {journal'[i].pair : i \in Indices("pair_dispatched", m)'}
    BY <1>1 DEF PairsNow, DispatchedPairs
  <2>3. \A i \in Indices("pair_dispatched", n) : journal'[i] = journal[i]
    BY <1>1, <1>2
  <2>4. CASE rec.type = "pair_dispatched"
    <3>1. Indices("pair_dispatched", m)' = Indices("pair_dispatched", n) \cup {m}
      BY <1>1, <2>4
    <3>2. PairsNow' = {journal'[i].pair : i \in Indices("pair_dispatched", n) \cup {m}}
      BY <2>2, <3>1, Zenon
    <3>3. PairsNow' = {journal'[i].pair : i \in Indices("pair_dispatched", n)} \cup {journal'[m].pair}
      BY <3>2
    <3>4. {journal'[i].pair : i \in Indices("pair_dispatched", n)} = PairsNow
      BY <2>1, <2>3
    <3>5. journal'[m] = rec
      BY <1>1
    <3> QED
      BY <2>4, <3>3, <3>4, <3>5, Zenon
  <2>5. CASE rec.type # "pair_dispatched"
    <3>1. Indices("pair_dispatched", m)' = Indices("pair_dispatched", n)
      BY <1>1, <2>5
    <3>2. PairsNow' = {journal'[i].pair : i \in Indices("pair_dispatched", n)}
      BY <2>2, <3>1, Zenon
    <3> QED
      BY <2>1, <2>3, <2>5, <3>2
  <2> QED
    BY <2>4, <2>5
<1>8. /\ ClosedNow' = ClosedNow + (IF rec.type = "wave_closed" THEN 1 ELSE 0)
      /\ ReservedNow' = ReservedNow + (IF rec.type = "wave_reserved" THEN 1 ELSE 0)
  BY <1>3, <1>4
<1> QED
  BY <1>2, <1>4, <1>5, <1>6, <1>7, <1>8

\* What a reservation opens: none of its pairs is dispatched or settled yet.
LEMMA ReservationOpens ==
  ASSUME DurableTyped, NEW rec \in Records, journal' = Append(journal, rec), rec.type = "wave_reserved"
  PROVE  LanesNow' = rec.pairs /\ CountNow' = 0 /\ OutcomesNow' = <<>>
<1>0. PICK n \in Nat : n = Len(journal)
  BY DEF DurableTyped
<1>m. PICK m \in Nat : m = n + 1
  OBVIOUS
<1>1. /\ Len(journal') = m /\ journal'[m] = rec
      /\ Indices("wave_reserved", m)' = Indices("wave_reserved", n) \cup {m}
      /\ Indices("pair_dispatched", m)' = Indices("pair_dispatched", n)
      /\ Indices("pair_settled", m)' = Indices("pair_settled", n)
  BY <1>0, <1>m, AppendMeans
<1>2. \A t : Indices(t, n) \in SUBSET (1 .. n)
  BY IndicesMean
<1>3. Start(m)' = m
  <2>1. Start(m)' = Max(Indices("wave_reserved", n) \cup {m})
    BY <1>1, Zenon DEF Start, Reserved
  <2> QED
    BY <1>2, <1>m, <2>1, MaxOfNext
<1>4. LanesNow' = rec.pairs
  BY <1>1, <1>3 DEF LanesNow, Lanes
<1>5. CountNow' = 0
  <2>1. CountNow' = Cardinality({i \in Indices("pair_dispatched", n) : i > m})
    BY <1>1, <1>3, Zenon DEF CountNow
  <2>2. {i \in Indices("pair_dispatched", n) : i > m} = {}
    BY <1>2, <1>m
  <2> QED
    BY <2>1, <2>2, FS_EmptySet, Zenon
<1>6. OutcomesNow' = <<>>
  <2>1. SettledSince(m)' = InOrder({i \in Indices("pair_settled", n) : i > m})
    BY <1>1, <1>3, Zenon DEF SettledSince
  <2>2. {i \in Indices("pair_settled", n) : i > m} = {}
    BY <1>2, <1>m
  <2>3. SettledSince(m)' = InOrder({})
    BY <2>1, <2>2, Zenon
  <2>4. DOMAIN InOrder({}) = {}
    <3>1. Cardinality({}) = 0
      BY FS_EmptySet
    <3> QED
      BY <3>1 DEF InOrder
  <2>5. DOMAIN SettledSince(m)' = {}
    BY <2>3, <2>4
  <2>6. OutcomesNow' = [k \in DOMAIN SettledSince(m)' |-> journal'[SettledSince(m)'[k]].outcome]
    BY <1>1 DEF OutcomesNow, Outcomes
  <2> QED
    BY <2>5, <2>6
<1> QED
  BY <1>4, <1>5, <1>6

\* What any other record adds to the open wave.
LEMMA OpenWaveGoesOn ==
  ASSUME DurableTyped, OpenNow, NEW rec \in Records, journal' = Append(journal, rec),
         rec.type # "wave_reserved"
  PROVE  /\ LanesNow' = LanesNow
         /\ CountNow \in Nat /\ CountNow' = CountNow + (IF rec.type = "pair_dispatched" THEN 1 ELSE 0)
         /\ OutcomesNow' = IF rec.type = "pair_settled" THEN Append(OutcomesNow, rec.outcome) ELSE OutcomesNow
<1>0. PICK n \in Nat : n = Len(journal)
  BY DEF DurableTyped
<1>m. PICK m \in Nat : m = n + 1
  OBVIOUS
<1>1. /\ Len(journal') = m /\ journal'[m] = rec
      /\ \A i \in 1 .. n : journal'[i] = journal[i]
      /\ \A t : Indices(t, m)' = IF rec.type = t THEN Indices(t, n) \cup {m} ELSE Indices(t, n)
  <2>1. /\ Len(journal') = n + 1 /\ journal'[n + 1] = rec
        /\ \A i \in 1 .. n : journal'[i] = journal[i]
    BY <1>0, AppendMeans
  <2>2. ASSUME NEW t
        PROVE  Indices(t, m)' = IF rec.type = t THEN Indices(t, n) \cup {m} ELSE Indices(t, n)
    <3>1. 1 .. m = (1 .. n) \cup {m} /\ m \notin 1 .. n
      BY <1>m
    <3> QED
      BY <1>m, <2>1, <3>1 DEF Indices
  <2> QED
    BY <1>m, <2>1, <2>2
<1>2. \A t : Indices(t, n) \in SUBSET (1 .. n) /\ IsFiniteSet(Indices(t, n))
  BY IndicesMean
<1>3. Start(m)' = Start(n) /\ Start(n) \in 1 .. n
  <2>1. Indices("wave_reserved", m)' = Indices("wave_reserved", n)
    BY <1>1
  <2>2. IsOpen(n)
    BY <1>0 DEF OpenNow
  <2> QED
    BY <2>1, <2>2, OpenMeans, Zenon DEF Start, Reserved
<1>4. LanesNow' = LanesNow
  BY <1>0, <1>1, <1>3 DEF LanesNow, Lanes
<1> DEFINE D == {i \in Indices("pair_dispatched", n) : i > Start(n)}
           S == {i \in Indices("pair_settled", n) : i > Start(n)}
<1>5. /\ D \subseteq Indices("pair_dispatched", n) /\ S \subseteq Indices("pair_settled", n)
      /\ CountNow = Cardinality(D)
  BY <1>0 DEF CountNow
<1>6. /\ CountNow' = Cardinality({i \in Indices("pair_dispatched", m)' : i > Start(n)})
      /\ SettledSince(m)' = InOrder({i \in Indices("pair_settled", m)' : i > Start(n)})
      /\ SettledSince(n) = InOrder(S)
  BY <1>1, <1>3, Zenon DEF CountNow, SettledSince
<1>7. IsFiniteSet(D) /\ IsFiniteSet(S) /\ S \subseteq Nat /\ (\A i \in S : i < m) /\ m \notin D
  <2>1. IsFiniteSet(D) /\ IsFiniteSet(S)
    BY <1>2, <1>5, FS_Subset
  <2> QED
    BY <1>2, <1>5, <1>m, <2>1
<1>8. CountNow \in Nat
  BY <1>5, <1>7, FS_CardinalityType
<1>9. CountNow' = CountNow + (IF rec.type = "pair_dispatched" THEN 1 ELSE 0)
  <2>1. CASE rec.type = "pair_dispatched"
    <3>1. Indices("pair_dispatched", m)' = Indices("pair_dispatched", n) \cup {m}
      BY <1>1, <2>1
    <3>2. {i \in Indices("pair_dispatched", m)' : i > Start(n)} = D \cup {m}
      BY <1>3, <1>m, <3>1
    <3>3. Cardinality(D \cup {m}) = Cardinality(D) + 1
      BY <1>7, FS_AddElement
    <3>4. CountNow' = Cardinality(D \cup {m})
      BY <1>6, <3>2, Zenon
    <3> QED
      BY <1>5, <2>1, <3>3, <3>4
  <2>2. CASE rec.type # "pair_dispatched"
    <3>1. Indices("pair_dispatched", m)' = Indices("pair_dispatched", n)
      BY <1>1, <2>2
    <3>2. CountNow' = Cardinality(D)
      BY <1>6, <3>1, Zenon
    <3> QED
      BY <1>5, <1>8, <2>2, <3>2
  <2> QED
    BY <2>1, <2>2
<1>10. /\ OutcomesNow = [k \in DOMAIN SettledSince(n) |-> journal[SettledSince(n)[k]].outcome]
       /\ OutcomesNow' = [k \in DOMAIN SettledSince(m)' |-> journal'[SettledSince(m)'[k]].outcome]
  BY <1>0, <1>1 DEF OutcomesNow, Outcomes
<1>11. /\ DOMAIN SettledSince(n) = 1 .. Len(SettledSince(n)) /\ Len(SettledSince(n)) \in Nat
       /\ \A j \in DOMAIN SettledSince(n) : SettledSince(n)[j] \in 1 .. n
       /\ OutcomesNow \in Seq(Outcome) /\ DOMAIN OutcomesNow = DOMAIN SettledSince(n)
       /\ SettledSince(n) \in Seq(S)
  <2>1. n \in 0 .. Len(journal)
    BY <1>0
  <2>2. /\ DOMAIN SettledSince(n) = 1 .. Len(SettledSince(n)) /\ Len(SettledSince(n)) \in Nat
        /\ \A j \in DOMAIN SettledSince(n) : SettledSince(n)[j] \in Indices("pair_settled", n)
        /\ Outcomes(n) \in Seq(Outcome) /\ DOMAIN Outcomes(n) = DOMAIN SettledSince(n)
    BY <2>1, OutcomesMean
  <2>3. SettledSince(n) \in Seq(S)
    BY <1>6, <1>7, InOrderIsEach
  <2> QED
    BY <1>0, <1>2, <2>2, <2>3 DEF OutcomesNow
<1> HIDE DEF D, S
<1>12. CASE rec.type = "pair_settled"
  <2>1. Indices("pair_settled", m)' = Indices("pair_settled", n) \cup {m}
    BY <1>1, <1>12
  <2>2. {i \in Indices("pair_settled", m)' : i > Start(n)} = S \cup {m}
    BY <1>3, <1>m, <2>1 DEF S
  <2>3. SettledSince(m)' = Append(SettledSince(n), m)
    <3>1. SettledSince(m)' = InOrder(S \cup {m})
      BY <1>6, <2>2, Zenon
    <3> QED
      BY <1>6, <1>7, <3>1, InOrderAppend
  <2> DEFINE s == SettledSince(n)
             q == SettledSince(m)'
  <2>4. /\ DOMAIN q = 1 .. (Len(s) + 1) /\ q[Len(s) + 1] = m
        /\ \A j \in 1 .. Len(s) : q[j] = s[j]
    BY <1>11, <2>3
  <2>5. OutcomesNow' = [j \in 1 .. (Len(s) + 1) |-> journal'[q[j]].outcome]
    BY <1>10, <2>4
  <2>6. /\ \A j \in 1 .. Len(s) : journal'[q[j]].outcome = OutcomesNow[j]
        /\ journal'[q[Len(s) + 1]].outcome = rec.outcome
    BY <1>1, <1>10, <1>11, <2>4
  <2>7. Len(OutcomesNow) = Len(s) /\ Len(s) \in Nat
    BY <1>11
  <2> HIDE DEF s, q
  <2>8. OutcomesNow' = Append(OutcomesNow, rec.outcome)
    <3> DEFINE os == OutcomesNow
    <3>1. os \in Seq(Outcome) /\ Len(os) = Len(s) /\ Len(os) \in Nat
      BY <1>11, <2>7
    <3>2. \A j \in 1 .. (Len(os) + 1) :
            journal'[q[j]].outcome = IF j <= Len(os) THEN os[j] ELSE rec.outcome
      <4> SUFFICES ASSUME NEW j \in 1 .. (Len(os) + 1)
                   PROVE  journal'[q[j]].outcome = IF j <= Len(os) THEN os[j] ELSE rec.outcome
        OBVIOUS
      <4>1. CASE j <= Len(os)
        <5>1. j \in 1 .. Len(s)
          BY <3>1, <4>1
        <5> QED
          BY <2>6, <4>1, <5>1
      <4>2. CASE ~(j <= Len(os))
        <5>1. j = Len(s) + 1
          BY <3>1, <4>2
        <5> QED
          BY <2>6, <4>2, <5>1
      <4> QED
        BY <4>1, <4>2
    <3> HIDE DEF os
    <3>3. OutcomesNow' = [j \in 1 .. (Len(os) + 1) |-> IF j <= Len(os) THEN os[j] ELSE rec.outcome]
      BY <2>5, <3>1, <3>2
    <3>4. Append(os, rec.outcome) = [j \in 1 .. (Len(os) + 1) |-> IF j <= Len(os) THEN os[j] ELSE rec.outcome]
      <4>1. rec.outcome \in Outcome
        BY <1>12, RecordFields
      <4> QED
        BY <3>1, <4>1
    <3> QED
      BY <3>3, <3>4 DEF os
  <2> QED
    BY <1>4, <1>8, <1>9, <1>12, <2>8
<1>13. CASE rec.type # "pair_settled"
  <2>1. Indices("pair_settled", m)' = Indices("pair_settled", n)
    BY <1>1, <1>13
  <2>2. SettledSince(m)' = SettledSince(n)
    BY <1>6, <2>1, Zenon DEF S
  <2>3. OutcomesNow' = OutcomesNow
    BY <1>1, <1>10, <1>11, <2>2
  <2> QED
    BY <1>4, <1>8, <1>9, <1>13, <2>3
<1> QED
  BY <1>4, <1>8, <1>9, <1>12, <1>13

-----------------------------------------------------------------------------
\* The first lanes of a wave.
LEMMA FirstLanes ==
  ASSUME NEW w \in Frozen, NEW c \in Nat, c <= Len(w)
  PROVE  /\ SubSeq(w, 1, c) \in Seq(Pairs) /\ Len(SubSeq(w, 1, c)) = c /\ DOMAIN SubSeq(w, 1, c) = 1 .. c
         /\ \A i \in 1 .. c : SubSeq(w, 1, c)[i] = w[i] /\ i \in DOMAIN w
         /\ Members(SubSeq(w, 1, c)) = {w[i] : i \in 1 .. c}
         /\ Members(SubSeq(w, 1, c)) \subseteq Members(w)
         /\ c = Len(w) => SubSeq(w, 1, c) = w
<1>1. w \in Seq(Pairs) /\ Len(w) \in Nat /\ DOMAIN w = 1 .. Len(w)
  BY FrozenMeans
<1>2. /\ SubSeq(w, 1, c) \in Seq(Pairs) /\ Len(SubSeq(w, 1, c)) = c /\ DOMAIN SubSeq(w, 1, c) = 1 .. c
      /\ \A i \in 1 .. c : SubSeq(w, 1, c)[i] = w[i] /\ i \in DOMAIN w
  BY <1>1
<1>3. Members(SubSeq(w, 1, c)) = {w[i] : i \in 1 .. c}
  BY <1>2 DEF Members
<1>4. Members(SubSeq(w, 1, c)) \subseteq Members(w)
  BY <1>2, <1>3 DEF Members
<1>5. ASSUME c = Len(w) PROVE SubSeq(w, 1, c) = w
  BY <1>1, <1>2, <1>5, SeqEqual
<1> QED
  BY <1>2, <1>3, <1>4, <1>5

\* The open wave: its lanes, how many of them are dispatched, and what is settled.
LEMMA OpenNowMeans ==
  ASSUME DurableTyped, JournalReads, OpenNow
  PROVE  /\ LanesNow \in Frozen /\ CountNow \in Nat /\ CountNow <= Len(LanesNow)
         /\ DispatchedHere = SubSeq(LanesNow, 1, CountNow)
         /\ Len(DispatchedHere) = CountNow /\ DOMAIN DispatchedHere = 1 .. CountNow
         /\ \A i \in 1 .. CountNow : DispatchedHere[i] = LanesNow[i] /\ i \in DOMAIN LanesNow
         /\ Members(DispatchedHere) = {LanesNow[i] : i \in 1 .. CountNow}
         /\ Members(DispatchedHere) \subseteq Members(LanesNow)
         /\ OutcomesNow \in Seq(Outcome) /\ ReservedNow = ClosedNow + 1
         /\ CountNow = Len(LanesNow) => DispatchedHere = LanesNow
         /\ Members(LanesNow) \subseteq Pairs
<1>0. PICK n \in Nat : n = Len(journal)
  BY DEF DurableTyped
<1>1. LanesNow \in Frozen /\ CountNow <= Len(LanesNow) /\ ReservedNow = ClosedNow + 1
  BY DEF JournalReads
<1>2. CountNow \in Nat
  <2>1. IsFiniteSet(Indices("pair_dispatched", n))
    BY IndicesMean
  <2>2. {i \in Indices("pair_dispatched", n) : i > Start(n)} \subseteq Indices("pair_dispatched", n)
    OBVIOUS
  <2>3. IsFiniteSet({i \in Indices("pair_dispatched", n) : i > Start(n)})
    BY <2>1, <2>2, FS_Subset
  <2> QED
    BY <1>0, <2>3, FS_CardinalityType DEF CountNow
<1>3. DispatchedHere = SubSeq(LanesNow, 1, CountNow)
  BY DEF DispatchedHere, Dispatched, LanesNow, CountNow
<1>4. OutcomesNow \in Seq(Outcome)
  <2>1. n \in 0 .. Len(journal)
    BY <1>0
  <2>2. Outcomes(n) \in Seq(Outcome)
    BY <2>1, OutcomesMean
  <2> QED
    BY <1>0, <2>2, Zenon DEF OutcomesNow
<1>5. Members(LanesNow) \subseteq Pairs
  BY <1>1, FrozenMeans DEF Members
<1> QED
  BY <1>1, <1>2, <1>3, <1>4, <1>5, FirstLanes

\* A reservation of fresh pairs opens the next wave.
LEMMA ReservationReads ==
  ASSUME DurableTyped, JournalReads, ~OpenNow, NEW w \in Frozen, PairsNow \cap Members(w) = {},
         journal' = Append(journal, WaveReserved(ClosedNow, w))
  PROVE  /\ JournalReads' /\ OpenNow' /\ ClosedNow' = ClosedNow /\ LanesNow' = w /\ CountNow' = 0
         /\ OutcomesNow' = <<>> /\ PairsNow' = PairsNow /\ Settlements' = Settlements
         /\ DispatchedHere' = <<>> /\ journal' \in Seq(Records)
<1>1. ClosedNow \in Nat /\ ReservedNow = ClosedNow
  <2>2. PICK n \in Nat : n = Len(journal)
    BY DEF DurableTyped
  <2>3. ClosedNow \in Nat
    BY <2>2, IndicesMean DEF ClosedNow, Closed
  <2> QED
    BY <2>3 DEF JournalReads
<1>2. PICK rec \in Records : rec = WaveReserved(ClosedNow, w)
  BY <1>1 DEF Records
<1>3. rec.type = "wave_reserved" /\ rec.wave = ClosedNow /\ rec.pairs = w
  BY <1>2 DEF WaveReserved
<1>4. journal' = Append(journal, rec)
  BY <1>2
<1>5. /\ Settlements' = Settlements /\ PairsNow' = PairsNow /\ ClosedNow' = ClosedNow
      /\ ReservedNow' = ReservedNow + 1 /\ (OpenNow' <=> ReservedNow' > ClosedNow')
  BY <1>1, <1>3, <1>4, AppendEffects
<1>6. LanesNow' = w /\ CountNow' = 0 /\ OutcomesNow' = <<>>
  BY <1>3, <1>4, ReservationOpens
<1>7. Takes(rec)
  BY <1>3 DEF Takes
<1>8. Readable'
  BY <1>4, <1>7, AppendReads DEF JournalReads
<1>9. OpenNow' /\ ReservedNow' = ClosedNow' + (IF OpenNow' THEN 1 ELSE 0)
  BY <1>1, <1>5
<1>10. DispatchedHere' = <<>> /\ Members(DispatchedHere') = {}
  <2>1. DispatchedHere' = SubSeq(w, 1, 0)
    <3>1. DispatchedHere' = SubSeq(LanesNow', 1, CountNow')
      BY DEF DispatchedHere, Dispatched, LanesNow, CountNow
    <3> QED
      BY <1>6, <3>1
  <2>2. Len(SubSeq(w, 1, 0)) = 0 /\ SubSeq(w, 1, 0) \in Seq(Pairs)
    BY FrozenMeans, FirstLanes
  <2> QED
    BY <2>1, <2>2 DEF Members
<1>11. /\ SettledPairs' = SettledPairs /\ PairsNow \subseteq Pairs /\ SettledPairs \subseteq PairsNow
       /\ \A o, x \in Settlements : o.pair = x.pair => o = x
  BY <1>5 DEF JournalReads, SettledPairs
<1>12. PairsOf(OutcomesNow') = {} /\ Members(OutcomesNow') = {} /\ DOMAIN OutcomesNow' = {}
  BY <1>6 DEF PairsOf, Members
<1>13. CountNow' <= Len(LanesNow')
  BY <1>6, FrozenMeans
<1>14. /\ Members(DispatchedHere') = PairsNow' \cap Members(LanesNow')
       /\ PairsOf(OutcomesNow') = SettledPairs' \cap Members(LanesNow')
  BY <1>5, <1>6, <1>10, <1>11, <1>12
<1>15. JournalReads'
  BY <1>5, <1>6, <1>8, <1>9, <1>11, <1>12, <1>13, <1>14 DEF JournalReads
<1>16. journal' \in Seq(Records)
  BY <1>4, AppendMeans
<1> QED
  BY <1>5, <1>6, <1>9, <1>10, <1>15, <1>16

\* A dispatch of the next lane.
LEMMA DispatchReads ==
  ASSUME DurableTyped, JournalReads, OpenNow, CountNow < Len(LanesNow), NEW p, p = LanesNow[CountNow + 1],
         p \notin PairsNow,
         journal' = Append(journal, PairDispatched(ClosedNow, p))
  PROVE  /\ JournalReads' /\ OpenNow' /\ ClosedNow' = ClosedNow /\ LanesNow' = LanesNow
         /\ CountNow' = CountNow + 1 /\ p \in Members(LanesNow) /\ p \in Pairs
         /\ OutcomesNow' = OutcomesNow /\ PairsNow' = PairsNow \cup {p} /\ Settlements' = Settlements
         /\ Members(DispatchedHere') = Members(DispatchedHere) \cup {p}
         /\ DispatchedHere' = SubSeq(LanesNow, 1, CountNow + 1) /\ journal' \in Seq(Records)
<1>0. /\ LanesNow \in Frozen /\ CountNow \in Nat /\ Len(DispatchedHere) = CountNow
      /\ Members(DispatchedHere) = {LanesNow[i] : i \in 1 .. CountNow} /\ ReservedNow = ClosedNow + 1
      /\ OutcomesNow \in Seq(Outcome) /\ Members(LanesNow) \subseteq Pairs
  BY OpenNowMeans
<1>1. CountNow + 1 \in 1 .. Len(LanesNow) /\ Len(LanesNow) \in Nat /\ DOMAIN LanesNow = 1 .. Len(LanesNow)
  BY <1>0, FrozenMeans
<1>2. p \in Members(LanesNow) /\ p \in Pairs
  BY <1>0, <1>1 DEF Members
<1>3. ClosedNow \in Nat
  <2>2. PICK n \in Nat : n = Len(journal)
    BY DEF DurableTyped
  <2> QED
    BY <2>2, IndicesMean DEF ClosedNow, Closed
<1>4. PICK rec \in Records : rec = PairDispatched(ClosedNow, p)
  BY <1>2, <1>3 DEF Records
<1>5. rec.type = "pair_dispatched" /\ rec.wave = ClosedNow /\ rec.pair = p /\ journal' = Append(journal, rec)
  BY <1>4 DEF PairDispatched
<1>6. /\ Settlements' = Settlements /\ PairsNow' = PairsNow \cup {p} /\ ClosedNow' = ClosedNow
      /\ ReservedNow' = ReservedNow /\ (OpenNow' <=> ReservedNow' > ClosedNow')
  BY <1>0, <1>3, <1>5, AppendEffects
<1>7. LanesNow' = LanesNow /\ CountNow' = CountNow + 1 /\ OutcomesNow' = OutcomesNow
  BY <1>5, OpenWaveGoesOn
<1>8. Readable'
  <2>1. Takes(rec)
    BY <1>0, <1>5 DEF Takes
  <2> QED
    BY <1>5, <2>1, AppendReads DEF JournalReads
<1>9. OpenNow' /\ ReservedNow' = ClosedNow' + (IF OpenNow' THEN 1 ELSE 0)
  BY <1>0, <1>3, <1>6
<1>10. DispatchedHere' = SubSeq(LanesNow, 1, CountNow + 1)
  <2>1. DispatchedHere' = SubSeq(LanesNow', 1, CountNow')
    BY DEF DispatchedHere, Dispatched, LanesNow, CountNow
  <2> QED
    BY <1>7, <2>1
<1>11. Members(DispatchedHere') = Members(DispatchedHere) \cup {p}
  <2>0. LanesNow \in Frozen /\ CountNow + 1 \in Nat /\ CountNow + 1 <= Len(LanesNow)
    BY <1>0, <1>1
  <2>1. Members(SubSeq(LanesNow, 1, CountNow + 1)) = {LanesNow[i] : i \in 1 .. (CountNow + 1)}
    BY <2>0, FirstLanes, Zenon
  <2>2. 1 .. (CountNow + 1) = (1 .. CountNow) \cup {CountNow + 1}
    BY <1>0
  <2> QED
    BY <1>0, <1>10, <2>1, <2>2
<1>12. /\ SettledPairs' = SettledPairs /\ PairsNow \subseteq Pairs /\ SettledPairs \subseteq PairsNow
       /\ \A o, x \in Settlements : o.pair = x.pair => o = x
       /\ Members(DispatchedHere) = PairsNow \cap Members(LanesNow)
       /\ Members(OutcomesNow) \subseteq Settlements
       /\ PairsOf(OutcomesNow) = SettledPairs \cap Members(LanesNow)
       /\ \A i, j \in DOMAIN OutcomesNow : OutcomesNow[i].pair = OutcomesNow[j].pair => i = j
  BY <1>6 DEF JournalReads, SettledPairs
<1>13. CountNow' <= Len(LanesNow')
  BY <1>1, <1>7
<1>14. Members(DispatchedHere') = PairsNow' \cap Members(LanesNow')
  BY <1>2, <1>6, <1>7, <1>11, <1>12
<1>15. JournalReads'
  <2>1. /\ LanesNow' \in Frozen /\ Members(OutcomesNow') \subseteq Settlements'
        /\ PairsOf(OutcomesNow') = SettledPairs' \cap Members(LanesNow')
        /\ \A i, j \in DOMAIN OutcomesNow' : (OutcomesNow')[i].pair = (OutcomesNow')[j].pair => i = j
    BY <1>0, <1>6, <1>7, <1>12
  <2>2. /\ PairsNow' \subseteq Pairs /\ SettledPairs' \subseteq PairsNow'
        /\ \A o, x \in Settlements' : o.pair = x.pair => o = x
    BY <1>2, <1>6, <1>12
  <2> QED
    BY <1>8, <1>9, <1>13, <1>14, <2>1, <2>2 DEF JournalReads
<1>16. journal' \in Seq(Records)
  BY <1>5, AppendMeans
<1> QED
  BY <1>2, <1>6, <1>7, <1>9, <1>10, <1>11, <1>15, <1>16

\* A settlement of a dispatched pair that has none.
LEMMA SettlementReads ==
  ASSUME DurableTyped, JournalReads, OpenNow, NEW o \in Outcome, o.pair \in Members(DispatchedHere),
         o.pair \notin PairsOf(OutcomesNow), Accounted(o),
         journal' = Append(journal, PairSettled(ClosedNow, o))
  PROVE  /\ JournalReads' /\ OpenNow' /\ ClosedNow' = ClosedNow /\ LanesNow' = LanesNow
         /\ CountNow' = CountNow /\ DispatchedHere' = DispatchedHere
         /\ OutcomesNow' = Append(OutcomesNow, o) /\ PairsNow' = PairsNow
         /\ Settlements' = Settlements \cup {o} /\ o.pair \notin SettledPairs /\ o.pair \in PairsNow
         /\ SettledPairs' = SettledPairs \cup {o.pair} /\ journal' \in Seq(Records)
<1>0. /\ LanesNow \in Frozen /\ CountNow \in Nat /\ Members(DispatchedHere) \subseteq Members(LanesNow)
      /\ ReservedNow = ClosedNow + 1 /\ OutcomesNow \in Seq(Outcome)
  BY OpenNowMeans
<1>3. ClosedNow \in Nat
  <2>2. PICK n \in Nat : n = Len(journal)
    BY DEF DurableTyped
  <2> QED
    BY <2>2, IndicesMean DEF ClosedNow, Closed
<1>4. PICK rec \in Records : rec = PairSettled(ClosedNow, o)
  BY <1>3 DEF Records
<1>5. rec.type = "pair_settled" /\ rec.wave = ClosedNow /\ rec.outcome = o /\ journal' = Append(journal, rec)
  BY <1>4 DEF PairSettled
<1>6. /\ Settlements' = Settlements \cup {o} /\ PairsNow' = PairsNow /\ ClosedNow' = ClosedNow
      /\ ReservedNow' = ReservedNow /\ (OpenNow' <=> ReservedNow' > ClosedNow')
  BY <1>0, <1>3, <1>5, AppendEffects
<1>7. LanesNow' = LanesNow /\ CountNow' = CountNow /\ OutcomesNow' = Append(OutcomesNow, o)
  BY <1>0, <1>5, OpenWaveGoesOn
<1>8. Readable'
  <2>1. Takes(rec)
    BY <1>5 DEF Takes
  <2> QED
    BY <1>5, <2>1, AppendReads DEF JournalReads
<1>9. OpenNow' /\ ReservedNow' = ClosedNow' + (IF OpenNow' THEN 1 ELSE 0)
  BY <1>0, <1>3, <1>6
<1>10. DispatchedHere' = DispatchedHere
  <2>1. DispatchedHere' = SubSeq(LanesNow', 1, CountNow') /\ DispatchedHere = SubSeq(LanesNow, 1, CountNow)
    BY DEF DispatchedHere, Dispatched, LanesNow, CountNow
  <2> QED
    BY <1>7, <2>1
<1>12. /\ PairsNow \subseteq Pairs /\ SettledPairs \subseteq PairsNow
       /\ \A y, x \in Settlements : y.pair = x.pair => y = x
       /\ Members(DispatchedHere) = PairsNow \cap Members(LanesNow)
       /\ Members(OutcomesNow) \subseteq Settlements /\ CountNow <= Len(LanesNow)
       /\ PairsOf(OutcomesNow) = SettledPairs \cap Members(LanesNow)
       /\ \A i, j \in DOMAIN OutcomesNow : OutcomesNow[i].pair = OutcomesNow[j].pair => i = j
  BY DEF JournalReads
<1>13. o.pair \notin SettledPairs /\ o.pair \in PairsNow /\ o.pair \in Members(LanesNow)
  BY <1>0, <1>12
<1>14. SettledPairs' = SettledPairs \cup {o.pair}
  <2>1. SettledPairs' = {x.pair : x \in Settlements \cup {o}}
    BY <1>6, Zenon DEF SettledPairs
  <2> QED
    BY <2>1 DEF SettledPairs
<1>15. \A y, x \in Settlements' : y.pair = x.pair => y = x
  <2>1. \A y \in Settlements : y.pair # o.pair
    BY <1>13 DEF SettledPairs
  <2> QED
    BY <1>6, <1>12, <2>1
<1>16. /\ DOMAIN OutcomesNow' = 1 .. (Len(OutcomesNow) + 1) /\ Len(OutcomesNow) \in Nat
       /\ DOMAIN OutcomesNow = 1 .. Len(OutcomesNow)
       /\ \A i \in DOMAIN OutcomesNow : i \in DOMAIN OutcomesNow' /\ (OutcomesNow')[i] = OutcomesNow[i]
       /\ (OutcomesNow')[Len(OutcomesNow) + 1] = o /\ Len(OutcomesNow) + 1 \in DOMAIN OutcomesNow'
       /\ \A i \in DOMAIN OutcomesNow' : i \in DOMAIN OutcomesNow \/ i = Len(OutcomesNow) + 1
  BY <1>0, <1>7
<1>17. Members(OutcomesNow') \subseteq Settlements'
  BY <1>6, <1>12, <1>16 DEF Members
<1>18. PairsOf(OutcomesNow') = PairsOf(OutcomesNow) \cup {o.pair}
  BY <1>16 DEF PairsOf
<1>19. PairsOf(OutcomesNow') = SettledPairs' \cap Members(LanesNow')
  BY <1>7, <1>12, <1>13, <1>14, <1>18
<1>20. \A i, j \in DOMAIN OutcomesNow' : (OutcomesNow')[i].pair = (OutcomesNow')[j].pair => i = j
  <2>1. \A i \in DOMAIN OutcomesNow : OutcomesNow[i].pair # o.pair
    BY DEF PairsOf
  <2> QED
    BY <1>12, <1>16, <2>1
<1>21. JournalReads'
  <2>1. PairsNow' \subseteq Pairs /\ SettledPairs' \subseteq PairsNow'
    BY <1>6, <1>12, <1>13, <1>14
  <2>2. /\ LanesNow' \in Frozen /\ CountNow' <= Len(LanesNow')
        /\ Members(DispatchedHere') = PairsNow' \cap Members(LanesNow')
    BY <1>0, <1>6, <1>7, <1>10, <1>12
  <2> QED
    BY <1>8, <1>9, <1>15, <1>17, <1>19, <1>20, <2>1, <2>2 DEF JournalReads
<1>22. journal' \in Seq(Records)
  BY <1>5, AppendMeans
<1> QED
  BY <1>6, <1>7, <1>9, <1>10, <1>13, <1>14, <1>21, <1>22

\* A closure is a record of the journal.
LEMMA ClosureIsRecord ==
  ASSUME NEW k \in Nat, NEW w \in Frozen, NEW d \in Seq(Pairs), NEW os \in Seq(Outcome)
  PROVE  WaveClosed(k, Summary(w, d, os)) \in Records
<1>1. \E l \in Nat, v \in Frozen, e \in Seq(Pairs), qs \in Seq(Outcome) :
        WaveClosed(k, Summary(w, d, os)) = WaveClosed(l, Summary(v, e, qs))
  OBVIOUS
<1>2. WaveClosed(k, Summary(w, d, os)) \in
        {WaveClosed(l, Summary(v, e, qs)) : l \in Nat, v \in Frozen, e \in Seq(Pairs), qs \in Seq(Outcome)}
  BY <1>1
<1> QED
  BY <1>2 DEF Records

\* The closure of a wave of which every dispatched pair is settled.
LEMMA ClosureReads ==
  ASSUME DurableTyped, JournalReads, OpenNow, Len(OutcomesNow) = Len(DispatchedHere),
         journal' = Append(journal, WaveClosed(ClosedNow, Summary(LanesNow, DispatchedHere, OutcomesNow)))
  PROVE  /\ JournalReads' /\ ~OpenNow' /\ ClosedNow' = ClosedNow + 1 /\ PairsNow' = PairsNow
         /\ Settlements' = Settlements /\ journal' \in Seq(Records)
<1>0. /\ LanesNow \in Frozen /\ CountNow \in Nat /\ CountNow <= Len(LanesNow)
      /\ DispatchedHere = SubSeq(LanesNow, 1, CountNow)
      /\ ReservedNow = ClosedNow + 1 /\ OutcomesNow \in Seq(Outcome)
  BY OpenNowMeans
<1>1. DispatchedHere \in Seq(Pairs)
  BY <1>0, FirstLanes
<1>3. ClosedNow \in Nat
  <2>2. PICK n \in Nat : n = Len(journal)
    BY DEF DurableTyped
  <2> QED
    BY <2>2, IndicesMean DEF ClosedNow, Closed
<1>4. PICK rec \in Records : rec = WaveClosed(ClosedNow, Summary(LanesNow, DispatchedHere, OutcomesNow))
  <2>1. WaveClosed(ClosedNow, Summary(LanesNow, DispatchedHere, OutcomesNow)) \in Records
    BY <1>0, <1>1, <1>3, ClosureIsRecord
  <2> QED
    BY <2>1, Zenon
<1>5. /\ rec.type = "wave_closed" /\ rec.wave = ClosedNow /\ journal' = Append(journal, rec)
      /\ rec.summary = Summary(LanesNow, DispatchedHere, OutcomesNow)
  BY <1>4 DEF WaveClosed
<1>6. /\ Settlements' = Settlements /\ PairsNow' = PairsNow /\ ClosedNow' = ClosedNow + 1
      /\ ReservedNow' = ReservedNow /\ (OpenNow' <=> ReservedNow' > ClosedNow')
  BY <1>0, <1>3, <1>5, AppendEffects
<1>8. Readable'
  <2>1. Takes(rec)
    BY <1>5 DEF Takes
  <2> QED
    BY <1>5, <2>1, AppendReads DEF JournalReads
<1>9. ~OpenNow' /\ ReservedNow' = ClosedNow' + (IF OpenNow' THEN 1 ELSE 0)
  BY <1>0, <1>3, <1>6
<1>10. JournalReads'
  BY <1>6, <1>8, <1>9 DEF JournalReads, SettledPairs
<1>11. journal' \in Seq(Records)
  BY <1>5, AppendMeans
<1> QED
  BY <1>6, <1>9, <1>10, <1>11

-----------------------------------------------------------------------------
\* What the journal says stays as long as nothing is appended.
LEMMA JournalSame ==
  ASSUME DurableTyped, UNCHANGED journal
  PROVE  /\ OpenNow' = OpenNow /\ ClosedNow' = ClosedNow /\ ReservedNow' = ReservedNow
         /\ LanesNow' = LanesNow /\ CountNow' = CountNow /\ OutcomesNow' = OutcomesNow
         /\ PairsNow' = PairsNow /\ Settlements' = Settlements /\ SettledPairs' = SettledPairs
         /\ DispatchedHere' = DispatchedHere /\ Readable' = Readable
         /\ JournalReads => JournalReads'
<1>0. PICK n \in Nat : n = Len(journal)
  BY DEF DurableTyped
<1>1. ASSUME NEW k PROVE /\ IsOpen(k)' = IsOpen(k) /\ Closed(k)' = Closed(k) /\ Reserved(k)' = Reserved(k)
                         /\ Start(k)' = Start(k) /\ Lanes(k)' = Lanes(k) /\ Dispatched(k)' = Dispatched(k)
                         /\ DispatchedPairs(k)' = DispatchedPairs(k) /\ Outcomes(k)' = Outcomes(k)
                         /\ Indices("pair_dispatched", k)' = Indices("pair_dispatched", k)
                         /\ Indices("pair_settled", k)' = Indices("pair_settled", k)
  <2>1. \A t : Indices(t, k)' = Indices(t, k)
    BY DEF Indices
  <2>a. /\ Indices("pair_dispatched", k)' = Indices("pair_dispatched", k)
        /\ Indices("pair_settled", k)' = Indices("pair_settled", k)
    BY <2>1
  <2>2. IsOpen(k)' = IsOpen(k) /\ Closed(k)' = Closed(k) /\ Reserved(k)' = Reserved(k)
    BY <2>1 DEF IsOpen, Closed, Reserved
  <2>3. Start(k)' = Start(k)
    BY <2>2 DEF Start
  <2>4. Lanes(k)' = Lanes(k)
    BY <2>3 DEF Lanes
  <2>5. Dispatched(k)' = Dispatched(k)
    BY <2>a, <2>3, <2>4, Zenon DEF Dispatched
  <2>6. DispatchedPairs(k)' = DispatchedPairs(k)
    BY <2>a, Zenon DEF DispatchedPairs
  <2>7. SettledSince(k)' = SettledSince(k)
    BY <2>a, <2>3, Zenon DEF SettledSince
  <2>8. Outcomes(k)' = Outcomes(k)
    BY <2>7, Zenon DEF Outcomes
  <2> QED
    BY <2>1, <2>2, <2>3, <2>4, <2>5, <2>6, <2>8
<1>2. n = Len(journal)'
  BY <1>0
<1>3. /\ OpenNow' = OpenNow /\ ClosedNow' = ClosedNow /\ LanesNow' = LanesNow /\ OutcomesNow' = OutcomesNow
      /\ PairsNow' = PairsNow /\ DispatchedHere' = DispatchedHere
  BY <1>0, <1>1, <1>2 DEF OpenNow, ClosedNow, LanesNow, OutcomesNow, PairsNow, DispatchedHere
<1>4. ReservedNow' = ReservedNow
  BY <1>0, <1>1, <1>2, Zenon DEF ReservedNow
<1>5. CountNow' = CountNow
  BY <1>0, <1>1, <1>2, Zenon DEF CountNow
<1>6. Settlements' = Settlements
  BY <1>0, <1>1, <1>2, Zenon DEF Settlements
<1>7. SettledPairs' = SettledPairs
  BY <1>6, Zenon DEF SettledPairs
<1>8. Readable' = Readable
  <2>1. ASSUME NEW i PROVE Accepts(i)' = Accepts(i)
    BY <1>1 DEF Accepts
  <2> QED
    BY <2>1 DEF Readable
<1>9. ASSUME JournalReads PROVE JournalReads'
  <2>1. PairsOf(OutcomesNow)' = PairsOf(OutcomesNow) /\ Members(DispatchedHere)' = Members(DispatchedHere)
        /\ Members(LanesNow)' = Members(LanesNow) /\ Members(OutcomesNow)' = Members(OutcomesNow)
    BY <1>3, Zenon DEF PairsOf, Members
  <2> QED
    BY <1>3, <1>4, <1>5, <1>6, <1>7, <1>8, <1>9, <2>1 DEF JournalReads
<1> QED
  BY <1>3, <1>4, <1>5, <1>6, <1>7, <1>8, <1>9

\* The legacy ledger still follows a journal that says more, as long as nothing is added to it.
LEMMA LegacyStays ==
  ASSUME DurableTyped, LegacyMatches, UNCHANGED legacy, PairsNow \subseteq PairsNow', Settlements \subseteq Settlements',
         pc' \in Running => pc \in Running /\ UNCHANGED <<known, wave, sent>>
  PROVE  LegacyMatches'
<1>1. ASSUME NEW i \in DOMAIN legacy, legacy[i].type = "pair_terminal"
      PROVE  /\ \E o \in Settlements' : o.pair = legacy[i].pair /\ o.kind = "terminal"
             /\ pc' \in Running => legacy[i].pair \in known' \cup {wave'[j] : j \in {h \in DOMAIN wave' : h < sent'}}
             /\ \A j \in DOMAIN legacy : legacy[j] = legacy[i] => i = j
  BY <1>1 DEF LegacyMatches
<1>2. ASSUME NEW i \in DOMAIN legacy, legacy[i].type = "pair_dispatched" PROVE legacy[i].pair \in PairsNow'
  BY <1>2 DEF LegacyMatches
<1>3. legacy' = legacy
  OBVIOUS
<1> QED
  BY <1>1, <1>2, <1>3 DEF LegacyMatches

\* The records of the legacy ledger that name a wave.
LEMMA LegacyWaveRecord ==
  ASSUME NEW w \in Frozen
  PROVE  /\ [type |-> "suffix_wave_reserved", pairs |-> w] \in LegacyRecords
         /\ \A os \in Seq(Outcome) :
              [type |-> "wave_accounting", pairs |-> w, charge |-> Charge(os)] \in LegacyRecords
<1>1. [type |-> "suffix_wave_reserved", pairs |-> w] \in LegacyRecords
  BY DEF LegacyRecords
<1>2. ASSUME NEW os \in Seq(Outcome)
      PROVE  [type |-> "wave_accounting", pairs |-> w, charge |-> Charge(os)] \in LegacyRecords
  BY DEF LegacyRecords
<1> QED
  BY <1>1, <1>2

\* The records of the legacy ledger that name a pair.
LEMMA LegacyPairRecord ==
  ASSUME NEW p \in Pairs
  PROVE  /\ [type |-> "pair_dispatched", pair |-> p] \in LegacyRecords
         /\ [type |-> "pair_terminal", pair |-> p] \in LegacyRecords
<1>1. [type |-> "pair_dispatched", pair |-> p] \in LegacyRecords
  BY DEF LegacyRecords
<1>2. [type |-> "pair_terminal", pair |-> p] \in LegacyRecords
  BY DEF LegacyRecords
<1> QED
  BY <1>1, <1>2

\* A record that is no terminal may be added to the legacy ledger.
LEMMA LegacyGrows ==
  ASSUME DurableTyped, LegacyMatches, NEW rec \in LegacyRecords, legacy' = Append(legacy, rec),
         rec.type # "pair_terminal", rec.type = "pair_dispatched" => rec.pair \in PairsNow,
         PairsNow' = PairsNow, Settlements' = Settlements,
         pc' \in Running => /\ pc \in Running /\ known' = known /\ wave' = wave /\ sent' \in Nat /\ sent <= sent'
  PROVE  LegacyMatches' /\ legacy' \in Seq(LegacyRecords)
<1>1. legacy \in Seq(LegacyRecords) /\ sent \in Nat
  BY DEF DurableTyped
<1>2. /\ legacy' \in Seq(LegacyRecords) /\ DOMAIN legacy = 1 .. Len(legacy) /\ Len(legacy) \in Nat
      /\ DOMAIN legacy' = 1 .. (Len(legacy) + 1) /\ legacy'[Len(legacy) + 1] = rec
      /\ \A i \in DOMAIN legacy : legacy'[i] = legacy[i]
  BY <1>1
<1>3. \A i \in DOMAIN legacy' : i \in DOMAIN legacy \/ i = Len(legacy) + 1
  BY <1>2
<1>4. ASSUME NEW i \in DOMAIN legacy', legacy'[i].type = "pair_terminal"
      PROVE  /\ \E o \in Settlements' : o.pair = legacy'[i].pair /\ o.kind = "terminal"
             /\ pc' \in Running => legacy'[i].pair \in known' \cup {wave'[j] : j \in {h \in DOMAIN wave' : h < sent'}}
             /\ \A j \in DOMAIN legacy' : legacy'[j] = legacy'[i] => i = j
  <2>1. i \in DOMAIN legacy /\ legacy'[i] = legacy[i] /\ legacy[i].type = "pair_terminal"
    BY <1>2, <1>3, <1>4
  <2>2. /\ \E o \in Settlements : o.pair = legacy[i].pair /\ o.kind = "terminal"
        /\ pc \in Running => legacy[i].pair \in known \cup {wave[j] : j \in {h \in DOMAIN wave : h < sent}}
        /\ \A j \in DOMAIN legacy : legacy[j] = legacy[i] => i = j
    BY <2>1 DEF LegacyMatches
  <2>3. \A j \in DOMAIN legacy' : legacy'[j] = legacy'[i] => i = j
    <3> SUFFICES ASSUME NEW j \in DOMAIN legacy', legacy'[j] = legacy'[i] PROVE i = j
      OBVIOUS
    <3>1. j \in DOMAIN legacy
      BY <1>2, <1>3, <1>4
    <3> QED
      BY <1>2, <2>1, <2>2, <3>1
  <2>4. ASSUME pc' \in Running
        PROVE  legacy'[i].pair \in known' \cup {wave'[j] : j \in {h \in DOMAIN wave' : h < sent'}}
    <3>1. wave \in Frozen \cup {<<>>}
      BY DEF DurableTyped
    <3>2. \A h \in DOMAIN wave : h \in Nat
      BY <3>1, FrozenMeans
    <3> QED
      BY <1>1, <2>1, <2>2, <2>4, <3>2
  <2> QED
    BY <2>1, <2>2, <2>3, <2>4
<1>5. ASSUME NEW i \in DOMAIN legacy', legacy'[i].type = "pair_dispatched" PROVE legacy'[i].pair \in PairsNow'
  <2>1. CASE i = Len(legacy) + 1
    BY <1>2, <1>5, <2>1
  <2>2. CASE i \in DOMAIN legacy
    BY <1>2, <1>5, <2>2 DEF LegacyMatches
  <2> QED
    BY <1>3, <2>1, <2>2
<1>6. LegacyMatches'
  BY <1>4, <1>5 DEF LegacyMatches
<1> QED
  BY <1>2, <1>6

-----------------------------------------------------------------------------
\* Where no call runs, the calls match.
LEMMA CallsRest ==
  ASSUME lanes' = NoCalls, \A p \in Pairs : p \notin PairsNow' => attempts'[p] = 0, SettledAsAnswered',
         pc' \in Running => \A p \in Members(wave') : made'[p] = attempts'[p]
  PROVE  CallsMatch'
<1>1. \A p \in Pairs : lanes'[p] = "idle"
  BY DEF NoCalls
<1>2. "idle" \notin Kinds
  BY DEF Kinds
<1>3. \A p \in Pairs : p \in Members(wave)' => p \in Members(wave')
  BY DEF Members
<1> QED
  BY <1>1, <1>2, <1>3 DEF CallsMatch

\* Nothing is journalled and nobody runs: what is true of the answers stays so.
LEMMA AnswersStay ==
  ASSUME CallsMatch, Settlements' = Settlements, UNCHANGED answers
  PROVE  SettledAsAnswered'
BY DEF CallsMatch, SettledAsAnswered

\* The process has not started.
LEMMA DurableInitHolds == Init => DurableInv
<1> SUFFICES ASSUME Init PROVE DurableInv
  OBVIOUS
<1>0. /\ journal = <<>> /\ legacy = <<>> /\ pc = "down" /\ known = {} /\ waves = 0 /\ wave = <<>> /\ done = <<>>
      /\ sent = 0 /\ lanes = NoCalls /\ made = Zero /\ attempts = Zero /\ answers = NoCalls
  BY DEF Init
<1>1. Len(journal) = 0 /\ Cardinality({}) = 0
  BY <1>0, FS_EmptySet
<1>2. \A t : Indices(t, 0) = {}
  BY DEF Indices
<1>3. ReservedNow = 0 /\ ClosedNow = 0 /\ ~OpenNow
  <2>1. Indices("wave_reserved", 0) = {} /\ Indices("wave_closed", 0) = {}
    BY <1>2
  <2>2. Cardinality(Reserved(0)) = 0 /\ Cardinality(Indices("wave_closed", 0)) = 0
    BY <1>1, <2>1, Zenon DEF Reserved
  <2> QED
    BY <1>1, <2>2 DEF ReservedNow, ClosedNow, OpenNow, IsOpen, Closed
<1>4. PairsNow = {} /\ Settlements = {} /\ SettledPairs = {}
  <2>1. PairsNow = {journal[i].pair : i \in {}} /\ Settlements = {journal[i].outcome : i \in {}}
    BY <1>1, <1>2, Zenon DEF PairsNow, DispatchedPairs, Settlements
  <2> QED
    BY <2>1 DEF SettledPairs
<1>5. DurableTyped
  BY <1>0 DEF DurableTyped, NoCalls, Zero, AtRest
<1>6. JournalReads
  BY <1>1, <1>3, <1>4 DEF JournalReads, Readable
<1>7. MemoryMatches
  BY <1>0 DEF MemoryMatches, AtRest, Running
<1>8. CallsMatch
  BY <1>0, <1>4 DEF CallsMatch, SettledAsAnswered, Running, NoCalls, Zero, Kinds
<1>9. LegacyMatches
  BY <1>0 DEF LegacyMatches
<1> QED
  BY <1>5, <1>6, <1>7, <1>8, <1>9 DEF DurableInv

\* The replay takes the journal as it is.
LEMMA ReplayKeeps ==
  ASSUME DurableInv, Replay
  PROVE  DurableInv' /\ pc' # "rejected"
<1>0. /\ DurableTyped /\ JournalReads /\ MemoryMatches /\ CallsMatch /\ LegacyMatches
      /\ pc = "down" /\ UNCHANGED <<journal, legacy, calls, crashes>> /\ pc \notin Running
  BY DEF DurableInv, Replay, Running
<1>1. UNCHANGED <<journal, legacy, lanes, made, attempts, answers>>
  BY <1>0 DEF calls
<1>2. /\ OpenNow' = OpenNow /\ ClosedNow' = ClosedNow /\ LanesNow' = LanesNow /\ CountNow' = CountNow
      /\ OutcomesNow' = OutcomesNow /\ PairsNow' = PairsNow /\ Settlements' = Settlements
      /\ JournalReads'
  BY <1>0, <1>1, JournalSame
<1>3. /\ known' = PairsNow /\ waves' = ClosedNow /\ sent' = 0
      /\ OpenNow => pc' = "seal" /\ wave' = LanesNow /\ done' = OutcomesNow
      /\ ~OpenNow => pc' = "ready" /\ wave' = <<>> /\ done' = <<>>
  <2>1. Readable
    BY <1>0 DEF JournalReads
  <2> QED
    BY <2>1 DEF Replay, PairsNow, ClosedNow, OpenNow, LanesNow, OutcomesNow
<1>4. pc' \in {"seal", "ready"} /\ pc' \notin Running /\ pc' \notin AtRest
  BY <1>3 DEF Running, AtRest
<1>5. DurableTyped'
  <2>1. ClosedNow \in Nat
    <3>1. PICK n \in Nat : n = Len(journal)
      BY <1>0 DEF DurableTyped
    <3> QED
      BY <3>1, IndicesMean DEF ClosedNow, Closed
  <2>2. OpenNow => LanesNow \in Frozen /\ OutcomesNow \in Seq(Outcome)
    BY <1>0, OpenNowMeans
  <2>3. PairsNow \subseteq Pairs
    BY <1>0 DEF JournalReads
  <2>4. <<>> \in Seq(Outcome)
    OBVIOUS
  <2>5. wave' \in Frozen \cup {<<>>} /\ done' \in Seq(Outcome)
    BY <1>3, <2>2, <2>4
  <2> QED
    BY <1>0, <1>1, <1>3, <1>4, <2>1, <2>3, <2>5 DEF DurableTyped
<1>6. MemoryMatches'
  BY <1>2, <1>3, <1>4 DEF MemoryMatches, Running
<1>7. CallsMatch'
  <2>1. SettledAsAnswered'
    BY <1>0, <1>1, <1>2, AnswersStay
  <2>2. lanes' = NoCalls
    BY <1>0, <1>1 DEF CallsMatch
  <2>3. \A p \in Pairs : p \notin PairsNow' => attempts'[p] = 0
    BY <1>0, <1>1, <1>2 DEF CallsMatch
  <2> QED
    BY <1>4, <2>1, <2>2, <2>3, CallsRest
<1>8. LegacyMatches'
  BY <1>0, <1>1, <1>2, <1>4, LegacyStays
<1> QED
  BY <1>2, <1>4, <1>5, <1>6, <1>7, <1>8 DEF DurableInv, AtRest

\* What is on disk and in the world survives the process.
LEMMA ForgettingKeeps ==
  ASSUME DurableInv, Forget, pc' = "down", UNCHANGED <<journal, legacy, attempts, answers>>
  PROVE  DurableInv'
<1>0. /\ DurableTyped /\ JournalReads /\ MemoryMatches /\ CallsMatch /\ LegacyMatches
      /\ pc' \notin Running /\ pc' \in AtRest
  BY DEF DurableInv, Running, AtRest
<1>1. /\ known' = {} /\ waves' = 0 /\ wave' = <<>> /\ done' = <<>> /\ sent' = 0 /\ lanes' = NoCalls /\ made' = Zero
      /\ UNCHANGED <<journal, legacy, attempts, answers>>
  BY DEF Forget
<1>2. PairsNow' = PairsNow /\ Settlements' = Settlements /\ JournalReads'
  BY <1>0, <1>1, JournalSame
<1>3. DurableTyped'
  BY <1>0, <1>1 DEF DurableTyped, NoCalls, Zero
<1>4. MemoryMatches'
  BY <1>0 DEF MemoryMatches, Running, AtRest
<1>5. CallsMatch'
  <2>1. SettledAsAnswered'
    BY <1>0, <1>1, <1>2, AnswersStay
  <2>2. \A p \in Pairs : p \notin PairsNow' => attempts'[p] = 0
    BY <1>0, <1>1, <1>2 DEF CallsMatch
  <2> QED
    BY <1>0, <1>1, <2>1, <2>2, CallsRest
<1>6. LegacyMatches'
  BY <1>0, <1>1, <1>2, LegacyStays
<1> QED
  BY <1>2, <1>3, <1>4, <1>5, <1>6 DEF DurableInv

\* A wave in flight is what the journal says of the open one.
LEMMA InFlightMeans ==
  ASSUME DurableInv, pc \in Running \cup {"seal"}
  PROVE  /\ OpenNow /\ wave = LanesNow /\ done = OutcomesNow /\ waves = ClosedNow
         /\ wave \in Frozen /\ DOMAIN wave = 1 .. Len(wave) /\ Len(wave) \in Nat /\ CountNow \in Nat
         /\ CountNow <= Len(wave) /\ Len(DispatchedHere) = CountNow /\ DOMAIN DispatchedHere = 1 .. CountNow
         /\ DispatchedHere = SubSeq(wave, 1, CountNow)
         /\ \A i \in 1 .. CountNow : DispatchedHere[i] = wave[i] /\ i \in DOMAIN wave
         /\ Members(DispatchedHere) \subseteq Members(wave) /\ Members(wave) \subseteq Pairs
         /\ Members(DispatchedHere) = {wave[i] : i \in 1 .. CountNow}
         /\ CountNow = Len(wave) => DispatchedHere = wave
         /\ \A i, j \in 1 .. Len(wave) : wave[i] = wave[j] => i = j
         /\ Members(DispatchedHere) = PairsNow \cap Members(wave)
         /\ Members(done) \subseteq Settlements /\ PairsOf(done) = SettledPairs \cap Members(wave)
         /\ \A i, j \in DOMAIN done : done[i].pair = done[j].pair => i = j
         /\ done \in Seq(Outcome)
<1>1. DurableTyped /\ JournalReads /\ MemoryMatches
  BY DEF DurableInv
<1>2. OpenNow /\ wave = LanesNow /\ done = OutcomesNow /\ waves = ClosedNow
  BY <1>1 DEF MemoryMatches, Running, AtRest
<1>3. /\ LanesNow \in Frozen /\ CountNow \in Nat /\ CountNow <= Len(LanesNow)
      /\ DispatchedHere = SubSeq(LanesNow, 1, CountNow)
      /\ Len(DispatchedHere) = CountNow /\ DOMAIN DispatchedHere = 1 .. CountNow
      /\ \A i \in 1 .. CountNow : DispatchedHere[i] = LanesNow[i] /\ i \in DOMAIN LanesNow
      /\ Members(DispatchedHere) = {LanesNow[i] : i \in 1 .. CountNow}
      /\ Members(DispatchedHere) \subseteq Members(LanesNow)
      /\ OutcomesNow \in Seq(Outcome)
      /\ CountNow = Len(LanesNow) => DispatchedHere = LanesNow
      /\ Members(LanesNow) \subseteq Pairs
  BY <1>1, <1>2, OpenNowMeans
<1>4. /\ DOMAIN wave = 1 .. Len(wave) /\ Len(wave) \in Nat
      /\ \A i, j \in 1 .. Len(wave) : wave[i] = wave[j] => i = j
  BY <1>2, <1>3, FrozenMeans
<1>5. /\ Members(DispatchedHere) = PairsNow \cap Members(LanesNow)
      /\ Members(OutcomesNow) \subseteq Settlements /\ PairsOf(OutcomesNow) = SettledPairs \cap Members(LanesNow)
      /\ \A i, j \in DOMAIN OutcomesNow : OutcomesNow[i].pair = OutcomesNow[j].pair => i = j
  BY <1>1, <1>2 DEF JournalReads
<1>6. /\ wave \in Frozen /\ CountNow \in Nat /\ CountNow <= Len(wave)
      /\ DispatchedHere = SubSeq(wave, 1, CountNow)
      /\ Len(DispatchedHere) = CountNow /\ DOMAIN DispatchedHere = 1 .. CountNow
      /\ \A i \in 1 .. CountNow : DispatchedHere[i] = wave[i] /\ i \in DOMAIN wave
  BY <1>2, <1>3
<1>7. /\ Members(DispatchedHere) = {wave[i] : i \in 1 .. CountNow}
      /\ Members(DispatchedHere) \subseteq Members(wave) /\ done \in Seq(Outcome)
      /\ CountNow = Len(wave) => DispatchedHere = wave
      /\ Members(wave) \subseteq Pairs
  BY <1>2, <1>3
<1>8. /\ Members(DispatchedHere) = PairsNow \cap Members(wave)
      /\ Members(done) \subseteq Settlements /\ PairsOf(done) = SettledPairs \cap Members(wave)
      /\ \A i, j \in DOMAIN done : done[i].pair = done[j].pair => i = j
  BY <1>2, <1>5
<1> QED
  BY <1>2, <1>4, <1>6, <1>7, <1>8

\* Sealing settles a dispatched pair whose answer is lost.
LEMMA SealPairKeeps ==
  ASSUME DurableInv, SealPair
  PROVE  DurableInv' /\ \E p \in PairsNow \ SettledPairs :
                          Settlements' = Settlements \cup {Recovered(p)} /\ PairsNow' = PairsNow
<1>0. /\ DurableTyped /\ JournalReads /\ MemoryMatches /\ CallsMatch /\ LegacyMatches
      /\ pc = "seal" /\ UNCHANGED <<legacy, pc, known, waves, wave, sent, calls, crashes>>
      /\ pc \notin Running /\ pc \in Running \cup {"seal"} /\ pc \notin AtRest
  BY DEF DurableInv, SealPair, Running, AtRest
<1>1. UNCHANGED <<legacy, pc, known, waves, wave, sent, lanes, made, attempts, answers>>
  BY <1>0 DEF calls
<1>2. /\ OpenNow /\ wave = LanesNow /\ done = OutcomesNow /\ waves = ClosedNow
      /\ wave \in Frozen /\ Members(DispatchedHere) \subseteq Members(wave) /\ Members(wave) \subseteq Pairs
      /\ done \in Seq(Outcome)
  BY <1>0, InFlightMeans
<1>3. PICK p \in Members(DispatchedHere) :
        /\ p \notin PairsOf(done)
        /\ journal' = Append(journal, PairSettled(waves, Recovered(p)))
        /\ done' = Append(done, Recovered(p))
  BY <1>0 DEF SealPair, Members
<1>4. PICK o \in Outcome : o = Recovered(p)
  <2>1. p \in Pairs
    BY <1>2
  <2> QED
    BY <2>1, AttemptsAssumption DEF Recovered, Outcome, Kinds
<1>5. o.pair = p /\ o.recovered /\ o.kind = "provenance_unknown" /\ Accounted(o)
  BY <1>4 DEF Recovered, Accounted
<1>6. /\ JournalReads' /\ OpenNow' /\ ClosedNow' = ClosedNow /\ LanesNow' = LanesNow
      /\ OutcomesNow' = Append(OutcomesNow, o) /\ PairsNow' = PairsNow
      /\ Settlements' = Settlements \cup {o} /\ o.pair \notin SettledPairs /\ o.pair \in PairsNow
      /\ journal' \in Seq(Records)
  <2>1. journal' = Append(journal, PairSettled(ClosedNow, o))
    BY <1>2, <1>3, <1>4
  <2>2. o.pair \in Members(DispatchedHere) /\ o.pair \notin PairsOf(OutcomesNow)
    BY <1>2, <1>3, <1>5
  <2> QED
    BY <1>0, <1>2, <1>5, <2>1, <2>2, SettlementReads
<1>7. done' = Append(done, o) /\ done' \in Seq(Outcome)
  BY <1>2, <1>3, <1>4
<1>8. DurableTyped'
  BY <1>0, <1>1, <1>6, <1>7 DEF DurableTyped
<1>9. MemoryMatches'
  BY <1>0, <1>1, <1>2, <1>6, <1>7 DEF MemoryMatches, Running
<1>10. CallsMatch'
  <2>1. SettledAsAnswered'
    BY <1>0, <1>1, <1>5, <1>6 DEF CallsMatch, SettledAsAnswered
  <2>2. lanes' = NoCalls /\ \A q \in Pairs : q \notin PairsNow' => attempts'[q] = 0
    BY <1>0, <1>1, <1>6 DEF CallsMatch
  <2> QED
    BY <1>0, <1>1, <2>1, <2>2, CallsRest
<1>11. LegacyMatches'
  BY <1>0, <1>1, <1>6, LegacyStays
<1> QED
  BY <1>4, <1>5, <1>6, <1>8, <1>9, <1>10, <1>11 DEF DurableInv

\* A sealed wave is closed.
LEMMA SealWaveKeeps ==
  ASSUME DurableInv, SealWave
  PROVE  DurableInv' /\ Settlements' = Settlements /\ PairsNow' = PairsNow
<1>0. /\ DurableTyped /\ JournalReads /\ MemoryMatches /\ CallsMatch /\ LegacyMatches
      /\ pc = "seal" /\ UNCHANGED <<legacy, known, sent, calls, crashes>>
      /\ pc \notin Running /\ pc \in Running \cup {"seal"} /\ pc \notin AtRest
      /\ pc' = "ready" /\ wave' = <<>> /\ done' = <<>> /\ waves' = waves + 1
      /\ Len(done) = Len(DispatchedHere)
      /\ journal' = Append(journal, WaveClosed(waves, Summary(wave, DispatchedHere, done)))
      /\ known = PairsNow
  BY DEF DurableInv, SealWave, Running, AtRest, MemoryMatches
<1>1. UNCHANGED <<legacy, known, sent, lanes, made, attempts, answers>>
  BY <1>0 DEF calls
<1>2. /\ OpenNow /\ wave = LanesNow /\ done = OutcomesNow /\ waves = ClosedNow
  BY <1>0, InFlightMeans
<1>3. /\ JournalReads' /\ ~OpenNow' /\ ClosedNow' = ClosedNow + 1 /\ PairsNow' = PairsNow
      /\ Settlements' = Settlements /\ journal' \in Seq(Records)
  BY <1>0, <1>2, ClosureReads
<1>4. pc' \notin Running /\ pc' \notin AtRest
  BY <1>0 DEF Running, AtRest
<1>5. DurableTyped'
  BY <1>0, <1>1, <1>3 DEF DurableTyped
<1>6. MemoryMatches'
  BY <1>0, <1>1, <1>2, <1>3, <1>4 DEF MemoryMatches, Running
<1>7. CallsMatch'
  <2>1. SettledAsAnswered'
    BY <1>0, <1>1, <1>3, AnswersStay
  <2>2. lanes' = NoCalls /\ \A q \in Pairs : q \notin PairsNow' => attempts'[q] = 0
    BY <1>0, <1>1, <1>3 DEF CallsMatch
  <2> QED
    BY <1>4, <2>1, <2>2, CallsRest
<1>8. LegacyMatches'
  BY <1>0, <1>1, <1>3, <1>4, LegacyStays
<1> QED
  BY <1>3, <1>5, <1>6, <1>7, <1>8 DEF DurableInv

\* A reserved wave holds fresh pairs, which nobody has called.
LEMMA ReserveWaveKeeps ==
  ASSUME DurableInv, ReserveWave
  PROVE  DurableInv' /\ Settlements' = Settlements /\ PairsNow' = PairsNow
<1>0. /\ DurableTyped /\ JournalReads /\ MemoryMatches /\ CallsMatch /\ LegacyMatches
      /\ pc = "ready" /\ UNCHANGED <<legacy, known, waves, attempts, answers, crashes>>
      /\ pc' = "reserved" /\ done' = <<>> /\ sent' = 0 /\ lanes' = NoCalls /\ made' = Zero
      /\ known = PairsNow /\ ~OpenNow /\ pc \notin Running /\ pc \notin AtRest
  BY DEF DurableInv, ReserveWave, Running, AtRest, MemoryMatches
<1>1. PICK w \in Frozen : /\ \A i \in DOMAIN w : w[i] \notin known
                          /\ journal' = Append(journal, WaveReserved(waves, w)) /\ wave' = w
  BY OfferedAssumption DEF ReserveWave, Fresh
<1>2. PairsNow \cap Members(w) = {} /\ waves = ClosedNow
  BY <1>0, <1>1 DEF Members, MemoryMatches
<1>3. /\ JournalReads' /\ OpenNow' /\ ClosedNow' = ClosedNow /\ LanesNow' = w /\ CountNow' = 0
      /\ OutcomesNow' = <<>> /\ PairsNow' = PairsNow /\ Settlements' = Settlements
      /\ DispatchedHere' = <<>> /\ journal' \in Seq(Records)
  BY <1>0, <1>1, <1>2, ReservationReads
<1>4. pc' \in Running /\ pc' \notin AtRest /\ Len(w) \in Nat \ {0} /\ Members(w) \subseteq Pairs
  BY <1>0, FrozenMeans DEF Running, AtRest, Members
<1>5. DurableTyped'
  BY <1>0, <1>1, <1>3, <1>4 DEF DurableTyped, NoCalls, Zero
<1>6. MemoryMatches'
  <2>1. Members(DispatchedHere') = {}
    BY <1>3 DEF Members
  <2>2. Members(wave') \cap known' = {} /\ PairsNow' = known' \cup Members(DispatchedHere')
    BY <1>0, <1>1, <1>2, <1>3, <2>1
  <2>3. Members(wave)' = Members(wave') /\ Members(DispatchedHere)' = Members(DispatchedHere')
    BY DEF Members
  <2> QED
    BY <1>0, <1>1, <1>2, <1>3, <1>4, <2>2, <2>3 DEF MemoryMatches
<1>7. CallsMatch'
  <2>1. SettledAsAnswered'
    BY <1>0, <1>3, AnswersStay
  <2>2. \A q \in Pairs : q \notin PairsNow' => attempts'[q] = 0
    BY <1>0, <1>3 DEF CallsMatch
  <2>3. \A q \in Members(wave') : made'[q] = attempts'[q]
    BY <1>0, <1>1, <1>2, <1>3, <1>4, <2>2 DEF Zero
  <2> QED
    BY <1>0, <2>1, <2>2, <2>3, CallsRest
<1>8. LegacyMatches'
  <2>1. ASSUME NEW i \in DOMAIN legacy, legacy[i].type = "pair_terminal"
        PROVE  legacy[i].pair \in known'
    <3>1. \E o \in Settlements : o.pair = legacy[i].pair
      BY <1>0, <2>1 DEF LegacyMatches
    <3>2. legacy[i].pair \in SettledPairs
      BY <3>1 DEF SettledPairs
    <3> QED
      BY <1>0, <3>2 DEF JournalReads
  <2>2. legacy' = legacy
    BY <1>0
  <2> QED
    BY <1>0, <1>3, <2>1, <2>2 DEF LegacyMatches
<1> QED
  BY <1>3, <1>5, <1>6, <1>7, <1>8 DEF DurableInv

\* The legacy ledger is told of the wave.
LEMMA AnnounceWaveKeeps ==
  ASSUME DurableInv, AnnounceWave
  PROVE  DurableInv' /\ Settlements' = Settlements /\ PairsNow' = PairsNow
<1>0. /\ DurableTyped /\ JournalReads /\ MemoryMatches /\ CallsMatch /\ LegacyMatches
      /\ pc = "reserved" /\ pc' = "dispatch" /\ UNCHANGED <<journal, memory, calls, crashes>>
      /\ pc \in Running /\ pc' \in Running /\ pc \in Running \cup {"seal"} /\ pc' \notin AtRest /\ pc \notin AtRest
      /\ legacy' = Append(legacy, [type |-> "suffix_wave_reserved", pairs |-> wave])
  BY DEF DurableInv, AnnounceWave, Running, AtRest
<1>1. UNCHANGED <<journal, known, waves, wave, done, sent, lanes, made, attempts, answers>>
  BY <1>0 DEF calls, memory
<1>2. /\ OpenNow' = OpenNow /\ ClosedNow' = ClosedNow /\ LanesNow' = LanesNow /\ CountNow' = CountNow
      /\ OutcomesNow' = OutcomesNow /\ PairsNow' = PairsNow /\ Settlements' = Settlements
      /\ SettledPairs' = SettledPairs /\ DispatchedHere' = DispatchedHere /\ JournalReads'
  BY <1>0, <1>1, JournalSame
<1>3. wave \in Frozen /\ DOMAIN DispatchedHere = 1 .. CountNow
  BY <1>0, InFlightMeans
<1>4. PICK rec \in LegacyRecords : rec = [type |-> "suffix_wave_reserved", pairs |-> wave]
  BY <1>3, LegacyWaveRecord
<1>5. LegacyMatches' /\ legacy' \in Seq(LegacyRecords)
  <2>1. rec.type = "suffix_wave_reserved" /\ legacy' = Append(legacy, rec)
    BY <1>0, <1>4
  <2>2. sent' \in Nat /\ sent <= sent'
    BY <1>0, <1>1 DEF DurableTyped
  <2> QED
    BY <1>0, <1>1, <1>2, <2>1, <2>2, LegacyGrows
<1>6. DurableTyped'
  BY <1>0, <1>1, <1>5 DEF DurableTyped
<1>7. MemoryMatches'
  <2>1. Members(DispatchedHere)' = Members(DispatchedHere) /\ Members(wave)' = Members(wave)
    BY <1>1, <1>2, Zenon DEF Members
  <2> QED
    BY <1>0, <1>1, <1>2, <2>1 DEF MemoryMatches
<1>8. CallsMatch'
  <2>1. SettledAsAnswered'
    BY <1>0, <1>1, <1>2, AnswersStay
  <2>2. Members(wave)' = Members(wave)
    BY <1>1, Zenon DEF Members
  <2> QED
    BY <1>0, <1>1, <1>2, <2>1, <2>2 DEF CallsMatch
<1> QED
  BY <1>2, <1>5, <1>6, <1>7, <1>8 DEF DurableInv

\* The next lane is dispatched: a pair that was never dispatched before.
LEMMA DispatchPairKeeps ==
  ASSUME DurableInv, DispatchPair
  PROVE  DurableInv' /\ \E p \in Pairs \ PairsNow : PairsNow' = PairsNow \cup {p} /\ Settlements' = Settlements
<1>0. /\ DurableTyped /\ JournalReads /\ MemoryMatches /\ CallsMatch /\ LegacyMatches
      /\ pc = "dispatch" /\ pc' = "submit" /\ UNCHANGED <<legacy, memory, calls, crashes>>
      /\ pc \in Running /\ pc' \in Running /\ pc \in Running \cup {"seal"} /\ pc' \notin AtRest /\ pc \notin AtRest
      /\ Len(DispatchedHere) < Len(wave)
      /\ journal' = Append(journal, PairDispatched(waves, Lane))
  BY DEF DurableInv, DispatchPair, Running, AtRest
<1>1. UNCHANGED <<legacy, known, waves, wave, done, sent, lanes, made, attempts, answers>>
  BY <1>0 DEF calls, memory
<1>2. /\ OpenNow /\ wave = LanesNow /\ done = OutcomesNow /\ waves = ClosedNow
      /\ wave \in Frozen /\ DOMAIN wave = 1 .. Len(wave) /\ Len(wave) \in Nat /\ CountNow \in Nat
      /\ CountNow <= Len(wave) /\ Len(DispatchedHere) = CountNow /\ DOMAIN DispatchedHere = 1 .. CountNow
      /\ \A i \in 1 .. CountNow : DispatchedHere[i] = wave[i] /\ i \in DOMAIN wave
      /\ Members(DispatchedHere) \subseteq Members(wave) /\ Members(wave) \subseteq Pairs
      /\ Members(DispatchedHere) = {wave[i] : i \in 1 .. CountNow}
      /\ \A i, j \in 1 .. Len(wave) : wave[i] = wave[j] => i = j
  BY <1>0, InFlightMeans
<1>3. PICK p : p = LanesNow[CountNow + 1]
  OBVIOUS
<1>4. CountNow < Len(wave) /\ CountNow + 1 \in 1 .. Len(wave) /\ p = wave[CountNow + 1]
  BY <1>0, <1>2, <1>3
<1>5. journal' = Append(journal, PairDispatched(ClosedNow, p))
  BY <1>0, <1>2, <1>3 DEF Lane
<1>6. p \in Members(wave) /\ p \notin Members(DispatchedHere)
  <2>1. p \in Members(wave)
    BY <1>2, <1>4 DEF Members
  <2>2. \A i \in 1 .. CountNow : i \in 1 .. Len(wave) /\ i # CountNow + 1
    BY <1>2
  <2> QED
    BY <1>2, <1>4, <2>1, <2>2
<1>7. p \notin PairsNow
  BY <1>0, <1>6 DEF MemoryMatches
<1>8. /\ JournalReads' /\ OpenNow' /\ ClosedNow' = ClosedNow /\ LanesNow' = LanesNow
      /\ CountNow' = CountNow + 1 /\ p \in Pairs
      /\ OutcomesNow' = OutcomesNow /\ PairsNow' = PairsNow \cup {p} /\ Settlements' = Settlements
      /\ Members(DispatchedHere') = Members(DispatchedHere) \cup {p}
      /\ DispatchedHere' = SubSeq(LanesNow, 1, CountNow + 1) /\ journal' \in Seq(Records)
  <2>1. CountNow < Len(LanesNow)
    BY <1>2, <1>4
  <2> QED
    BY <1>0, <1>2, <1>3, <1>5, <1>7, <2>1, DispatchReads
<1>9. DurableTyped'
  BY <1>0, <1>1, <1>8 DEF DurableTyped
<1>10. MemoryMatches'
  <2>1. Members(DispatchedHere)' = Members(DispatchedHere') /\ Members(wave)' = Members(wave)
    BY <1>1, Zenon DEF Members
  <2>2. PairsNow' = known' \cup Members(DispatchedHere')
    BY <1>0, <1>1, <1>8 DEF MemoryMatches
  <2>3. Members(wave) \cap known = {} /\ done = <<>>
    BY <1>0 DEF MemoryMatches
  <2>4. CountNow' > 0
    BY <1>2, <1>8
  <2> QED
    BY <1>0, <1>1, <1>2, <1>8, <2>1, <2>2, <2>3, <2>4 DEF MemoryMatches
<1>11. CallsMatch'
  <2>1. SettledAsAnswered'
    BY <1>0, <1>1, <1>8, AnswersStay
  <2>2. Members(wave)' = Members(wave)
    BY <1>1, Zenon DEF Members
  <2>3. /\ Len(DispatchedHere') = CountNow + 1 /\ DOMAIN DispatchedHere' = 1 .. (CountNow + 1)
        /\ \A i \in 1 .. CountNow : (DispatchedHere')[i] = DispatchedHere[i]
    <3>1. CountNow + 1 \in Nat /\ CountNow + 1 <= Len(LanesNow) /\ LanesNow \in Frozen
      BY <1>2, <1>4
    <3>2. /\ Len(SubSeq(LanesNow, 1, CountNow + 1)) = CountNow + 1
          /\ DOMAIN SubSeq(LanesNow, 1, CountNow + 1) = 1 .. (CountNow + 1)
          /\ \A i \in 1 .. (CountNow + 1) : SubSeq(LanesNow, 1, CountNow + 1)[i] = LanesNow[i]
      BY <3>1, FirstLanes
    <3>3. \A i \in 1 .. CountNow : i \in 1 .. (CountNow + 1)
      BY <1>2
    <3> QED
      BY <1>2, <1>8, <3>2, <3>3
  <2>4. ASSUME NEW q \in Pairs, lanes[q] # "idle"
        PROVE  \E i \in DOMAIN DispatchedHere' : (DispatchedHere')[i] = q /\ i # Len(DispatchedHere')
    <3>1. PICK i \in DOMAIN DispatchedHere : DispatchedHere[i] = q
      BY <1>0, <2>4 DEF CallsMatch
    <3>2. i \in 1 .. CountNow /\ i \in 1 .. (CountNow + 1) /\ i # CountNow + 1
      BY <1>2, <3>1
    <3> QED
      BY <2>3, <3>1, <3>2
  <2>5. SettledPairs' = SettledPairs
    BY <1>8, Zenon DEF SettledPairs
  <2>6. pc' \in Running /\ UNCHANGED <<lanes, made, answers, attempts>>
    BY <1>0, <1>1
  <2>7. \A q \in Pairs :
          /\ lanes'[q] # "idle" =>
               \E i \in DOMAIN DispatchedHere' :
                 (DispatchedHere')[i] = q /\ (pc' = "submit" => i # Len(DispatchedHere'))
          /\ lanes'[q] \in Kinds => answers'[q] = lanes'[q]
          /\ lanes'[q] = "calling" => q \notin SettledPairs'
    BY <1>0, <2>4, <2>5, <2>6 DEF CallsMatch
  <2>8. \A q \in Pairs :
          /\ q \notin PairsNow' => attempts'[q] = 0
          /\ q \in Members(wave') => made'[q] = attempts'[q]
    BY <1>0, <1>8, <2>2, <2>6 DEF CallsMatch
  <2> QED
    BY <2>1, <2>6, <2>7, <2>8 DEF CallsMatch
<1>12. LegacyMatches'
  BY <1>0, <1>1, <1>8, LegacyStays
<1> QED
  BY <1>7, <1>8, <1>9, <1>10, <1>11, <1>12 DEF DurableInv

\* The pair that was dispatched last is called, and no other one.
LEMMA SubmitPairKeeps ==
  ASSUME DurableInv, SubmitPair
  PROVE  DurableInv' /\ Settlements' = Settlements /\ PairsNow' = PairsNow
<1> DEFINE p == DispatchedHere[Len(DispatchedHere)]
<1>0. /\ DurableTyped /\ JournalReads /\ MemoryMatches /\ CallsMatch /\ LegacyMatches
      /\ pc = "submit" /\ UNCHANGED <<journal, memory, made, attempts, answers, crashes>>
      /\ pc \in Running /\ pc \in Running \cup {"seal"} /\ pc \notin AtRest
      /\ legacy' = Append(legacy, [type |-> "pair_dispatched", pair |-> p])
      /\ lanes' = [lanes EXCEPT ![p] = "calling"]
      /\ pc' = IF Len(DispatchedHere) = Len(wave) THEN "settle" ELSE "dispatch"
      /\ pc' \in Running /\ pc' \notin AtRest /\ pc' \in {"settle", "dispatch"}
  BY DEF DurableInv, SubmitPair, Running, AtRest
<1>1. UNCHANGED <<journal, known, waves, wave, done, sent, made, attempts, answers>>
  BY <1>0 DEF memory
<1>2. /\ wave \in Frozen /\ CountNow \in Nat /\ Len(wave) \in Nat
      /\ CountNow <= Len(wave) /\ Len(DispatchedHere) = CountNow /\ DOMAIN DispatchedHere = 1 .. CountNow
      /\ Members(DispatchedHere) \subseteq Members(wave) /\ Members(wave) \subseteq Pairs
      /\ Members(DispatchedHere) = PairsNow \cap Members(wave)
      /\ PairsOf(done) = SettledPairs \cap Members(wave)
  BY <1>0, InFlightMeans
<1>3. /\ OpenNow' = OpenNow /\ ClosedNow' = ClosedNow /\ LanesNow' = LanesNow /\ CountNow' = CountNow
      /\ OutcomesNow' = OutcomesNow /\ PairsNow' = PairsNow /\ Settlements' = Settlements
      /\ SettledPairs' = SettledPairs /\ DispatchedHere' = DispatchedHere /\ JournalReads'
  BY <1>0, <1>1, JournalSame
<1>4. CountNow > 0 /\ done = <<>>
  BY <1>0 DEF MemoryMatches
<1>5. p \in Members(DispatchedHere) /\ p \in Pairs /\ p \in PairsNow /\ CountNow \in DOMAIN DispatchedHere
  <2>1. CountNow \in DOMAIN DispatchedHere /\ p = DispatchedHere[CountNow]
    BY <1>2, <1>4
  <2>2. p \in Members(DispatchedHere)
    BY <2>1 DEF Members
  <2> QED
    BY <1>2, <2>1, <2>2, Zenon
<1>6. p \notin SettledPairs
  BY <1>2, <1>4, <1>5 DEF PairsOf
<1> HIDE DEF p
<1>7. PICK rec \in LegacyRecords : rec = [type |-> "pair_dispatched", pair |-> p]
  BY <1>5, LegacyPairRecord
<1>8. LegacyMatches' /\ legacy' \in Seq(LegacyRecords)
  <2>1. rec.type = "pair_dispatched" /\ rec.pair = p /\ legacy' = Append(legacy, rec)
    BY <1>0, <1>7
  <2>2. sent' \in Nat /\ sent <= sent'
    BY <1>0, <1>1 DEF DurableTyped
  <2> QED
    BY <1>0, <1>1, <1>3, <1>5, <2>1, <2>2, LegacyGrows
<1>9. DurableTyped'
  <2>1. lanes' \in [Pairs -> {"idle", "calling"} \cup Kinds]
    BY <1>0, <1>5 DEF DurableTyped
  <2> QED
    BY <1>0, <1>1, <1>8, <2>1 DEF DurableTyped
<1>10. MemoryMatches'
  <2>1. Members(DispatchedHere)' = Members(DispatchedHere) /\ Members(wave)' = Members(wave)
    BY <1>1, <1>3, Zenon DEF Members
  <2>2. /\ pc' = "dispatch" => CountNow < Len(wave)
        /\ pc' = "settle" => CountNow = Len(wave)
    BY <1>0, <1>2
  <2> QED
    BY <1>0, <1>1, <1>3, <1>4, <2>1, <2>2 DEF MemoryMatches
<1>11. CallsMatch'
  <2>1. SettledAsAnswered'
    BY <1>0, <1>1, <1>3, AnswersStay
  <2>2. Members(wave)' = Members(wave)
    BY <1>1, Zenon DEF Members
  <2>3. "calling" \notin Kinds /\ "calling" # "idle"
    BY DEF Kinds
  <2>4. \A q \in Pairs : q # p => lanes'[q] = lanes[q]
    BY <1>0 DEF DurableTyped
  <2>5. lanes'[p] = "calling"
    BY <1>0, <1>5 DEF DurableTyped
  <2>6. \E i \in DOMAIN DispatchedHere : DispatchedHere[i] = p
    BY <1>5 DEF Members
  <2>7. ASSUME NEW q \in Pairs, lanes'[q] # "idle" PROVE \E i \in DOMAIN DispatchedHere : DispatchedHere[i] = q
    BY <1>0, <2>4, <2>6, <2>7 DEF CallsMatch
  <2>8. pc' # "submit"
    BY <1>0
  <2>9. ASSUME NEW q \in Pairs
        PROVE  /\ lanes'[q] \in Kinds => answers'[q] = lanes'[q]
               /\ lanes'[q] = "calling" => q \notin SettledPairs'
    BY <1>0, <1>1, <1>3, <1>6, <2>3, <2>4, <2>5 DEF CallsMatch
  <2>10. \A q \in Pairs : /\ q \notin PairsNow' => attempts'[q] = 0
                          /\ q \in Members(wave) => made'[q] = attempts'[q]
    BY <1>0, <1>1, <1>3 DEF CallsMatch
  <2> QED
    BY <1>0, <1>3, <2>1, <2>2, <2>7, <2>8, <2>9, <2>10 DEF CallsMatch
<1> QED
  BY <1>3, <1>8, <1>9, <1>10, <1>11 DEF DurableInv

\* What the threads do leaves the journal, the ledger and the memory as they are.
LEMMA ThreadsLeave ==
  ASSUME DurableInv, UNCHANGED <<journal, legacy, memory>>, pc \in Running,
         pc' = pc \/ (pc = "settle" /\ pc' = "failing"),
         lanes' \in [Pairs -> {"idle", "calling"} \cup Kinds], answers' \in [Pairs -> {"idle"} \cup Kinds],
         made' \in [Pairs -> Nat], attempts' \in [Pairs -> Nat]
  PROVE  /\ DurableTyped' /\ JournalReads' /\ MemoryMatches' /\ LegacyMatches'
         /\ PairsNow' = PairsNow /\ Settlements' = Settlements /\ SettledPairs' = SettledPairs
         /\ DispatchedHere' = DispatchedHere /\ pc' \in Running /\ Members(wave)' = Members(wave)
<1>0. DurableTyped /\ JournalReads /\ MemoryMatches /\ CallsMatch /\ LegacyMatches
  BY DEF DurableInv
<1>1. UNCHANGED <<journal, legacy, known, waves, wave, done, sent>>
  BY DEF memory
<1>2. /\ OpenNow' = OpenNow /\ ClosedNow' = ClosedNow /\ LanesNow' = LanesNow /\ CountNow' = CountNow
      /\ OutcomesNow' = OutcomesNow /\ PairsNow' = PairsNow /\ Settlements' = Settlements
      /\ SettledPairs' = SettledPairs /\ DispatchedHere' = DispatchedHere /\ JournalReads'
  BY <1>0, <1>1, JournalSame
<1>3. pc' \in Running /\ pc' \notin AtRest
  BY DEF Running, AtRest
<1>4. DurableTyped'
  BY <1>0, <1>1, <1>3 DEF DurableTyped
<1>5. Members(DispatchedHere)' = Members(DispatchedHere) /\ Members(wave)' = Members(wave)
  BY <1>1, <1>2, Zenon DEF Members
<1>6. MemoryMatches'
  BY <1>0, <1>1, <1>2, <1>3, <1>5 DEF MemoryMatches, Running, AtRest
<1>7. LegacyMatches'
  BY <1>0, <1>1, <1>2, LegacyStays
<1> QED
  BY <1>2, <1>3, <1>4, <1>5, <1>6, <1>7

\* A call runs only for a dispatched pair of the wave in flight, not settled yet.
LEMMA CallingMeans ==
  ASSUME DurableInv, NEW p \in Pairs, lanes[p] # "idle"
  PROVE  pc \in Running /\ p \in Members(DispatchedHere) /\ p \in Members(wave) /\ p \in PairsNow
<1>0. DurableTyped /\ JournalReads /\ MemoryMatches /\ CallsMatch
  BY DEF DurableInv
<1>1. pc \in Running
  BY <1>0 DEF CallsMatch, NoCalls
<1>2. \E i \in DOMAIN DispatchedHere : DispatchedHere[i] = p
  BY <1>0 DEF CallsMatch
<1>3. p \in Members(DispatchedHere)
  BY <1>2 DEF Members
<1>4. Members(DispatchedHere) \subseteq Members(wave) /\ Members(DispatchedHere) = PairsNow \cap Members(wave)
  BY <1>1, InFlightMeans
<1> QED
  BY <1>1, <1>3, <1>4

\* A physical call is counted for a dispatched pair.
LEMMA CallKeeps ==
  ASSUME DurableInv, NEW p \in Pairs, Call(p)
  PROVE  DurableInv' /\ Settlements' = Settlements /\ PairsNow' = PairsNow /\ p \in PairsNow \ SettledPairs
<1>0. /\ lanes[p] = "calling" /\ UNCHANGED <<journal, legacy, pc, memory, lanes, answers, crashes>>
      /\ made' = [made EXCEPT ![p] = @ + 1] /\ attempts' = [attempts EXCEPT ![p] = @ + 1]
      /\ DurableTyped /\ CallsMatch
  BY DEF Call, DurableInv
<1>1. pc \in Running /\ p \in PairsNow
  BY <1>0, CallingMeans
<1>2. /\ made' \in [Pairs -> Nat] /\ attempts' \in [Pairs -> Nat]
      /\ lanes' \in [Pairs -> {"idle", "calling"} \cup Kinds] /\ answers' \in [Pairs -> {"idle"} \cup Kinds]
      /\ made'[p] = made[p] + 1 /\ attempts'[p] = attempts[p] + 1
      /\ \A q \in Pairs : q # p => made'[q] = made[q] /\ attempts'[q] = attempts[q]
  BY <1>0 DEF DurableTyped
<1>3. /\ DurableTyped' /\ JournalReads' /\ MemoryMatches' /\ LegacyMatches'
      /\ PairsNow' = PairsNow /\ Settlements' = Settlements /\ SettledPairs' = SettledPairs
      /\ DispatchedHere' = DispatchedHere /\ pc' \in Running /\ Members(wave)' = Members(wave)
  BY <1>0, <1>1, <1>2, ThreadsLeave
<1>4. CallsMatch'
  <2>1. SettledAsAnswered'
    BY <1>0, <1>3, AnswersStay
  <2>2. ASSUME NEW q \in Pairs
        PROVE  /\ q \notin PairsNow' => attempts'[q] = 0
               /\ pc' \in Running /\ q \in Members(wave)' => made'[q] = attempts'[q]
    <3>1. CASE q = p
      BY <1>0, <1>1, <1>2, <1>3, <3>1 DEF CallsMatch
    <3>2. CASE q # p
      BY <1>0, <1>1, <1>2, <1>3, <3>2 DEF CallsMatch
    <3> QED
      BY <3>1, <3>2
  <2> QED
    BY <1>0, <1>3, <2>1, <2>2 DEF CallsMatch
<1>5. p \notin SettledPairs
  BY <1>0 DEF CallsMatch
<1> QED
  BY <1>1, <1>3, <1>4, <1>5 DEF DurableInv

\* A call ends in an answer of its own.
LEMMA AnswerKeeps ==
  ASSUME DurableInv, NEW p \in Pairs, Answer(p)
  PROVE  DurableInv' /\ Settlements' = Settlements /\ PairsNow' = PairsNow
<1>0. /\ lanes[p] = "calling" /\ UNCHANGED <<journal, legacy, pc, memory, made, attempts, crashes>>
      /\ DurableTyped /\ JournalReads /\ CallsMatch
  BY DEF Answer, DurableInv
<1>a. PICK kind \in Kinds : lanes' = [lanes EXCEPT ![p] = kind] /\ answers' = [answers EXCEPT ![p] = kind]
  BY DEF Answer
<1>1. pc \in Running /\ p \in PairsNow
  BY <1>0, CallingMeans
<1>2. /\ made' \in [Pairs -> Nat] /\ attempts' \in [Pairs -> Nat]
      /\ lanes' \in [Pairs -> {"idle", "calling"} \cup Kinds] /\ answers' \in [Pairs -> {"idle"} \cup Kinds]
      /\ lanes'[p] = kind /\ answers'[p] = kind
      /\ \A q : q # p /\ q \in Pairs => lanes'[q] = lanes[q] /\ answers'[q] = answers[q]
  BY <1>0, <1>a DEF DurableTyped
<1>3. /\ DurableTyped' /\ JournalReads' /\ MemoryMatches' /\ LegacyMatches'
      /\ PairsNow' = PairsNow /\ Settlements' = Settlements /\ SettledPairs' = SettledPairs
      /\ DispatchedHere' = DispatchedHere /\ pc' \in Running /\ Members(wave)' = Members(wave)
  BY <1>0, <1>1, <1>2, ThreadsLeave
<1>4. CallsMatch'
  <2>0. kind # "calling" /\ kind # "idle"
    BY DEF Kinds
  <2>1. SettledAsAnswered'
    <3>1. \A o \in Settlements : o.pair # p /\ o.pair \in Pairs
      BY <1>0 DEF CallsMatch, SettledPairs, JournalReads
    <3> QED
      BY <1>0, <1>2, <1>3, <3>1 DEF CallsMatch, SettledAsAnswered
  <2>2. ASSUME NEW q \in Pairs
        PROVE  /\ lanes'[q] # "idle" =>
                    \E i \in DOMAIN DispatchedHere :
                      DispatchedHere[i] = q /\ (pc = "submit" => i # Len(DispatchedHere))
               /\ lanes'[q] \in Kinds => answers'[q] = lanes'[q]
               /\ lanes'[q] = "calling" => q \notin SettledPairs
    <3>1. CASE q = p
      BY <1>0, <1>2, <2>0, <3>1 DEF CallsMatch
    <3>2. CASE q # p
      BY <1>0, <1>2, <3>2 DEF CallsMatch
    <3> QED
      BY <3>1, <3>2
  <2>3. ASSUME NEW q \in Pairs
        PROVE  /\ q \notin PairsNow' => attempts'[q] = 0
               /\ pc' \in Running /\ q \in Members(wave)' => made'[q] = attempts'[q]
    BY <1>0, <1>1, <1>3 DEF CallsMatch
  <2> QED
    BY <1>0, <1>3, <2>1, <2>2, <2>3 DEF CallsMatch
<1> QED
  BY <1>3, <1>4 DEF DurableInv

\* A window that was overrun leaves everything as it is.
LEMMA OverrunWindowKeeps ==
  ASSUME DurableInv, NEW p \in Pairs, OverrunWindow(p)
  PROVE  DurableInv' /\ Settlements' = Settlements /\ PairsNow' = PairsNow
<1>0. /\ pc = "settle" /\ pc' = "failing" /\ UNCHANGED <<journal, legacy, memory, calls, crashes>>
      /\ DurableTyped /\ CallsMatch /\ pc \in Running
  BY DEF OverrunWindow, DurableInv, Running
<1>1. UNCHANGED <<lanes, made, attempts, answers>>
  BY <1>0 DEF calls
<1>2. /\ DurableTyped' /\ JournalReads' /\ MemoryMatches' /\ LegacyMatches'
      /\ PairsNow' = PairsNow /\ Settlements' = Settlements /\ SettledPairs' = SettledPairs
      /\ DispatchedHere' = DispatchedHere /\ pc' \in Running /\ Members(wave)' = Members(wave)
  BY <1>0, <1>1, ThreadsLeave DEF DurableTyped
<1>3. SettledAsAnswered'
  BY <1>0, <1>1, <1>2, AnswersStay
<1>4. CallsMatch'
  BY <1>0, <1>1, <1>2, <1>3 DEF CallsMatch
<1> QED
  BY <1>2, <1>4 DEF DurableInv

\* A call that ended in its window is settled as it ended, whichever ends first.
LEMMA SettlePairKeeps ==
  ASSUME DurableInv, NEW p \in Pairs, SettlePair(p)
  PROVE  /\ DurableInv' /\ p \in PairsNow \ SettledPairs /\ PairsNow' = PairsNow
         /\ Settlements' = Settlements \cup {Settled(p, lanes[p], made[p])}
         /\ lanes[p] \in Kinds /\ made[p] = attempts[p] /\ made[p] <= MaxAttempts
<1>0. /\ pc = "settle" /\ lanes[p] \in Kinds /\ p \notin PairsOf(done) /\ made[p] <= MaxAttempts
      /\ journal' = Append(journal, PairSettled(waves, Settled(p, lanes[p], made[p])))
      /\ done' = Append(done, Settled(p, lanes[p], made[p]))
      /\ UNCHANGED <<legacy, pc, known, waves, wave, sent, calls, crashes>>
      /\ DurableTyped /\ JournalReads /\ MemoryMatches /\ CallsMatch /\ LegacyMatches
      /\ pc \in Running /\ pc \in Running \cup {"seal"} /\ pc \notin AtRest
  BY DEF SettlePair, PairOf, HasOutcome, DurableInv, Running, AtRest
<1>1. UNCHANGED <<legacy, pc, known, waves, wave, sent, lanes, made, attempts, answers>>
  BY <1>0 DEF calls
<1>2. lanes[p] # "idle" /\ lanes[p] # "calling"
  BY <1>0 DEF Kinds
<1>3. p \in Members(DispatchedHere) /\ p \in Members(wave) /\ p \in PairsNow
  BY <1>2, CallingMeans
<1>4. /\ OpenNow /\ wave = LanesNow /\ done = OutcomesNow /\ waves = ClosedNow /\ done \in Seq(Outcome)
  BY <1>0, InFlightMeans
<1>5. PICK o \in Outcome : o = Settled(p, lanes[p], made[p])
  <2>1. made[p] \in Nat
    BY <1>0 DEF DurableTyped
  <2> QED
    BY <1>0, <2>1 DEF Settled, Outcome
<1>6. o.pair = p /\ ~o.recovered /\ o.kind = lanes[p] /\ Accounted(o)
  BY <1>0, <1>5 DEF Settled, Accounted
<1>7. /\ JournalReads' /\ OpenNow' /\ ClosedNow' = ClosedNow /\ LanesNow' = LanesNow
      /\ CountNow' = CountNow /\ DispatchedHere' = DispatchedHere
      /\ OutcomesNow' = Append(OutcomesNow, o) /\ PairsNow' = PairsNow
      /\ Settlements' = Settlements \cup {o} /\ o.pair \notin SettledPairs
      /\ SettledPairs' = SettledPairs \cup {o.pair} /\ journal' \in Seq(Records)
  <2>1. journal' = Append(journal, PairSettled(ClosedNow, o))
    BY <1>0, <1>4, <1>5
  <2>2. o.pair \in Members(DispatchedHere) /\ o.pair \notin PairsOf(OutcomesNow)
    BY <1>0, <1>3, <1>4, <1>6
  <2> QED
    BY <1>0, <1>4, <1>6, <2>1, <2>2, SettlementReads
<1>8. done' = Append(done, o) /\ done' \in Seq(Outcome)
  BY <1>0, <1>4, <1>5
<1>9. DurableTyped'
  BY <1>0, <1>1, <1>7, <1>8 DEF DurableTyped
<1>10. Members(DispatchedHere)' = Members(DispatchedHere) /\ Members(wave)' = Members(wave)
  BY <1>1, <1>7, Zenon DEF Members
<1>11. MemoryMatches'
  BY <1>0, <1>1, <1>4, <1>7, <1>8, <1>10 DEF MemoryMatches, AtRest, Running
<1>12. CallsMatch'
  <2>1. SettledAsAnswered'
    <3>1. answers[p] = lanes[p]
      BY <1>0 DEF CallsMatch
    <3> QED
      BY <1>0, <1>1, <1>6, <1>7, <3>1 DEF CallsMatch, SettledAsAnswered
  <2>2. ASSUME NEW q \in Pairs, lanes'[q] = "calling" PROVE q \notin SettledPairs'
    BY <1>0, <1>1, <1>2, <1>6, <1>7, <2>2 DEF CallsMatch
  <2> QED
    BY <1>0, <1>1, <1>7, <1>10, <2>1, <2>2 DEF CallsMatch
<1>13. LegacyMatches'
  BY <1>0, <1>1, <1>7, LegacyStays
<1>14. made[p] = attempts[p]
  BY <1>0, <1>3 DEF CallsMatch
<1> QED
  BY <1>0, <1>3, <1>5, <1>6, <1>7, <1>9, <1>11, <1>12, <1>13, <1>14 DEF DurableInv

\* As many first lanes as the frontier has pairs are terminal.
LEMMA FrontierIsPrefix ==
  ASSUME NEW w \in Frozen, NEW os
  PROVE  /\ Cardinality(Frontier(w, os)) \in Nat
         /\ \A k \in 1 .. Cardinality(Frontier(w, os)) : k \in DOMAIN w /\ w[k] \in Pairs /\ IsTerminal(os, w[k])
<1> DEFINE S == {j \in DOMAIN w : \A h \in 1 .. j : IsTerminal(os, w[h])}
<1>1. /\ DOMAIN w = 1 .. Len(w) /\ Len(w) \in Nat /\ \A i \in 1 .. Len(w) : w[i] \in Pairs
  BY FrozenMeans
<1>2. S \subseteq 1 .. Len(w) /\ Frontier(w, os) = {w[i] : i \in S}
  BY <1>1 DEF Frontier
<1>3. \A j \in S : \A h \in 1 .. j : h \in S
  <2> SUFFICES ASSUME NEW j \in S, NEW h \in 1 .. j PROVE h \in S
    OBVIOUS
  <2>1. j \in 1 .. Len(w) /\ \A g \in 1 .. j : IsTerminal(os, w[g])
    BY <1>2
  <2>2. h \in DOMAIN w /\ \A g \in 1 .. h : g \in 1 .. j
    BY <1>1, <2>1
  <2> QED
    BY <2>1, <2>2
<1>4. \A k \in S : k \in DOMAIN w /\ IsTerminal(os, w[k])
  <2> SUFFICES ASSUME NEW k \in S PROVE k \in DOMAIN w /\ IsTerminal(os, w[k])
    OBVIOUS
  <2>1. k \in 1 .. k
    BY <1>1, <1>2
  <2> QED
    BY <2>1
<1> HIDE DEF S
<1>5. IsFiniteSet(S) /\ Cardinality(S) \in Nat
  <2>1. IsFiniteSet(1 .. Len(w))
    BY <1>1, FS_Interval
  <2> QED
    BY <1>2, <2>1, FS_Subset, FS_CardinalityType
<1>6. IsFiniteSet({w[i] : i \in S}) /\ Cardinality({w[i] : i \in S}) <= Cardinality(S)
  BY <1>5, ImageFinite
<1>7. Cardinality({w[i] : i \in S}) \in Nat
  BY <1>6, FS_CardinalityType
<1> DEFINE c == Cardinality({w[i] : i \in S})
<1>8. Cardinality(Frontier(w, os)) = c
  BY <1>2, Zenon
<1>9. c \in Nat /\ c <= Cardinality(S)
  BY <1>6, <1>7
<1> HIDE DEF c
<1>10. ASSUME NEW k \in 1 .. c PROVE k \in S
  <2> SUFFICES ASSUME k \notin S PROVE FALSE
    OBVIOUS
  <2>1. k \in Nat /\ k - 1 \in Nat /\ 1 <= k
    BY <1>9
  <2>2. S \subseteq 1 .. (k - 1)
    <3> SUFFICES ASSUME NEW j \in S PROVE j \in 1 .. (k - 1)
      OBVIOUS
    <3>1. j \in Nat /\ 1 <= j
      BY <1>1, <1>2
    <3>2. ~(k <= j)
      <4> SUFFICES ASSUME k <= j PROVE FALSE
        OBVIOUS
      <4>1. k \in 1 .. j
        BY <2>1, <3>1
      <4> QED
        BY <1>3, <4>1
    <3> QED
      BY <2>1, <3>1, <3>2
  <2>3. IsFiniteSet(1 .. (k - 1)) /\ Cardinality(1 .. (k - 1)) = k - 1
    BY <2>1, FS_Interval
  <2>4. Cardinality(S) <= k - 1
    BY <2>2, <2>3, FS_Subset
  <2> QED
    BY <1>5, <1>9, <2>1, <2>4
<1> QED
  BY <1>1, <1>4, <1>8, <1>9, <1>10

\* The legacy closure: the wave's accounting, then terminals of its first lanes.
LEMMA LegacyClosureMeans ==
  ASSUME wave \in Frozen, done \in Seq(Outcome), sent \in Nat, sent < Len(LegacyClosure)
  PROVE  /\ LegacyClosure[sent + 1] \in LegacyRecords
         /\ sent = 0 => LegacyClosure[sent + 1].type = "wave_accounting"
         /\ sent # 0 => /\ sent \in DOMAIN wave /\ IsTerminal(done, wave[sent])
                        /\ LegacyClosure[sent + 1] = [type |-> "pair_terminal", pair |-> wave[sent]]
<1> DEFINE c == Cardinality(Frontier(wave, done))
           acc == [type |-> "wave_accounting", pairs |-> wave, charge |-> Charge(done)]
           ends == [i \in 1 .. c |-> [type |-> "pair_terminal", pair |-> wave[i]]]
<1>1. c \in Nat /\ \A k \in 1 .. c : k \in DOMAIN wave /\ wave[k] \in Pairs /\ IsTerminal(done, wave[k])
  BY FrontierIsPrefix
<1>2. acc \in LegacyRecords
  BY LegacyWaveRecord
<1>3. \A k \in 1 .. c : [type |-> "pair_terminal", pair |-> wave[k]] \in LegacyRecords
  <2> SUFFICES ASSUME NEW k \in 1 .. c PROVE [type |-> "pair_terminal", pair |-> wave[k]] \in LegacyRecords
    OBVIOUS
  <2>1. wave[k] \in Pairs
    BY <1>1
  <2> HIDE DEF c
  <2> QED
    BY <2>1, LegacyPairRecord
<1>4. LegacyClosure = <<acc>> \o ends
  BY DEF LegacyClosure
<1>5. acc.type = "wave_accounting"
  OBVIOUS
<1> HIDE DEF c, acc
<1>6. ends \in Seq(LegacyRecords) /\ Len(ends) = c /\ \A k \in 1 .. c : ends[k] = [type |-> "pair_terminal", pair |-> wave[k]]
  BY <1>1, <1>3
<1> HIDE DEF ends
<1>7. /\ Len(<<acc>> \o ends) = 1 + c /\ (<<acc>> \o ends)[1] = acc
      /\ \A k \in 1 .. c : (<<acc>> \o ends)[k + 1] = ends[k]
  BY <1>1, <1>2, <1>6
<1>8. CASE sent = 0
  <2>1. LegacyClosure[sent + 1] = acc
    BY <1>4, <1>7, <1>8
  <2> QED
    BY <1>2, <1>5, <1>8, <2>1
<1>9. CASE sent # 0
  <2>1. sent \in 1 .. c
    BY <1>1, <1>4, <1>7, <1>9
  <2>2. LegacyClosure[sent + 1] = ends[sent]
    BY <1>4, <1>7, <2>1
  <2>3. LegacyClosure[sent + 1] = [type |-> "pair_terminal", pair |-> wave[sent]]
    BY <1>6, <2>1, <2>2
  <2>4. LegacyClosure[sent + 1] \in LegacyRecords
    BY <1>3, <2>1, <2>3
  <2> QED
    BY <1>1, <1>9, <2>1, <2>3, <2>4
<1> QED
  BY <1>8, <1>9

\* The legacy closure is written once, each of its terminals for a settled pair.
LEMMA AppendLegacyKeeps ==
  ASSUME DurableInv, AppendLegacy
  PROVE  DurableInv' /\ Settlements' = Settlements /\ PairsNow' = PairsNow
<1> DEFINE rec == LegacyClosure[sent + 1]
<1>0. /\ pc = "settle" /\ pc' = "settle" /\ sent < Len(LegacyClosure)
      /\ legacy' = Append(legacy, rec) /\ sent' = sent + 1
      /\ UNCHANGED <<journal, pc, known, waves, wave, done, calls, crashes>>
      /\ DurableTyped /\ JournalReads /\ MemoryMatches /\ CallsMatch /\ LegacyMatches
      /\ pc \in Running /\ pc \in Running \cup {"seal"} /\ pc \notin AtRest
  BY DEF AppendLegacy, DurableInv, Running, AtRest
<1>1. UNCHANGED <<journal, pc, known, waves, wave, done, lanes, made, attempts, answers>>
  BY <1>0 DEF calls
<1>2. /\ wave \in Frozen /\ DOMAIN wave = 1 .. Len(wave) /\ Len(wave) \in Nat /\ done \in Seq(Outcome)
      /\ Members(done) \subseteq Settlements
      /\ \A i, j \in 1 .. Len(wave) : wave[i] = wave[j] => i = j
  BY <1>0, InFlightMeans
<1>3. sent \in Nat /\ legacy \in Seq(LegacyRecords) /\ Members(wave) \cap known = {}
  BY <1>0 DEF DurableTyped, MemoryMatches
<1>4. /\ rec \in LegacyRecords
      /\ sent = 0 => rec.type = "wave_accounting"
      /\ sent # 0 => /\ sent \in DOMAIN wave /\ IsTerminal(done, wave[sent])
                     /\ rec = [type |-> "pair_terminal", pair |-> wave[sent]]
  BY <1>0, <1>2, <1>3, LegacyClosureMeans
<1> HIDE DEF rec
<1>5. /\ OpenNow' = OpenNow /\ ClosedNow' = ClosedNow /\ LanesNow' = LanesNow /\ CountNow' = CountNow
      /\ OutcomesNow' = OutcomesNow /\ PairsNow' = PairsNow /\ Settlements' = Settlements
      /\ SettledPairs' = SettledPairs /\ DispatchedHere' = DispatchedHere /\ JournalReads'
  BY <1>0, <1>1, JournalSame
<1>6. Members(DispatchedHere)' = Members(DispatchedHere) /\ Members(wave)' = Members(wave)
  BY <1>1, <1>5, Zenon DEF Members
<1>7. LegacyMatches' /\ legacy' \in Seq(LegacyRecords)
  <2>1. CASE sent = 0
    <3>1. rec.type # "pair_terminal" /\ rec.type # "pair_dispatched" /\ sent' \in Nat /\ sent <= sent'
      BY <1>0, <1>3, <1>4, <2>1
    <3> QED
      BY <1>0, <1>1, <1>4, <1>5, <3>1, LegacyGrows
  <2>2. CASE sent # 0
    <3>1. /\ legacy' \in Seq(LegacyRecords) /\ DOMAIN legacy = 1 .. Len(legacy) /\ Len(legacy) \in Nat
          /\ DOMAIN legacy' = 1 .. (Len(legacy) + 1) /\ legacy'[Len(legacy) + 1] = rec
          /\ \A i \in DOMAIN legacy : legacy'[i] = legacy[i]
      BY <1>0, <1>3, <1>4
    <3>2. \A i \in DOMAIN legacy' : i \in DOMAIN legacy \/ i = Len(legacy) + 1
      BY <3>1
    <3>3. rec.type = "pair_terminal" /\ rec.pair = wave[sent] /\ sent \in 1 .. Len(wave)
      BY <1>2, <1>4, <2>2
    <3>4. \E o \in Settlements : o.pair = rec.pair /\ o.kind = "terminal"
      <4>1. PICK i \in DOMAIN done : done[i].pair = wave[sent] /\ done[i].kind = "terminal"
        BY <1>4, <2>2 DEF IsTerminal
      <4>2. done[i] \in Settlements
        BY <1>2, <4>1 DEF Members
      <4> QED
        BY <3>3, <4>1, <4>2
    <3>5. \A h \in DOMAIN wave : h < sent => h < sent' /\ h # sent
      BY <1>0, <1>2, <1>3
    <3>6. wave[sent] \in {wave[j] : j \in {h \in DOMAIN wave : h < sent'}}
      <4>1. sent < sent' /\ sent \in DOMAIN wave
        BY <1>0, <1>3, <1>4, <2>2
      <4> QED
        BY <4>1
    <3>7. ASSUME NEW i \in DOMAIN legacy, legacy[i].type = "pair_terminal"
          PROVE  /\ \E o \in Settlements : o.pair = legacy[i].pair /\ o.kind = "terminal"
                 /\ legacy[i].pair \in known \cup {wave[j] : j \in {h \in DOMAIN wave : h < sent}}
                 /\ \A j \in DOMAIN legacy : legacy[j] = legacy[i] => i = j
      BY <1>0, <3>7 DEF LegacyMatches
    <3>8. ASSUME NEW i \in DOMAIN legacy, legacy[i].type = "pair_terminal" PROVE legacy[i].pair # wave[sent]
      <4>1. CASE legacy[i].pair \in known
        BY <1>2, <1>3, <3>3, <4>1 DEF Members
      <4>2. CASE legacy[i].pair \in {wave[j] : j \in {h \in DOMAIN wave : h < sent}}
        <5>1. PICK j \in DOMAIN wave : j < sent /\ legacy[i].pair = wave[j]
          BY <4>2
        <5> QED
          BY <1>2, <3>3, <3>5, <5>1
      <4> QED
        BY <3>7, <3>8, <4>1, <4>2
    <3>9. ASSUME NEW i \in DOMAIN legacy', legacy'[i].type = "pair_terminal"
          PROVE  /\ \E o \in Settlements : o.pair = legacy'[i].pair /\ o.kind = "terminal"
                 /\ legacy'[i].pair \in known \cup {wave[j] : j \in {h \in DOMAIN wave : h < sent'}}
                 /\ \A j \in DOMAIN legacy' : legacy'[j] = legacy'[i] => i = j
      <4>1. CASE i \in DOMAIN legacy
        <5>1. legacy'[i] = legacy[i] /\ legacy[i].type = "pair_terminal"
          BY <3>1, <3>9, <4>1
        <5>2. /\ \E o \in Settlements : o.pair = legacy[i].pair /\ o.kind = "terminal"
              /\ legacy[i].pair \in known \cup {wave[j] : j \in {h \in DOMAIN wave : h < sent}}
              /\ \A j \in DOMAIN legacy : legacy[j] = legacy[i] => i = j
              /\ legacy[i].pair # wave[sent]
          BY <3>7, <3>8, <4>1, <5>1
        <5>3. legacy[i].pair \in known \cup {wave[j] : j \in {h \in DOMAIN wave : h < sent'}}
          BY <3>5, <5>2
        <5>4. \A j \in DOMAIN legacy' : legacy'[j] = legacy'[i] => i = j
          BY <3>1, <3>2, <3>3, <5>1, <5>2
        <5> QED
          BY <5>1, <5>2, <5>3, <5>4
      <4>2. CASE i = Len(legacy) + 1
        <5>1. legacy'[i] = rec
          BY <3>1, <4>2
        <5>2. ASSUME NEW j \in DOMAIN legacy', legacy'[j] = rec PROVE i = j
          <6>1. j \notin DOMAIN legacy
            BY <3>1, <3>3, <3>8, <5>2
          <6> QED
            BY <3>2, <4>2, <6>1
        <5> QED
          BY <3>3, <3>4, <3>6, <5>1, <5>2
      <4> QED
        BY <3>2, <4>1, <4>2
    <3>10. ASSUME NEW i \in DOMAIN legacy', legacy'[i].type = "pair_dispatched" PROVE legacy'[i].pair \in PairsNow
      <4>1. i \in DOMAIN legacy /\ legacy'[i] = legacy[i]
        BY <3>1, <3>2, <3>3, <3>10
      <4> QED
        BY <1>0, <3>10, <4>1 DEF LegacyMatches
    <3>11. LegacyMatches'
      BY <1>1, <1>5, <3>9, <3>10 DEF LegacyMatches
    <3> QED
      BY <3>1, <3>11
  <2> QED
    BY <2>1, <2>2
<1>8. DurableTyped'
  BY <1>0, <1>1, <1>3, <1>7 DEF DurableTyped
<1>9. MemoryMatches'
  BY <1>0, <1>1, <1>5, <1>6 DEF MemoryMatches, AtRest, Running
<1>10. CallsMatch'
  <2>1. SettledAsAnswered'
    BY <1>0, <1>1, <1>5, AnswersStay
  <2> QED
    BY <1>0, <1>1, <1>5, <1>6, <2>1 DEF CallsMatch
<1> QED
  BY <1>5, <1>7, <1>8, <1>9, <1>10 DEF DurableInv

\* A wave whose pairs are all settled is closed, and all of them are known.
LEMMA CloseWaveKeeps ==
  ASSUME DurableInv, CloseWave
  PROVE  DurableInv' /\ Settlements' = Settlements /\ PairsNow' = PairsNow
<1>0. /\ pc = "settle" /\ Len(done) = Len(wave) /\ pc' = "ready" /\ waves' = waves + 1
      /\ journal' = Append(journal, WaveClosed(waves, Summary(wave, wave, done)))
      /\ known' = known \cup {wave[i] : i \in DOMAIN wave}
      /\ wave' = <<>> /\ done' = <<>> /\ sent' = 0 /\ lanes' = NoCalls /\ made' = Zero
      /\ UNCHANGED <<legacy, attempts, answers, crashes>>
      /\ DurableTyped /\ JournalReads /\ MemoryMatches /\ CallsMatch /\ LegacyMatches
      /\ pc \in Running /\ pc \in Running \cup {"seal"} /\ pc \notin AtRest
      /\ pc' \notin Running /\ pc' \notin AtRest
  BY DEF CloseWave, AllSettled, DurableInv, Running, AtRest
<1>1. CountNow = Len(wave)
  BY <1>0 DEF MemoryMatches
<1>2. /\ OpenNow /\ wave = LanesNow /\ done = OutcomesNow /\ waves = ClosedNow /\ DispatchedHere = wave
      /\ Members(wave) \subseteq Pairs /\ waves \in Nat
  BY <1>0, <1>1, InFlightMeans DEF DurableTyped
<1>3. /\ JournalReads' /\ ~OpenNow' /\ ClosedNow' = ClosedNow + 1 /\ PairsNow' = PairsNow
      /\ Settlements' = Settlements /\ journal' \in Seq(Records)
  <2>1. journal' = Append(journal, WaveClosed(ClosedNow, Summary(LanesNow, DispatchedHere, OutcomesNow)))
    BY <1>0, <1>2
  <2>2. Len(OutcomesNow) = Len(DispatchedHere)
    BY <1>0, <1>2
  <2> QED
    BY <1>0, <1>2, <2>1, <2>2, ClosureReads
<1>4. known' = PairsNow /\ known' \subseteq Pairs
  <2>1. PairsNow = known \cup Members(DispatchedHere)
    BY <1>0 DEF MemoryMatches
  <2>2. known' = known \cup Members(wave)
    BY <1>0 DEF Members
  <2> QED
    BY <1>0, <1>2, <2>1, <2>2 DEF JournalReads
<1>5. DurableTyped'
  BY <1>0, <1>2, <1>3, <1>4 DEF DurableTyped, NoCalls, Zero
<1>6. MemoryMatches'
  BY <1>0, <1>2, <1>3, <1>4 DEF MemoryMatches, Running, AtRest
<1>7. CallsMatch'
  <2>1. SettledAsAnswered'
    BY <1>0, <1>3, AnswersStay
  <2>2. \A q \in Pairs : q \notin PairsNow' => attempts'[q] = 0
    BY <1>0, <1>3 DEF CallsMatch
  <2> QED
    BY <1>0, <2>1, <2>2, CallsRest
<1>8. LegacyMatches'
  BY <1>0, <1>3, LegacyStays
<1> QED
  BY <1>3, <1>5, <1>6, <1>7, <1>8 DEF DurableInv

-----------------------------------------------------------------------------
\* A step that changes nothing changes none of it.
LEMMA StutterKeeps ==
  ASSUME DurableInv, UNCHANGED vars
  PROVE  DurableInv' /\ Settlements' = Settlements /\ PairsNow' = PairsNow /\ UNCHANGED attempts
<1>0. DurableTyped /\ JournalReads /\ MemoryMatches /\ CallsMatch /\ LegacyMatches
  BY DEF DurableInv
<1>1. UNCHANGED <<journal, legacy, pc, known, waves, wave, done, sent, lanes, made, attempts, answers>>
  BY DEF vars, memory, calls
<1>2. /\ OpenNow' = OpenNow /\ ClosedNow' = ClosedNow /\ LanesNow' = LanesNow /\ CountNow' = CountNow
      /\ OutcomesNow' = OutcomesNow /\ PairsNow' = PairsNow /\ Settlements' = Settlements
      /\ SettledPairs' = SettledPairs /\ DispatchedHere' = DispatchedHere /\ JournalReads'
  BY <1>0, <1>1, JournalSame
<1>3. Members(DispatchedHere)' = Members(DispatchedHere) /\ Members(wave)' = Members(wave)
  BY <1>1, <1>2, Zenon DEF Members
<1>4. DurableTyped'
  BY <1>0, <1>1 DEF DurableTyped
<1>5. MemoryMatches'
  BY <1>0, <1>1, <1>2, <1>3 DEF MemoryMatches
<1>6. CallsMatch'
  <2>1. SettledAsAnswered'
    BY <1>0, <1>1, <1>2, AnswersStay
  <2> QED
    BY <1>0, <1>1, <1>2, <1>3, <2>1 DEF CallsMatch
<1>7. LegacyMatches'
  BY <1>0, <1>1, <1>2, LegacyStays
<1> QED
  BY <1>1, <1>2, <1>4, <1>5, <1>6, <1>7 DEF DurableInv

\* What a step does to the journal: it says nothing new of a pair, or it dispatches a
\* fresh one, or it settles a dispatched one.
QuietStep == Settlements' = Settlements /\ PairsNow' = PairsNow /\ UNCHANGED attempts
DispatchStep ==
  \E p \in Pairs \ PairsNow :
    PairsNow' = PairsNow \cup {p} /\ Settlements' = Settlements /\ UNCHANGED attempts
CallStep ==
  \E p \in PairsNow \ SettledPairs :
    /\ attempts' = [attempts EXCEPT ![p] = @ + 1]
    /\ Settlements' = Settlements /\ PairsNow' = PairsNow
SettleStep ==
  \E p \in PairsNow \ SettledPairs : \E o \in {Recovered(p)} \cup {Settled(p, kind, attempts[p]) : kind \in Kinds} :
    /\ Settlements' = Settlements \cup {o} /\ PairsNow' = PairsNow /\ UNCHANGED attempts
    /\ ~o.recovered => attempts[p] <= MaxAttempts

\* Every step keeps the invariant, and is one of those.
LEMMA DurableStep ==
  ASSUME DurableInv, [Next]_vars
  PROVE  DurableInv' /\ (QuietStep \/ DispatchStep \/ CallStep \/ SettleStep)
<1>0. JournalReads
  BY DEF DurableInv
<1>1. CASE Replay
  <2>1. UNCHANGED <<journal, attempts>>
    BY <1>1 DEF Replay, calls
  <2>2. Settlements' = Settlements /\ PairsNow' = PairsNow
    BY <2>1, JournalSame DEF DurableInv
  <2> QED
    BY <1>1, <2>1, <2>2, ReplayKeeps DEF QuietStep
<1>2. CASE SealPair
  <2>1. PICK p \in PairsNow \ SettledPairs : Settlements' = Settlements \cup {Recovered(p)} /\ PairsNow' = PairsNow
    BY <1>2, SealPairKeeps
  <2>2. UNCHANGED attempts /\ Recovered(p).recovered
    BY <1>2 DEF SealPair, calls, Recovered
  <2>3. SettleStep
    BY <2>1, <2>2 DEF SettleStep
  <2> QED
    BY <1>2, <2>3, SealPairKeeps
<1>3. CASE SealWave
  BY <1>3, SealWaveKeeps DEF QuietStep, SealWave, calls
<1>4. CASE ReserveWave
  BY <1>4, ReserveWaveKeeps DEF QuietStep, ReserveWave
<1>5. CASE AnnounceWave
  BY <1>5, AnnounceWaveKeeps DEF QuietStep, AnnounceWave, calls
<1>6. CASE DispatchPair
  BY <1>6, DispatchPairKeeps DEF DispatchStep, DispatchPair, calls
<1>7. CASE SubmitPair
  BY <1>7, SubmitPairKeeps DEF QuietStep, SubmitPair
<1>8. ASSUME NEW p \in Pairs, Call(p) PROVE DurableInv' /\ CallStep
  BY <1>8, CallKeeps DEF CallStep, Call
<1>9. ASSUME NEW p \in Pairs, Answer(p) PROVE DurableInv' /\ QuietStep
  BY <1>9, AnswerKeeps DEF QuietStep, Answer
<1>10. ASSUME NEW p \in Pairs, SettlePair(p) PROVE DurableInv' /\ SettleStep
  <2>1. /\ DurableInv' /\ p \in PairsNow \ SettledPairs /\ PairsNow' = PairsNow
        /\ Settlements' = Settlements \cup {Settled(p, lanes[p], made[p])}
        /\ lanes[p] \in Kinds /\ made[p] = attempts[p] /\ made[p] <= MaxAttempts
    BY <1>10, SettlePairKeeps
  <2>2. UNCHANGED attempts
    BY <1>10 DEF SettlePair, calls
  <2>3. SettleStep
    BY <2>1, <2>2 DEF SettleStep
  <2> QED
    BY <2>1, <2>3
<1>11. ASSUME NEW p \in Pairs, OverrunWindow(p) PROVE DurableInv' /\ QuietStep
  BY <1>11, OverrunWindowKeeps DEF QuietStep, OverrunWindow, calls
<1>12. CASE EndRun \/ Leave \/ Crash
  <2>1. Forget /\ pc' = "down" /\ UNCHANGED <<journal, legacy, attempts, answers>>
    BY <1>12 DEF EndRun, Leave, Crash
  <2>2. Settlements' = Settlements /\ PairsNow' = PairsNow
    BY <2>1, JournalSame DEF DurableInv
  <2> QED
    BY <2>1, <2>2, ForgettingKeeps DEF QuietStep
<1>13. CASE AppendLegacy
  BY <1>13, AppendLegacyKeeps DEF QuietStep, AppendLegacy, calls
<1>14. CASE CloseWave
  BY <1>14, CloseWaveKeeps DEF QuietStep, CloseWave
<1>15. CASE UNCHANGED vars
  BY <1>15, StutterKeeps DEF QuietStep
<1> QED
  BY <1>1, <1>2, <1>3, <1>4, <1>5, <1>6, <1>7, <1>8, <1>9, <1>10, <1>11, <1>12, <1>13, <1>14, <1>15
     DEF Next, Seal, RunWave, Settle, Thread

\* The journal always reads, memory, calls and legacy ledger agree with it.
THEOREM DurableInductive == Spec => []DurableInv
<1>1. DurableInv /\ [Next]_vars => DurableInv'
  BY DurableStep
<1> QED
  BY <1>1, DurableInitHolds, PTL DEF Spec

\* Wherever a wave or its sealing is interrupted, the next replay takes the whole
\* journal, the recomputed closure of each wave included.
THEOREM ReplaysAlwaysRead == Spec => []EveryReplayReads
<1>1. DurableInv => EveryReplayReads
  BY DEF DurableInv, MemoryMatches, EveryReplayReads
<1> QED
  BY <1>1, DurableInductive, PTL

\* The journal says of each pair what its own call ended in; the legacy ledger never
\* runs ahead of it, and names a terminal once.
THEOREM LedgersAlwaysTell == Spec => []LedgersTellAnswers
<1>1. DurableInv => LedgersTellAnswers
  BY DEF DurableInv, CallsMatch, LegacyMatches, LedgersTellAnswers, LegacyFollowsJournal, PairsNow
<1> QED
  BY <1>1, DurableInductive, PTL

-----------------------------------------------------------------------------
\* What the journal promises for each pair.
Status == [p \in Pairs |->
             IF p \in SettledPairs THEN "settled"
             ELSE IF p \in DispatchedPairs(Len(journal)) THEN "dispatched" ELSE "open"]
Verdict == [p \in Pairs |->
              IF p \in SettledPairs
              THEN [kind |-> OutcomeOf(p).kind, charge |-> OutcomeOf(p).charge]
              ELSE [kind |-> "none", charge |-> 0]]

\* The only settlement of a pair is the one that is looked up.
LEMMA OnlyOutcome ==
  ASSUME NEW S, \A o, x \in S : o.pair = x.pair => o = x, NEW o \in S, NEW q, q = o.pair
  PROVE  (CHOOSE x \in S : x.pair = q) = o
<1> DEFINE y == CHOOSE x \in S : x.pair = q
<1>1. y \in S /\ y.pair = q
  OBVIOUS
<1> HIDE DEF y
<1>2. y = o
  BY <1>1
<1> QED
  BY <1>2 DEF y

\* Nothing is promised of a pair at first.
LEMMA SettlementPromiseInit == Init => Promise!Init
<1> SUFFICES ASSUME Init PROVE Promise!Init
  OBVIOUS
<1>1. journal = <<>> /\ attempts = [p \in Pairs |-> 0] /\ Len(journal) = 0
  BY DEF Init, Zero
<1>2. \A t : Indices(t, 0) = {}
  BY DEF Indices
<1>3. DispatchedPairs(Len(journal)) = {} /\ SettledPairs = {}
  <2>1. /\ DispatchedPairs(Len(journal)) = {journal[i].pair : i \in {}}
        /\ Settlements = {journal[i].outcome : i \in {}}
    BY <1>1, <1>2, Zenon DEF DispatchedPairs, Settlements
  <2> QED
    BY <2>1 DEF SettledPairs
<1> QED
  BY <1>1, <1>3 DEF Promise!Init, Promise!Unsettled

\* Every step keeps the promise, or is not seen in it.
LEMMA SettlementPromiseStep ==
  ASSUME DurableInv, [Next]_vars
  PROVE  [Promise!Next]_(Promise!vars)
<1>0. /\ JournalReads /\ JournalReads'
      /\ (QuietStep \/ DispatchStep \/ CallStep \/ SettleStep)
  BY DurableStep DEF DurableInv
<1>u. /\ \A o, x \in Settlements : o.pair = x.pair => o = x
      /\ \A o, x \in Settlements' : o.pair = x.pair => o = x
      /\ SettledPairs \subseteq PairsNow /\ PairsNow \subseteq Pairs
  BY <1>0 DEF JournalReads
<1>a. attempts \in [Pairs -> Nat]
  BY DEF DurableInv, DurableTyped
<1>s. ASSUME Settlements' = Settlements PROVE SettledPairs' = SettledPairs /\ Verdict' = Verdict
  <2>1. SettledPairs' = SettledPairs
    BY <1>s, Zenon DEF SettledPairs
  <2>2. \A p : OutcomeOf(p)' = OutcomeOf(p)
    BY <1>s DEF OutcomeOf
  <2> QED
    BY <2>1, <2>2 DEF Verdict
<1>1. CASE QuietStep
  <2>1. Status' = Status
    BY <1>1, <1>s DEF QuietStep, Status, PairsNow
  <2>2. Verdict' = Verdict /\ attempts' = attempts
    BY <1>1, <1>s DEF QuietStep
  <2> QED
    BY <2>1, <2>2 DEF Promise!vars, Status, Verdict
<1>2. CASE DispatchStep
  <2>1. PICK p \in Pairs \ PairsNow :
          PairsNow' = PairsNow \cup {p} /\ Settlements' = Settlements /\ UNCHANGED attempts
    BY <1>2 DEF DispatchStep
  <2>2. Verdict' = Verdict /\ SettledPairs' = SettledPairs /\ p \notin SettledPairs
    BY <1>s, <1>u, <2>1
  <2>3. Status[p] = "open" /\ Status' = [Status EXCEPT ![p] = "dispatched"]
    BY <2>1, <2>2 DEF Status, PairsNow
  <2>4. Promise!Dispatch(p)
    BY <2>1, <2>2, <2>3 DEF Promise!Dispatch, Status, Verdict
  <2> QED
    BY <2>4 DEF Promise!Next
<1>3. CASE CallStep
  <2>1. PICK p \in PairsNow \ SettledPairs :
          /\ attempts' = [attempts EXCEPT ![p] = @ + 1]
          /\ Settlements' = Settlements /\ PairsNow' = PairsNow
    BY <1>3 DEF CallStep
  <2>2. Verdict' = Verdict /\ SettledPairs' = SettledPairs /\ p \in Pairs
    BY <1>s, <1>u, <2>1
  <2>3. Status[p] = "dispatched" /\ Status' = Status
    BY <2>1, <2>2 DEF Status, PairsNow
  <2>4. Promise!Call(p)
    BY <2>1, <2>2, <2>3 DEF Promise!Call, Status, Verdict
  <2> QED
    BY <2>2, <2>4 DEF Promise!Next
<1>4. CASE SettleStep
  <2>1. PICK p \in PairsNow \ SettledPairs : \E o \in {Recovered(p)} \cup {Settled(p, kind, attempts[p]) : kind \in Kinds} :
          /\ Settlements' = Settlements \cup {o} /\ PairsNow' = PairsNow /\ UNCHANGED attempts
          /\ ~o.recovered => attempts[p] <= MaxAttempts
    BY <1>4 DEF SettleStep
  <2>2. PICK o \in {Recovered(p)} \cup {Settled(p, kind, attempts[p]) : kind \in Kinds} :
          /\ Settlements' = Settlements \cup {o} /\ PairsNow' = PairsNow /\ UNCHANGED attempts
          /\ ~o.recovered => attempts[p] <= MaxAttempts
    BY <2>1
  <2>3. p \in Pairs /\ attempts[p] \in Nat /\ MaxAttempts \in Nat
    BY <1>a, <1>u, AttemptsAssumption
  <2>4. /\ o.pair = p /\ o.kind \in Kinds /\ o.charge \in Promise!Covered(attempts[p]) .. MaxAttempts
        /\ o.kind = "terminal" => o.charge = attempts[p]
    <3>1. CASE o = Recovered(p)
      <4>1. o.pair = p /\ o.kind = "provenance_unknown" /\ o.charge = MaxAttempts
        BY <3>1 DEF Recovered
      <4>2. MaxAttempts \in Promise!Covered(attempts[p]) .. MaxAttempts
        BY <2>3 DEF Promise!Covered
      <4> QED
        BY <4>1, <4>2 DEF Kinds
    <3>2. ASSUME NEW kind \in Kinds, o = Settled(p, kind, attempts[p])
          PROVE  /\ o.pair = p /\ o.kind \in Kinds /\ o.charge \in Promise!Covered(attempts[p]) .. MaxAttempts
                 /\ o.kind = "terminal" => o.charge = attempts[p]
      <4>1. o.pair = p /\ o.kind = kind /\ o.charge = attempts[p] /\ ~o.recovered
        BY <3>2 DEF Settled
      <4>2. attempts[p] \in Promise!Covered(attempts[p]) .. MaxAttempts
        BY <2>2, <2>3, <4>1 DEF Promise!Covered
      <4> QED
        BY <4>1, <4>2
    <3> QED
      BY <3>1, <3>2
  <2>5. SettledPairs' = SettledPairs \cup {p}
    <3>1. SettledPairs' = {x.pair : x \in Settlements \cup {o}}
      BY <2>2, Zenon DEF SettledPairs
    <3> QED
      BY <2>4, <3>1 DEF SettledPairs
  <2>6. OutcomeOf(p)' = o
    <3>1. o \in Settlements'
      BY <2>2
    <3> QED
      BY <1>u, <2>4, <3>1, OnlyOutcome DEF OutcomeOf
  <2>7. ASSUME NEW q \in SettledPairs PROVE OutcomeOf(q)' = OutcomeOf(q)
    <3>1. PICK x \in Settlements : x.pair = q
      BY DEF SettledPairs
    <3>2. OutcomeOf(q) = x
      BY <1>u, <3>1, OnlyOutcome DEF OutcomeOf
    <3>3. x \in Settlements'
      BY <2>2, <3>1
    <3>4. OutcomeOf(q)' = x
      BY <1>u, <3>1, <3>3, OnlyOutcome DEF OutcomeOf
    <3> QED
      BY <3>2, <3>4
  <2>8. Status[p] = "dispatched" /\ Status' = [Status EXCEPT ![p] = "settled"]
    BY <2>1, <2>2, <2>3, <2>5 DEF Status, PairsNow
  <2>9. Verdict' = [Verdict EXCEPT ![p] = [kind |-> o.kind, charge |-> o.charge]]
    BY <2>1, <2>3, <2>5, <2>6, <2>7 DEF Verdict
  <2>10. Promise!Settle(p)
    <3>1. \E kind \in Promise!Kinds, charge \in Promise!Covered(attempts[p]) .. MaxAttempts :
            /\ kind = "terminal" => charge = attempts[p]
            /\ Verdict' = [Verdict EXCEPT ![p] = [kind |-> kind, charge |-> charge]]
      <4>1. o.kind \in Promise!Kinds
        BY <2>4 DEF Promise!Kinds, Kinds
      <4> QED
        BY <2>4, <2>9, <4>1
    <3> QED
      BY <2>2, <2>8, <3>1 DEF Promise!Settle, Status, Verdict
  <2> QED
    BY <2>3, <2>10 DEF Promise!Next
<1> QED
  BY <1>0, <1>1, <1>2, <1>3, <1>4

\* The journal keeps the promise made for each pair: dispatched once, called only while
\* dispatched, settled once and for good, with a charge that covers its calls.
THEOREM SettlementKeepsPromise == Spec => KeepsSettlementPromise
<1>1. DurableInv /\ [Next]_vars => [Promise!Next]_(Promise!vars)
  BY SettlementPromiseStep
<1> QED
  BY <1>1, SettlementPromiseInit, DurableInductive, PTL DEF Spec, KeepsSettlementPromise, Promise!Spec

-----------------------------------------------------------------------------
\* The formal run.

\* The judgment whose reservation is pending already has its terminal.
Settling == ledger.pending # None /\ runJournal[ledger.pending] = "terminal"
LedgerFrontier == ledger.logical + (IF Settling THEN 1 ELSE 0)

\* Pairs are judged in the schedule's order, one at a time: the pending one is
\* the first that the ledger has not settled.
Order ==
  /\ \A p \in PoolPairs : runJournal[p] = "terminal" <=> p <= LedgerFrontier
  /\ \A p \in PoolPairs : runJournal[p] = "started" => p = ledger.pending
  /\ ledger.pending # None => ledger.pending = ledger.logical + 1

\* Where the process is, and what it has left on disk by then.
Control ==
  /\ ~workspace => guardPc = "down" /\ ledger.pending = None
  /\ source = "closed" => guardPc = "down" /\ workspace
  /\ guardPc = "down" => opened = "no"
  /\ opened = "named" => guardPc \in {"next", "reconcile"}
  /\ guardPc \in {"next", "running", "closing", "publishing"} => ledger.pending = None
  /\ guardPc \in {"closing", "publishing"} => ledger.logical = Logical
  /\ guardPc \in {"reserved", "dispatching"} =>
       ledger.pending # None /\ runJournal[ledger.pending] = "none"
  /\ guardPc \notin {"calling", "interrupted"} => tries = 0
  /\ guardPc = "calling" => /\ ledger.pending # None
                            /\ runJournal[ledger.pending] = "started"
                            /\ callsMade[ledger.pending] = tries
  /\ guardPc = "after" => Settling

\* What has been called, pair by pair and in all.
InFlight ==
  IF ledger.pending = None \/ runJournal[ledger.pending] = "none" THEN 0
  ELSE callsMade[ledger.pending]

Money ==
  /\ \A p \in PoolPairs : /\ runJournal[p] = "none" => callsMade[p] = 0
                          /\ runJournal[p] = "terminal" => callsMade[p] = requests[p]
                          /\ callsMade[p] <= AttemptsPerPair
  /\ total = ledger.physical + InFlight
  /\ ledger.physical + Window <= PhysicalCap
  /\ source = "closed" => recorded = [logical |-> Logical, physical |-> total]

IInv == TypeOK /\ Order /\ Control /\ Money

-----------------------------------------------------------------------------
\* What the assumptions say of the constants the proofs use.
LEMMA ConstantTypes ==
  /\ Logical \in Nat \ {0} /\ AttemptsPerPair \in Nat \ {0}
  /\ LogicalCap \in Nat /\ PhysicalCap \in Nat /\ MaxFailures \in Nat
  /\ None \notin PoolPairs
BY PoolAssumption, CapAssumption, FailureAssumption DEF PoolPairs, None

\* A workspace nobody has opened satisfies the invariant.
LEMMA InitInvariant == GuardInit => IInv
<1> USE ConstantTypes DEF GuardInit
<1>1. GuardInit => TypeOK
  <2> SUFFICES ASSUME GuardInit PROVE TypeOK
    OBVIOUS
  <2>1. /\ runJournal \in [PoolPairs -> {"none", "started", "terminal"}]
        /\ requests \in [PoolPairs -> 0 .. AttemptsPerPair] /\ callsMade \in [PoolPairs -> Nat]
    OBVIOUS
  <2>2. ledger \in [reads : BOOLEAN, pending : {None} \union PoolPairs, rows : Nat,
                   logical : Nat, physical : Nat]
    OBVIOUS
  <2>3. /\ status \in [lifecycle : Lifecycles, logical : Nat, physical : Nat]
        /\ recorded \in [logical : Nat, physical : Nat]
    BY DEF NoStatus, Lifecycles
  <2>4. workspace \in BOOLEAN /\ identity \in BOOLEAN
    BY Zenon
  <2>5. /\ tries \in 0 .. AttemptsPerPair /\ left \in 0 .. AttemptsPerPair /\ total \in Nat
        /\ failures \in 0 .. MaxFailures
    OBVIOUS
  <2>6. source \in {"absent", "staged", "closed"} /\ opened \in {"no", "named", "yes"} /\ guardPc = "down"
    OBVIOUS
  <2> HIDE DEF GuardInit
  <2> QED
    BY <2>1, <2>2, <2>3, <2>4, <2>5, <2>6 DEF TypeOK
<1>2. GuardInit => Order
  BY DEF Order, Settling, LedgerFrontier, None, PoolPairs
<1>3. GuardInit => Control
  BY DEF Control
<1>4. GuardInit => Money
  BY DEF Money, InFlight, Window, None
<1> QED
  BY <1>1, <1>2, <1>3, <1>4 DEF IInv

\* The first pair without a terminal is the one after those the ledger settled.
LEMMA CurrentIsNext ==
  ASSUME IInv, ledger.pending = None, Todo # {}
  PROVE  Current \in PoolPairs /\ Current = ledger.logical + 1 /\ runJournal[Current] = "none"
<1> USE ConstantTypes
<1>1. ledger.logical \in Nat /\ \A p \in PoolPairs : runJournal[p] = "terminal" <=> p <= ledger.logical
  BY DEF IInv, TypeOK, Order, LedgerFrontier, Settling, None
<1>2. PICK q \in PoolPairs : runJournal[q] # "terminal"
  BY DEF Todo
<1> DEFINE n == ledger.logical + 1
<1>3. n \in PoolPairs /\ n \in Todo /\ \A p \in Todo : n <= p
  BY <1>1, <1>2 DEF PoolPairs, Todo
<1>4. Current \in Todo /\ \A p \in Todo : Current <= p
  BY <1>3 DEF Current, Min
<1>5. Current = n
  BY <1>3, <1>4 DEF Todo, PoolPairs
<1>6. runJournal[n] = "none"
  BY <1>3 DEF IInv, TypeOK, Order, Todo, None
<1> QED
  BY <1>3, <1>5, <1>6

\* With every pair terminal and none pending, the ledger has settled them all.
LEMMA NothingToDo ==
  ASSUME IInv, ledger.pending = None, ledger.logical = Logical
  PROVE  Todo = {}
BY ConstantTypes DEF IInv, TypeOK, Order, LedgerFrontier, Settling, None, Todo, PoolPairs

\* Steps that touch neither journal, ledger nor Provider.
Judging == <<runJournal, requests, ledger, callsMade, total, recorded>>

\* A step that touches neither the journal nor the ledger keeps their part.
LEMMA IdleStep ==
  ASSUME IInv, UNCHANGED Judging, source' = "closed" => source = "closed"
  PROVE  Order' /\ Money'
<1> USE DEF IInv, Judging
<1>1. Order'
  BY DEF Order, LedgerFrontier, Settling
<1>2. Money'
  BY DEF Money, InFlight, Window
<1> QED
  BY <1>1, <1>2

\* A step of the process control alone, or one that writes the status.
LEMMA ControlStep ==
  ASSUME IInv,
         \/ Launch \/ Resume \/ OpenExisting \/ WriteIdentity \/ Initialize
         \/ StopAtCap \/ MarkReserved \/ LoseAnswer \/ RefuseAnswer
         \/ WriteRunning \/ MarkInterrupted \/ ReadyToClose \/ Stage
         \/ FailClosure \/ Kill
  PROVE  IInv'
<1> USE ConstantTypes
<1> USE DEF Goto, Stop, WriteStatus, disk, process, world
<1>1. UNCHANGED Judging
  BY DEF Judging, Launch, Resume, OpenExisting, WriteIdentity, Initialize, StopAtCap,
     MarkReserved, LoseAnswer, RefuseAnswer, WriteRunning, MarkInterrupted, ReadyToClose,
     Stage, FailClosure, Kill
<1>2. source' = "closed" => source = "closed"
  BY DEF Launch, Resume, OpenExisting, WriteIdentity, Initialize, StopAtCap, MarkReserved,
     LoseAnswer, RefuseAnswer, WriteRunning, MarkInterrupted, ReadyToClose, Stage,
     FailClosure, Kill
<1>3. TypeOK'
  <2>0. CASE Launch \/ Resume
    BY <2>0 DEF IInv, TypeOK, Launch, Resume
  <2>1. CASE OpenExisting \/ Initialize
    BY <2>1 DEF IInv, TypeOK, Lifecycles, OpenExisting, Initialize
  <2>6. CASE WriteIdentity
    <3>1. identity' \in BOOLEAN
      BY <2>6, Zenon DEF WriteIdentity
    <3> QED
      BY <2>6, <3>1 DEF IInv, TypeOK, WriteIdentity
  <2>2. CASE StopAtCap \/ MarkReserved \/ LoseAnswer \/ RefuseAnswer
    BY <2>2 DEF IInv, TypeOK, Lifecycles, StopAtCap, MarkReserved, LoseAnswer, RefuseAnswer
  <2>3. CASE WriteRunning \/ MarkInterrupted
    BY <2>3 DEF IInv, TypeOK, Lifecycles, WriteRunning, MarkInterrupted
  <2>5. CASE ReadyToClose
    <3>1. status' \in [lifecycle : Lifecycles, logical : Nat, physical : Nat]
      BY <2>5 DEF IInv, TypeOK, ReadyToClose, Lifecycles
    <3>2. guardPc' \in {"down", "closing"} /\ opened' \in {"no", "yes"} /\ tries' \in 0 .. AttemptsPerPair
          /\ left' \in 0 .. AttemptsPerPair
      BY <2>5 DEF IInv, TypeOK, ReadyToClose
    <3> QED
      BY <2>5, <3>1, <3>2 DEF IInv, TypeOK, ReadyToClose
  <2>4. CASE Stage \/ FailClosure \/ Kill
    BY <2>4 DEF IInv, TypeOK, Stage, FailClosure, Kill
  <2> QED
    BY <2>0, <2>1, <2>2, <2>3, <2>4, <2>5, <2>6
<1>4. Control'
  <2> USE DEF IInv, Control, Settling
  <2>1. CASE Launch \/ Resume
    BY <2>1 DEF Launch, Resume
  <2>2. CASE OpenExisting \/ WriteIdentity \/ Initialize
    BY <2>2 DEF OpenExisting, WriteIdentity, Initialize
  <2>3. CASE StopAtCap \/ MarkReserved
    BY <2>3 DEF StopAtCap, MarkReserved
  <2>4. CASE LoseAnswer \/ RefuseAnswer
    BY <2>4 DEF LoseAnswer, RefuseAnswer
  <2>5. CASE WriteRunning \/ MarkInterrupted
    BY <2>5 DEF WriteRunning, MarkInterrupted
  <2>6. CASE ReadyToClose
    BY <2>6 DEF ReadyToClose
  <2>7. CASE Stage \/ FailClosure \/ Kill
    BY <2>7 DEF Stage, FailClosure, Kill
  <2> QED
    BY <2>1, <2>2, <2>3, <2>4, <2>5, <2>6, <2>7
<1>5. Order' /\ Money'
  BY <1>1, <1>2, IdleStep
<1> QED
  BY <1>3, <1>4, <1>5 DEF IInv

-----------------------------------------------------------------------------
\* The steps of a judgment.

\* What a resume does with the reservation it finds.
LEMMA ReconcileStep == IInv /\ Reconcile => IInv'
<1> SUFFICES ASSUME IInv, Reconcile PROVE IInv'
  OBVIOUS
<1> USE ConstantTypes DEF Goto
<1>1. CASE UNCHANGED ledger
  <2>1. UNCHANGED Judging /\ UNCHANGED source
    BY <1>1 DEF Reconcile, Judging, world
  <2>2. TypeOK'
    BY <1>1 DEF Reconcile, IInv, TypeOK, world, None
  <2>3. \/ guardPc' = "interrupted"
        \/ guardPc' = "next" /\ ledger.pending = None
        \/ guardPc' = "after" /\ Settling
        \/ guardPc' = "running" /\ ledger' = Release /\ ledger.pending # None
    BY DEF Reconcile, Settling
  <2>4. guardPc' # "running"
    BY <1>1, <2>3 DEF Release, IInv, TypeOK, None
  <2>5. Control'
    BY <1>1, <2>3, <2>4 DEF Reconcile, IInv, Control, Settling, world
  <2> QED
    BY <2>1, <2>2, <2>5, IdleStep DEF IInv
<1>2. CASE /\ ledger.pending # None /\ runJournal[ledger.pending] # "terminal"
           /\ ledger' = Release /\ Goto("running") /\ ~Unknown
  <2>1. runJournal[ledger.pending] = "none"
    BY <1>2 DEF IInv, TypeOK, Unknown, None
  <2>2. TypeOK'
    BY <1>2 DEF Reconcile, IInv, TypeOK, Release, world, None
  <2>3. Order'
    BY <1>2, <2>1 DEF Reconcile, IInv, TypeOK, Order, LedgerFrontier, Settling, Unknown, Release, world, None
  <2>4. Control'
    BY <1>2 DEF Reconcile, IInv, Control, Settling, Release, world
  <2>5. Money'
    BY <1>2, <2>1 DEF Reconcile, IInv, TypeOK, Money, InFlight, Window, Release, world, None
  <2> QED
    BY <2>2, <2>3, <2>4, <2>5 DEF IInv
<1> QED
  BY <1>1, <1>2 DEF Reconcile

\* The reservation ahead of a call.
LEMMA BeforeStep == IInv /\ Before => IInv'
<1> SUFFICES ASSUME IInv, Before PROVE IInv'
  OBVIOUS
<1> USE ConstantTypes DEF Goto
<1>1. ledger.pending = None /\ ~Exceeds /\ Todo # {}
  BY DEF Before, IInv, Control
<1>2. Current \in PoolPairs /\ Current = ledger.logical + 1 /\ runJournal[Current] = "none"
  BY <1>1, CurrentIsNext
<1>3. /\ ledger' = [ledger EXCEPT !.pending = Current, !.rows = 0]
      /\ guardPc' = "reserved" /\ UNCHANGED <<opened, tries, left>>
      /\ UNCHANGED <<workspace, runJournal, requests, identity, status, source, recorded, callsMade, total, failures>>
  BY <1>1 DEF Before, world
<1>4. TypeOK'
  BY <1>2, <1>3 DEF IInv, TypeOK, None
<1>5. Order'
  BY <1>1, <1>2, <1>3 DEF IInv, TypeOK, Order, LedgerFrontier, Settling
<1>6. Control'
  BY <1>1, <1>2, <1>3 DEF Before, IInv, TypeOK, Control, Settling
<1>7. Money'
  BY <1>1, <1>2, <1>3 DEF IInv, TypeOK, Money, InFlight, Window, Exceeds
<1> QED
  BY <1>4, <1>5, <1>6, <1>7 DEF IInv

\* The journal starts the pair.
LEMMA StartStep == IInv /\ StartPair => IInv'
<1> SUFFICES ASSUME IInv, StartPair PROVE IInv'
  OBVIOUS
<1> USE ConstantTypes DEF Goto
<1>1. ledger.pending \in PoolPairs /\ runJournal[ledger.pending] = "none"
  BY DEF StartPair, IInv, TypeOK, Control, None
<1>2. TypeOK'
  BY <1>1 DEF StartPair, IInv, TypeOK, world
<1>3. Order'
  BY <1>1 DEF StartPair, IInv, TypeOK, Order, LedgerFrontier, Settling, world
<1>4. Control'
  BY <1>1 DEF StartPair, IInv, TypeOK, Control, Money, Settling, world
<1>5. Money'
  BY <1>1 DEF StartPair, IInv, TypeOK, Money, InFlight, Window, world
<1> QED
  BY <1>2, <1>3, <1>4, <1>5 DEF IInv

\* A physical attempt, counted by the adapter.
LEMMA GuardCallStep == IInv /\ CallAdapter => IInv'
<1> SUFFICES ASSUME IInv, CallAdapter PROVE IInv'
  OBVIOUS
<1> USE ConstantTypes
<1>1. /\ ledger.pending \in PoolPairs /\ ledger.pending # None
      /\ runJournal[ledger.pending] = "started" /\ callsMade[ledger.pending] = tries
  BY DEF CallAdapter, IInv, TypeOK, Control, None
<1>2. TypeOK'
  BY <1>1 DEF CallAdapter, IInv, TypeOK, disk
<1>3. Order'
  BY <1>1 DEF CallAdapter, IInv, TypeOK, Order, LedgerFrontier, Settling, disk
<1>4. Control'
  BY <1>1 DEF CallAdapter, IInv, TypeOK, Control, Settling, disk
<1>5. Money'
  BY <1>1 DEF CallAdapter, IInv, TypeOK, Control, Money, InFlight, Window, disk
<1> QED
  BY <1>2, <1>3, <1>4, <1>5 DEF IInv

\* The journal takes the terminal, with as many requests as were called.
LEMMA RegisterStep == IInv /\ RegisterTerminal => IInv'
<1> SUFFICES ASSUME IInv, RegisterTerminal PROVE IInv'
  OBVIOUS
<1> USE ConstantTypes
<1>1. /\ ledger.pending \in PoolPairs /\ ledger.pending # None
      /\ ledger.pending = ledger.logical + 1
      /\ runJournal[ledger.pending] = "started" /\ callsMade[ledger.pending] = tries
  BY DEF RegisterTerminal, IInv, TypeOK, Control, Order, None
<1>2. TypeOK'
  BY <1>1 DEF RegisterTerminal, IInv, TypeOK, world
<1>3. Order'
  <2>1. \A p \in PoolPairs : runJournal[p] = "terminal" <=> p <= ledger.logical
    BY <1>1 DEF IInv, TypeOK, Order, LedgerFrontier, Settling
  <2>2. runJournal' = [runJournal EXCEPT ![ledger.pending] = "terminal"] /\ UNCHANGED ledger
    BY DEF RegisterTerminal
  <2>3. Settling' /\ LedgerFrontier' = ledger.logical + 1
    BY <1>1, <2>2 DEF IInv, TypeOK, Settling, LedgerFrontier
  <2>4. \A p \in PoolPairs : runJournal'[p] = "terminal" <=> p <= LedgerFrontier'
    <3> TAKE p \in PoolPairs
    <3>1. p \in Nat /\ ledger.logical \in Nat
      BY DEF PoolPairs, IInv, TypeOK
    <3>2. CASE p = ledger.pending
      BY <1>1, <2>2, <2>3, <3>1, <3>2 DEF IInv, TypeOK
    <3>3. CASE p # ledger.pending
      <4>1. runJournal'[p] = runJournal[p]
        BY <2>2, <3>3 DEF IInv, TypeOK
      <4>2. p <= ledger.logical <=> p <= ledger.logical + 1
        BY <1>1, <3>1, <3>3
      <4> QED
        BY <2>1, <2>3, <4>1, <4>2
    <3> QED
      BY <3>2, <3>3
  <2>5. \A p \in PoolPairs : runJournal'[p] = "started" => p = ledger'.pending
    BY <1>1, <2>2 DEF IInv, TypeOK, Order
  <2> QED
    BY <1>1, <2>2, <2>4, <2>5 DEF Order
<1>4. Control'
  BY <1>1 DEF RegisterTerminal, IInv, TypeOK, Control, Settling, world
<1>5. Money'
  BY <1>1 DEF RegisterTerminal, IInv, TypeOK, Control, Money, InFlight, Window, world
<1> QED
  BY <1>2, <1>3, <1>4, <1>5 DEF IInv

\* The ledger takes a row of an attempt.
LEMMA AccountStep == IInv /\ AccountAttempt => IInv'
<1> SUFFICES ASSUME IInv, AccountAttempt PROVE IInv'
  OBVIOUS
<1> USE ConstantTypes
<1>1. TypeOK'
  BY DEF AccountAttempt, IInv, TypeOK, world
<1>2. Order'
  BY DEF AccountAttempt, IInv, TypeOK, Order, LedgerFrontier, Settling, world
<1>3. Control'
  BY DEF AccountAttempt, IInv, TypeOK, Control, Settling, world
<1>4. Money'
  BY DEF AccountAttempt, IInv, TypeOK, Control, Money, InFlight, Window, world
<1> QED
  BY <1>1, <1>2, <1>3, <1>4 DEF IInv

\* The ledger takes the terminal and gives up the window.
LEMMA GuardSettleStep == IInv /\ SettleJudgment => IInv'
<1> SUFFICES ASSUME IInv, SettleJudgment PROVE IInv'
  OBVIOUS
<1> USE ConstantTypes DEF Goto
<1>1. /\ ledger.pending \in PoolPairs /\ ledger.pending # None
      /\ ledger.pending = ledger.logical + 1
      /\ runJournal[ledger.pending] = "terminal"
      /\ callsMade[ledger.pending] = requests[ledger.pending]
  BY DEF SettleJudgment, IInv, TypeOK, Control, Settling, Order, Money, None
<1>2. TypeOK'
  BY <1>1 DEF SettleJudgment, SettledLedger, IInv, TypeOK, world
<1>3. Order'
  BY <1>1 DEF SettleJudgment, SettledLedger, IInv, TypeOK, Order, LedgerFrontier, Settling, world
<1>4. Control'
  BY <1>1 DEF SettleJudgment, SettledLedger, IInv, TypeOK, Control, Settling, world
<1>5. Money'
  BY <1>1 DEF SettleJudgment, SettledLedger, IInv, TypeOK, Control, Money, InFlight, Window, world
<1> QED
  BY <1>2, <1>3, <1>4, <1>5 DEF IInv

\* The source is closed over what the ledger accounts for.
LEMMA PublishStep == IInv /\ Publish => IInv'
<1> SUFFICES ASSUME IInv, Publish PROVE IInv'
  OBVIOUS
<1> USE ConstantTypes DEF Stop
<1>1. ledger.pending = None /\ ledger.logical = Logical /\ workspace
  BY DEF Publish, IInv, Control
<1>2. TypeOK'
  BY DEF Publish, ProviderAccounting, IInv, TypeOK, world
<1>3. Order'
  BY DEF Publish, IInv, Order, LedgerFrontier, Settling, world
<1>4. Control'
  BY <1>1 DEF Publish, IInv, Control, Settling, world
<1>5. Money'
  BY <1>1 DEF Publish, ProviderAccounting, IInv, TypeOK, Money, InFlight, Window, world
<1> QED
  BY <1>2, <1>3, <1>4, <1>5 DEF IInv

\* Nothing happens.
LEMMA StutterStep == IInv /\ UNCHANGED guardVars => IInv'
BY DEF guardVars, disk, process, world, IInv, TypeOK, Order, LedgerFrontier, Settling, Control, Money,
   InFlight, Window

\* Every step of the run, and a stutter, keeps the invariant.
LEMMA NextInvariant == IInv /\ [GuardNext]_guardVars => IInv'
<1> SUFFICES ASSUME IInv, [GuardNext]_guardVars PROVE IInv'
  OBVIOUS
<1>1. CASE \/ Launch \/ Resume \/ OpenExisting \/ WriteIdentity \/ Initialize
           \/ StopAtCap \/ MarkReserved \/ LoseAnswer \/ RefuseAnswer
           \/ WriteRunning \/ MarkInterrupted \/ ReadyToClose \/ Stage
           \/ FailClosure \/ Kill
  BY <1>1, ControlStep
<1>2. CASE Reconcile      BY <1>2, ReconcileStep
<1>3. CASE Before         BY <1>3, BeforeStep
<1>4. CASE StartPair      BY <1>4, StartStep
<1>5. CASE CallAdapter           BY <1>5, GuardCallStep
<1>6. CASE RegisterTerminal BY <1>6, RegisterStep
<1>7. CASE AccountAttempt BY <1>7, AccountStep
<1>8. CASE SettleJudgment BY <1>8, GuardSettleStep
<1>9. CASE Publish        BY <1>9, PublishStep
<1>10. CASE UNCHANGED guardVars BY <1>10, StutterStep
<1> QED
  BY <1>1, <1>2, <1>3, <1>4, <1>5, <1>6, <1>7, <1>8, <1>9, <1>10 DEF GuardNext, Step

-----------------------------------------------------------------------------
\* The inductive invariant: the typing, the order of the schedule, the process's
\* place and the accounts, of which the properties below are a part.
THEOREM InvariantHolds == GuardSpec => []IInv
<1>1. GuardInit => IInv
  BY InitInvariant
<1>2. IInv /\ [GuardNext]_guardVars => IInv'
  BY NextInvariant
<1> QED
  BY <1>1, <1>2, PTL DEF GuardSpec

\* Every call made is in the ledger or in the one reserved window, both under the
\* cap, and a closed source has paid for exactly the calls that were made.
THEOREM LedgerCovers == GuardSpec => []LedgerCoversCalls
<1>1. IInv => LedgerCoversCalls
  <2> SUFFICES ASSUME IInv PROVE LedgerCoversCalls
    OBVIOUS
  <2>1. total <= ledger.physical + Window
    BY ConstantTypes DEF IInv, TypeOK, Money, InFlight, Window, None
  <2> QED
    BY <2>1 DEF IInv, Money, LedgerCoversCalls
<1> QED
  BY <1>1, InvariantHolds, PTL

\* At most one pair is between its start and its terminal.
OneInFlight ==
  \A p, q \in PoolPairs : runJournal[p] = "started" /\ runJournal[q] = "started" => p = q

\* Over any kills and resumes at most one pair is between its start and its terminal in
\* the journal: what _replay_workspace names as inflight_unknown.
THEOREM OnePairInFlight == GuardSpec => []OneInFlight
<1>1. IInv => OneInFlight
  BY DEF IInv, Order, OneInFlight
<1> QED
  BY <1>1, InvariantHolds, PTL

-----------------------------------------------------------------------------
\* The refinement: what the promise calls the state of a pair.
Mapped ==
  <<[p \in PoolPairs |-> CASE runJournal[p] = "none"    -> "open"
                       [] runJournal[p] = "started" -> "dispatched"
                       [] OTHER                  -> "settled"],
    [p \in PoolPairs |-> IF runJournal[p] = "terminal"
                       THEN [kind |-> "terminal", charge |-> requests[p]]
                       ELSE [kind |-> "none", charge |-> 0]],
    callsMade>>

\* The run begins where the promise does.
LEMMA PromiseInit == GuardInit => GuardPromise!Init
BY DEF GuardInit, GuardPromise!Init, GuardPromise!Unsettled

\* Starting a pair dispatches it.
LEMMA PromiseDispatch ==
  ASSUME IInv, StartPair
  PROVE  \E p \in PoolPairs : GuardPromise!Dispatch(p)
<1>0. PICK p \in PoolPairs : p = ledger.pending
  BY DEF StartPair, CallAdapter, RegisterTerminal, IInv, TypeOK, Control, None
<1> SUFFICES GuardPromise!Dispatch(p)
  BY Zenon
<1>1. p \in PoolPairs /\ runJournal[p] = "none"
  BY <1>0 DEF StartPair, IInv, TypeOK, Control, None
<1>2. UNCHANGED <<requests, callsMade>> /\ runJournal' = [runJournal EXCEPT ![p] = "started"]
  BY <1>0 DEF StartPair, world
<1> QED
  BY <1>0, <1>1, <1>2 DEF IInv, TypeOK, GuardPromise!Dispatch

\* A physical attempt is a call of a dispatched pair.
LEMMA PromiseCall ==
  ASSUME IInv, CallAdapter
  PROVE  \E p \in PoolPairs : GuardPromise!Call(p)
<1>0. PICK p \in PoolPairs : p = ledger.pending
  BY DEF StartPair, CallAdapter, RegisterTerminal, IInv, TypeOK, Control, None
<1> SUFFICES GuardPromise!Call(p)
  BY Zenon
<1>1. p \in PoolPairs /\ runJournal[p] = "started"
  BY <1>0 DEF CallAdapter, IInv, TypeOK, Control, None
<1>2. UNCHANGED <<runJournal, requests>> /\ callsMade' = [callsMade EXCEPT ![p] = @ + 1]
  BY <1>0 DEF CallAdapter, disk
<1> QED
  BY <1>0, <1>1, <1>2 DEF IInv, TypeOK, GuardPromise!Call

\* A terminal settles its pair for the calls it has had.
LEMMA PromiseSettle ==
  ASSUME IInv, RegisterTerminal
  PROVE  \E p \in PoolPairs : GuardPromise!Settle(p)
<1>0. PICK p \in PoolPairs : p = ledger.pending
  BY DEF StartPair, CallAdapter, RegisterTerminal, IInv, TypeOK, Control, None
<1> SUFFICES GuardPromise!Settle(p)
  BY Zenon
<1>1. /\ p \in PoolPairs /\ runJournal[p] = "started"
      /\ callsMade[p] = tries /\ tries \in 0 .. AttemptsPerPair
  BY <1>0 DEF RegisterTerminal, IInv, TypeOK, Control, None
<1>2. /\ UNCHANGED callsMade
      /\ runJournal' = [runJournal EXCEPT ![p] = "terminal"]
      /\ requests' = [requests EXCEPT ![p] = tries]
  BY <1>0 DEF RegisterTerminal, world
<1>3. tries \in GuardPromise!Covered(callsMade[p]) .. AttemptsPerPair
  BY <1>0, <1>1, ConstantTypes DEF GuardPromise!Covered
<1>4. [q \in PoolPairs |-> CASE runJournal'[q] = "none"    -> "open"
                         [] runJournal'[q] = "started" -> "dispatched"
                         [] OTHER                   -> "settled"]
      = [[q \in PoolPairs |-> CASE runJournal[q] = "none"    -> "open"
                           [] runJournal[q] = "started" -> "dispatched"
                           [] OTHER                  -> "settled"]
           EXCEPT ![p] = "settled"]
  BY <1>1, <1>2 DEF IInv, TypeOK
<1>5. [q \in PoolPairs |-> IF runJournal'[q] = "terminal"
                         THEN [kind |-> "terminal", charge |-> requests'[q]]
                         ELSE [kind |-> "none", charge |-> 0]]
      = [[q \in PoolPairs |-> IF runJournal[q] = "terminal"
                           THEN [kind |-> "terminal", charge |-> requests[q]]
                           ELSE [kind |-> "none", charge |-> 0]]
           EXCEPT ![p] = [kind |-> "terminal", charge |-> tries]]
  BY <1>1, <1>2 DEF IInv, TypeOK
<1> QED
  BY <1>0, <1>1, <1>2, <1>3, <1>4, <1>5 DEF GuardPromise!Settle, GuardPromise!Kinds

\* Every other step stutters.
LEMMA PromiseStep == IInv /\ [GuardNext]_guardVars => [GuardPromise!Next]_Mapped
<1> SUFFICES ASSUME IInv, [GuardNext]_guardVars PROVE GuardPromise!Next \/ UNCHANGED Mapped
  BY DEF GuardPromise!Next
<1>1. CASE StartPair
  BY <1>1, PromiseDispatch, Zenon DEF GuardPromise!Next
<1>2. CASE CallAdapter
  BY <1>2, PromiseCall, Zenon DEF GuardPromise!Next
<1>3. CASE RegisterTerminal
  BY <1>3, PromiseSettle, Zenon DEF GuardPromise!Next
<1>4. CASE UNCHANGED <<runJournal, requests, callsMade>>
  BY <1>4 DEF Mapped
<1>5. StartPair \/ CallAdapter \/ RegisterTerminal \/ UNCHANGED <<runJournal, requests, callsMade>>
  BY DEF GuardNext, Step, Launch, Resume, OpenExisting, WriteIdentity, Initialize, Reconcile,
     Before, StopAtCap, MarkReserved, LoseAnswer, RefuseAnswer, AccountAttempt, SettleJudgment,
     WriteRunning, MarkInterrupted, ReadyToClose, Stage, Publish, FailClosure, Kill, guardVars, disk,
     process, world
<1> QED
  BY <1>1, <1>2, <1>3, <1>4, <1>5

\* The formal run implements the settlement promise: a pair is called only while
\* it is started, and its terminal charges exactly the calls it has had.
THEOREM SettlementKept == GuardSpec => GuardKeepsPromise
<1>1. GuardInit => GuardPromise!Init
  BY PromiseInit
<1>2. IInv /\ [GuardNext]_guardVars => [GuardPromise!Next]_(GuardPromise!vars)
  BY PromiseStep DEF Mapped, GuardPromise!vars
<1> QED
  BY <1>1, <1>2, InvariantHolds, PTL DEF GuardSpec, GuardKeepsPromise, GuardPromise!Spec

=============================================================================
