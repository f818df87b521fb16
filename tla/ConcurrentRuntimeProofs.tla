---------------------- MODULE ConcurrentRuntimeProofs ----------------------
(***************************************************************************)
(* Theorems about ConcurrentRuntime, for every cohort, capacity, horizon,  *)
(* terminal contract and every way of crashing.                            *)
(***************************************************************************)
EXTENDS ConcurrentRuntime, TLAPS

\* The feedback of the batches committed by the first n - 1 records.
Feedback(n) == UNION {c.committed : c \in CommitsBefore(n)}
Times(n)    == {c.t : c \in CommitsBefore(n)}

\* A kernel, or a replay's, whose counters fit together.
WellFormed(s) ==
  /\ Len(s.batch.results) <= Len(s.batch.plan)
  /\ Len(s.batch.terms) <= Len(Variants)
  /\ s.next = Len(s.refs)
  /\ s.open => s.next < Horizon /\ s.batch.frozen = s.engaged

Running    == {"run", "planned", "judged", "prepared", "committed"}
Finalizing == {"finalize", "staging", "staged", "rename", "publish"}

\* The process works on a run: its kernel reflects the journal.
Alive ==
  \/ pc \in Running \cup Finalizing \cup {"identified"}
  \/ pc = "replay" /\ goal = "finalize"

\* Where the process is, and what that says of kernel, replay and disk.
Control ==
  /\ workspace = "absent" => pc = "down" /\ journal = <<>> /\ k = EmptyState
  /\ pc \in {"locked", "identified"} => journal = <<>> /\ k = EmptyState
  /\ pc \notin {"replay", "restore"} => rp = EmptyState /\ cur = 0
  /\ pc \in {"replay", "restore"} => goal \in {"resume", "finalize"}
  /\ pc = "restore" => cur = Len(journal)
  /\ pc = "planned" => ~k.open /\ k.next < Horizon
  /\ pc = "planned" => \A d \in snapshots : d.t = k.next => d.frozen = k.engaged
  /\ pc = "judged" => /\ k.open /\ ~AllClosed(k) /\ ~AllTerminal(k)
                      /\ judged \in Outcomes
  /\ pc \in {"prepared", "committed"} => k.open /\ AllClosed(k) /\ Len(spool) = k.next
  /\ pc = "replay" /\ goal = "finalize" => ~k.open /\ k.next = Horizon
  /\ pc \in Finalizing => ~k.open /\ k.next = Horizon /\ Len(spool) = Horizon
  /\ pc \in {"staging", "staged", "rename"} => output = "absent"
  /\ pc \in {"staged", "rename"} => staging \in {"formal_run", "validation_run"}
  /\ pc = "publish" => output # "absent"

\* What kernel and replay know of the journal: the feedback and the time steps of
\* the commits they have seen.
Knowledge ==
  /\ Alive /\ pc # "committed" =>
       /\ k.engaged = Feedback(Len(journal) + 1)
       /\ Times(Len(journal) + 1) = 0 .. k.next - 1
  /\ pc = "committed" =>
       /\ k.engaged \cup k.batch.positives = Feedback(Len(journal) + 1)
       /\ Times(Len(journal) + 1) = 0 .. k.next
  /\ pc \in {"replay", "restore"} =>
       /\ rp.engaged = Feedback(cur + 1)
       /\ Times(cur + 1) = 0 .. rp.next - 1

Outputs ==
  /\ PublishedIsComplete
  /\ HasPublished => output # "absent"

Typed == TypeOK /\ WellFormed(k) /\ WellFormed(rp)

Facts == Control /\ Knowledge /\ FeedbackBarrier /\ Outputs

Inv == Typed /\ Facts

-----------------------------------------------------------------------------
\* Types.

\* The empty states and chunks are well typed and their counters fit.
LEMMA EmptyTyped ==
  /\ EmptyState \in State /\ WellFormed(EmptyState)
  /\ EmptyChunk \in Chunk
<1> USE HorizonAssumption
<1>1. EmptyBatch \in Batch
  BY VariantsAssumption DEF EmptyBatch, Opened, Batch
<1>2. EmptyState \in State
  BY <1>1 DEF EmptyState, State, Status
<1>3. WellFormed(EmptyState)
  BY VariantsAssumption DEF EmptyState, EmptyBatch, Opened, WellFormed
<1>4. EmptyChunk \in Chunk
  BY DEF EmptyChunk, Chunk
<1> QED BY <1>2, <1>3, <1>4

\* An append that completes, or one that the process dies in, keeps the types.
LEMMA PersistTyped ==
  ASSUME Typed, NEW rec \in Record, NEW s \in State, WellFormed(s), NEW at \in Points,
         Persist(rec, s, at)
  PROVE  Typed'
<1> USE DEF Typed
<1>1. journal' = journal \/ journal' = Append(journal, rec)
  BY DEF Persist
<1>a. journal' \in Seq(Record) /\ Len(journal') >= Len(journal)
  BY <1>1 DEF TypeOK
<1>b. cur' \in 0 .. Len(journal')
  BY <1>a DEF Persist, TypeOK, Die, Forget, replay
<1>2. k' \in State /\ rp' \in State
  BY EmptyTyped DEF Persist, TypeOK, Die, Forget, replay
<1>3. text' \in {"whole", "bare", "corrupt"}
  BY DEF Persist, LineAppended
<1>4. pc' \in Points /\ judged' \in Outcomes \cup {"none"}
  BY DEF Persist, Die, Forget, Points, AtRest
<1>5. goal' \in {"none", "resume", "finalize"} /\ live' \subseteq VariantNames
  BY DEF Persist, TypeOK, Die, Forget, replay
<1>6. crashes' \in 0 .. MaxCrashes
  BY CrashAssumption DEF Persist, TypeOK, Die
<1>7. WellFormed(k') /\ WellFormed(rp')
  BY EmptyTyped DEF Persist, Die, Forget, replay
<1> QED BY <1>a, <1>b, <1>2, <1>3, <1>4, <1>5, <1>6, <1>7 DEF Persist, TypeOK, WellFormed

\* The pair an open batch is at is a pair.
LEMMA CurrentPairTyped ==
  ASSUME NEW s \in State, WellFormed(s), ~AllClosed(s)
  PROVE  CurrentPair(s) \in Pairs /\ User(CurrentPair(s)) \in Users
<1>1. Len(s.batch.results) + 1 \in 1 .. Len(s.batch.plan)
  BY DEF State, Batch, WellFormed, AllClosed
<1>2. CurrentPair(s) \in Pairs
  BY <1>1 DEF State, Batch, CurrentPair
<1> QED BY <1>2 DEF Pairs, User

\* The terminals of a pair, complete, are an answer.
LEMMA AnswerTyped ==
  ASSUME NEW s \in State, AllTerminal(s)
  PROVE  s.batch.terms \in Answers /\ CampaignAnswer(s) \in Outcomes
<1>1. s.batch.terms \in [1 .. Len(Variants) -> Outcomes]
  BY DEF State, Batch, AllTerminal
<1> QED BY <1>1, VariantsAssumption DEF Answers, CampaignAnswer

\* Closing a pair keeps types and counters, and what was committed before.
LEMMA RecordedTyped ==
  ASSUME NEW s \in State, WellFormed(s), ~AllClosed(s), AllTerminal(s)
  PROVE  /\ PairRecorded(s) \in State /\ WellFormed(PairRecorded(s))
         /\ PairRecorded(s).engaged = s.engaged /\ PairRecorded(s).next = s.next
<1> DEFINE results   == Append(s.batch.results, s.batch.terms)
           terms     == <<>>
           positives == IF CampaignAnswer(s) = "positive"
                        THEN s.batch.positives \cup {User(CurrentPair(s))}
                        ELSE s.batch.positives
<1>1. s.batch \in Batch
  BY DEF State
<1>2. positives \in SUBSET Users
  BY <1>1, CurrentPairTyped DEF Batch
<1>3. /\ results \in Seq(Answers)
      /\ Len(results) <= Len(s.batch.plan)
  BY <1>1, AnswerTyped DEF Batch, WellFormed, AllClosed
<1>4. terms \in Seq(Outcomes) /\ Len(terms) = 0 /\ Len(Variants) \in Nat
  BY VariantsAssumption
<1>5. Recorded(s) = [frozen  |-> s.batch.frozen, plan  |-> s.batch.plan,
                     results |-> results, started |-> 0, terms |-> terms,
                     positives |-> positives]
  BY DEF Recorded
<1> HIDE DEF results, terms, positives
<1>6. Recorded(s) \in Batch
  BY <1>1, <1>2, <1>3, <1>4, <1>5 DEF Batch
<1>7. PairRecorded(s) \in State
  <2>1. Counted(s) \in State
    BY DEF Counted, State
  <2> QED BY <1>6, <2>1 DEF PairRecorded, State
<1>8. /\ PairRecorded(s).batch = Recorded(s) /\ PairRecorded(s).open = s.open
      /\ PairRecorded(s).next = s.next /\ PairRecorded(s).refs = s.refs
      /\ PairRecorded(s).engaged = s.engaged
  BY DEF PairRecorded, Counted, State
<1>9. WellFormed(PairRecorded(s))
  BY <1>3, <1>4, <1>5, <1>8 DEF WellFormed
<1> QED BY <1>7, <1>8, <1>9

\* The variant an open pair is at is one of the contract's.
LEMMA VariantIndexed ==
  ASSUME NEW n \in 0 .. Len(Variants), n # Len(Variants)
  PROVE  Variants[n + 1] \in VariantNames
<1>1. Len(Variants) \in Nat
  BY VariantsAssumption
<1> QED BY <1>1 DEF VariantNames

\* An open pair has no more terminals than the contract has variants.
LEMMA TermsFit ==
  ASSUME NEW s \in State, WellFormed(s)
  PROVE  Len(s.batch.terms) \in 0 .. Len(Variants)
<1>1. Len(s.batch.terms) \in Nat
  BY DEF State, Batch
<1>2. Len(s.batch.terms) <= Len(Variants) /\ Len(Variants) \in Nat
  BY VariantsAssumption DEF WellFormed
<1> QED BY <1>1, <1>2

\* What a record changes, one lemma per kind of record.
LEMMA CountedTyped ==
  ASSUME NEW s \in State, WellFormed(s)
  PROVE  /\ Counted(s) \in State /\ WellFormed(Counted(s))
         /\ Counted(s).engaged = s.engaged /\ Counted(s).next = s.next
         /\ Counted(s).open = s.open /\ Counted(s).refs = s.refs
         /\ Counted(s).batch = s.batch
<1>1. /\ Counted(s) \in State
      /\ Counted(s).engaged = s.engaged /\ Counted(s).next = s.next
      /\ Counted(s).open = s.open /\ Counted(s).refs = s.refs
      /\ Counted(s).batch = s.batch
  BY DEF Counted, State
<1>2. WellFormed(Counted(s))
  <2> HIDE DEF Counted
  <2> QED BY <1>1, Zenon DEF WellFormed
<1> QED BY <1>1, <1>2

LEMMA PlanTyped ==
  ASSUME NEW s \in State, WellFormed(s), NEW doc \in Document, doc.t = s.next,
         doc.frozen = s.engaged
  PROVE  /\ PlanTaken(s, doc) \in State /\ WellFormed(PlanTaken(s, doc))
         /\ PlanTaken(s, doc).engaged = s.engaged /\ PlanTaken(s, doc).next = s.next
<1> DEFINE c == Counted(s)
           b == Opened(doc.frozen, doc.plan)
<1>1. c \in State /\ c.engaged = s.engaged /\ c.next = s.next /\ c.refs = s.refs
  BY CountedTyped
<1>2. b \in Batch /\ b.frozen = doc.frozen /\ Len(b.results) <= Len(b.plan)
      /\ Len(b.terms) <= Len(Variants)
  BY VariantsAssumption DEF Opened, Batch, Document
<1>3. Delivered(doc.plan) \subseteq Pairs
  BY DEF Document, Delivered
<1>4. PlanTaken(s, doc) = [c EXCEPT !.open = TRUE, !.exposed = @ \cup Delivered(doc.plan),
                                    !.batch = b]
  BY DEF PlanTaken
<1> HIDE DEF c, b
<1>5. PlanTaken(s, doc) \in State
  BY <1>1, <1>2, <1>3, <1>4 DEF State
<1>6. /\ PlanTaken(s, doc).batch = b /\ PlanTaken(s, doc).next = s.next
      /\ PlanTaken(s, doc).engaged = s.engaged /\ PlanTaken(s, doc).refs = s.refs
  BY <1>1, <1>4 DEF State
<1>7. s.next < Horizon
  BY HorizonAssumption DEF Document, State
<1> QED BY <1>2, <1>5, <1>6, <1>7 DEF WellFormed

LEMMA VariantTyped ==
  ASSUME NEW s \in State, WellFormed(s), ~AllStarted(s)
  PROVE  /\ VariantCounted(s) \in State /\ WellFormed(VariantCounted(s))
         /\ VariantCounted(s).engaged = s.engaged /\ VariantCounted(s).next = s.next
<1> DEFINE c == Counted(s)
           b == [s.batch EXCEPT !.started = @ + 1]
<1>1. c \in State /\ c.engaged = s.engaged /\ c.next = s.next /\ c.refs = s.refs
      /\ c.batch = s.batch /\ c.open = s.open
  BY CountedTyped
<1>2. b \in Batch /\ b.frozen = s.batch.frozen /\ b.results = s.batch.results
      /\ b.plan = s.batch.plan /\ b.terms = s.batch.terms
  <2>1. s.batch \in Batch /\ s.batch.started + 1 \in 0 .. Len(Variants)
    BY VariantsAssumption DEF State, Batch, AllStarted
  <2> QED BY <2>1 DEF Batch
<1>3. VariantCounted(s) = [c EXCEPT !.batch = b]
  BY DEF VariantCounted
<1> HIDE DEF c, b
<1>4. /\ VariantCounted(s) \in State /\ VariantCounted(s).batch = b
      /\ VariantCounted(s).next = s.next /\ VariantCounted(s).engaged = s.engaged
      /\ VariantCounted(s).refs = s.refs /\ VariantCounted(s).open = s.open
  BY <1>1, <1>2, <1>3 DEF State
<1> QED BY <1>2, <1>4 DEF WellFormed

LEMMA TerminalTyped ==
  ASSUME NEW s \in State, WellFormed(s), ~AllTerminal(s), NEW o \in Outcomes
  PROVE  /\ TerminalTaken(s, o) \in State /\ WellFormed(TerminalTaken(s, o))
         /\ TerminalTaken(s, o).engaged = s.engaged /\ TerminalTaken(s, o).next = s.next
<1> DEFINE c == Counted(s)
           terms == Append(s.batch.terms, o)
           b == [s.batch EXCEPT !.terms = terms]
<1>1. c \in State /\ c.engaged = s.engaged /\ c.next = s.next /\ c.refs = s.refs
      /\ c.batch = s.batch /\ c.open = s.open
  BY CountedTyped
<1>2. terms \in Seq(Outcomes) /\ Len(terms) <= Len(Variants)
  <2> HIDE DEF c
  <2> QED BY <1>1, VariantsAssumption DEF State, Batch, AllTerminal, WellFormed
<1>3. TerminalTaken(s, o) = [c EXCEPT !.batch = b]
  BY DEF TerminalTaken
<1> HIDE DEF c, terms
<1>4. b \in Batch /\ b.frozen = s.batch.frozen /\ b.results = s.batch.results
      /\ b.plan = s.batch.plan /\ b.terms = terms
  BY <1>1, <1>2 DEF State, Batch
<1> HIDE DEF b
<1>5. /\ TerminalTaken(s, o) \in State /\ TerminalTaken(s, o).batch = b
      /\ TerminalTaken(s, o).next = s.next /\ TerminalTaken(s, o).engaged = s.engaged
      /\ TerminalTaken(s, o).refs = s.refs /\ TerminalTaken(s, o).open = s.open
  BY <1>1, <1>3, <1>4 DEF State
<1> QED BY <1>2, <1>4, <1>5 DEF WellFormed

LEMMA ChunkTyped ==
  ASSUME NEW s \in State, WellFormed(s), s.open
  PROVE  /\ ChunkOf(s) \in Chunk /\ ChunkOf(s).t = s.next
         /\ ChunkOf(s).frozen = s.engaged /\ ChunkOf(s).committed = s.batch.positives
<1>1. s.batch \in Batch /\ s.next \in 0 .. Horizon /\ s.next < Horizon
      /\ s.batch.frozen = s.engaged
  BY DEF State, WellFormed
<1>2. s.next \in 0 .. Horizon - 1
  BY <1>1, HorizonAssumption
<1>3. /\ s.batch.frozen \in SUBSET Users /\ s.batch.plan \in Seq(Pairs)
      /\ s.batch.results \in Seq(Answers) /\ s.batch.positives \in SUBSET Users
  BY <1>1 DEF Batch
<1> QED BY <1>1, <1>2, <1>3 DEF ChunkOf, Chunk

LEMMA CommitTyped ==
  ASSUME NEW s \in State, WellFormed(s), NEW c \in Chunk, c.t = s.next
  PROVE  /\ CommitTaken(s, c) \in State /\ WellFormed(CommitTaken(s, c))
         /\ CommitTaken(s, c).engaged = s.engaged \cup c.committed
         /\ CommitTaken(s, c).next = s.next + 1
         /\ ~CommitTaken(s, c).open
<1> DEFINE refs == Append(s.refs, c)
<1>1. EmptyBatch \in Batch /\ Len(EmptyBatch.results) <= Len(EmptyBatch.plan)
      /\ Len(EmptyBatch.terms) <= Len(Variants)
  BY VariantsAssumption DEF EmptyBatch, Opened, Batch
<1>2. refs \in Seq(Chunk) /\ Len(refs) = Len(s.refs) + 1
  BY DEF State
<1>3. Delivered(c.plan) \subseteq Pairs /\ c.committed \subseteq Users
      /\ c.t + 1 \in 0 .. Horizon
  BY HorizonAssumption DEF Chunk, Delivered
<1>4. CommitTaken(s, c) = [s EXCEPT !.next    = c.t + 1,
                                    !.engaged = @ \cup c.committed,
                                    !.exposed = @ \cup Delivered(c.plan),
                                    !.refs    = refs,
                                    !.open    = FALSE,
                                    !.batch   = EmptyBatch]
  BY DEF CommitTaken
<1> HIDE DEF refs
<1>a. /\ c.t + 1 \in 0 .. Horizon /\ s.engaged \cup c.committed \subseteq Users
      /\ s.exposed \cup Delivered(c.plan) \subseteq Pairs
  BY <1>3 DEF State
<1>b. CommitTaken(s, c) =
        [records |-> s.records, next |-> c.t + 1, engaged |-> s.engaged \cup c.committed,
         exposed |-> s.exposed \cup Delivered(c.plan), refs |-> refs, open |-> FALSE,
         batch |-> EmptyBatch, finalized |-> s.finalized, published |-> s.published,
         source |-> s.source]
  BY <1>4 DEF State
<1>c. s.records \in Nat /\ s.finalized \in BOOLEAN /\ s.published \in BOOLEAN
      /\ s.source \in Status
  BY DEF State
<1>5. CommitTaken(s, c) \in State
  BY <1>1, <1>2, <1>a, <1>b, <1>c DEF State
<1>6. /\ CommitTaken(s, c).batch = EmptyBatch /\ CommitTaken(s, c).next = s.next + 1
      /\ CommitTaken(s, c).engaged = s.engaged \cup c.committed
      /\ CommitTaken(s, c).refs = refs /\ CommitTaken(s, c).open = FALSE
  BY <1>4 DEF State
<1> QED BY <1>1, <1>2, <1>5, <1>6 DEF WellFormed

LEMMA FinalTyped ==
  ASSUME NEW s \in State, WellFormed(s), NEW source \in Status
  PROVE  /\ Finalized(s, source) \in State /\ WellFormed(Finalized(s, source))
         /\ Finalized(s, source).engaged = s.engaged /\ Finalized(s, source).next = s.next
         /\ Finalized(s, source).open = s.open
         /\ Published(s, source) \in State /\ WellFormed(Published(s, source))
         /\ Published(s, source).engaged = s.engaged /\ Published(s, source).next = s.next
<1> DEFINE c == Counted(s)
<1>1. c \in State /\ c.engaged = s.engaged /\ c.next = s.next /\ c.refs = s.refs
      /\ c.batch = s.batch /\ c.open = s.open /\ WellFormed(c)
  BY CountedTyped
<1>2. Finalized(s, source) = [c EXCEPT !.finalized = TRUE, !.source = source]
  BY DEF Finalized
<1> HIDE DEF c
<1> DEFINE f == Finalized(s, source)
<1>3. f \in State /\ f.engaged = s.engaged /\ f.next = s.next /\ f.refs = s.refs
      /\ f.batch = s.batch /\ f.open = s.open
  BY <1>1, <1>2 DEF State
<1>4. WellFormed(f)
  BY <1>3 DEF WellFormed
<1>5. Published(s, source) = [f EXCEPT !.published = TRUE]
  BY DEF Published
<1> HIDE DEF f
<1> DEFINE p == Published(s, source)
<1>6. p \in State /\ p.engaged = s.engaged /\ p.next = s.next /\ p.refs = s.refs
      /\ p.batch = s.batch /\ p.open = s.open
  BY <1>3, <1>5 DEF State
<1>7. WellFormed(p)
  BY <1>6 DEF WellFormed
<1> QED BY <1>3, <1>4, <1>6, <1>7 DEF f

Types == {"run_started", "batch_plan", "variant_started", "variant_terminal",
          "pair_closed", "batch_committed", "run_finalized", "run_published"}

\* What a record of each kind carries.
LEMMA RecordFields ==
  ASSUME NEW rec \in Record
  PROVE  /\ rec.type \in Types
         /\ rec.type = "batch_plan" => rec.doc \in Document
         /\ rec.type = "variant_terminal" => rec.outcome \in Outcomes
         /\ rec.type = "batch_committed" => rec.chunk \in Chunk
         /\ rec.type \in {"run_finalized", "run_published"} => rec.source \in Status
BY DEF Record, Types

\* A record the replay takes keeps types and counters; only a commit changes the
\* feedback and the number of batches.
LEMMA ApplyTyped ==
  ASSUME NEW s \in State, WellFormed(s), NEW rec \in Record, Accepts(s, rec)
  PROVE  /\ Apply(s, rec) \in State /\ WellFormed(Apply(s, rec))
         /\ rec.type # "batch_committed" =>
              Apply(s, rec).engaged = s.engaged /\ Apply(s, rec).next = s.next
         /\ rec.type = "batch_committed" =>
              /\ Apply(s, rec).engaged = s.engaged \cup rec.chunk.committed
              /\ Apply(s, rec).next = s.next + 1
<1>1. CASE rec.type = "run_started"
  BY <1>1, CountedTyped DEF Apply
<1>2. CASE rec.type = "batch_plan"
  <2>1. rec.doc \in Document /\ rec.doc.t = s.next /\ rec.doc.frozen = s.engaged
    BY <1>2, RecordFields DEF Accepts
  <2>2. Apply(s, rec) = PlanTaken(s, rec.doc)
    BY <1>2 DEF Apply
  <2> QED BY <1>2, <2>1, <2>2, PlanTyped
<1>3. CASE rec.type = "variant_started"
  BY <1>3, VariantTyped DEF Apply, Accepts
<1>4. CASE rec.type = "variant_terminal"
  <2>1. rec.outcome \in Outcomes /\ ~AllTerminal(s)
    BY <1>4, RecordFields DEF Accepts
  <2> QED BY <1>4, <2>1, TerminalTyped DEF Apply
<1>5. CASE rec.type = "pair_closed"
  BY <1>5, RecordedTyped DEF Apply, Accepts
<1>6. CASE rec.type = "batch_committed"
  <2>1. rec.chunk \in Chunk /\ rec.chunk.t = s.next
    BY <1>6, RecordFields DEF Accepts
  <2> DEFINE c == Counted(s)
  <2>2. c \in State /\ WellFormed(c) /\ c.engaged = s.engaged /\ c.next = s.next
    BY CountedTyped
  <2>3. Apply(s, rec) = CommitTaken(c, rec.chunk)
    BY <1>6 DEF Apply
  <2> HIDE DEF c
  <2> QED BY <1>6, <2>1, <2>2, <2>3, CommitTyped
<1>7. CASE rec.type = "run_finalized"
  BY <1>7, RecordFields, FinalTyped DEF Apply
<1>8. CASE rec.type = "run_published"
  BY <1>8, RecordFields, FinalTyped DEF Apply
<1> QED BY <1>1, <1>2, <1>3, <1>4, <1>5, <1>6, <1>7, <1>8, RecordFields DEF Types

-----------------------------------------------------------------------------
\* Every step keeps the types.

\* A process that is gone keeps the types of what it left.
LEMMA ForgetTyped ==
  ASSUME Typed, Forget, UNCHANGED <<workspace, snapshots, journal, text, spool, staging, output>>,
         pending' \in [state : {"none", "torn", "whole"}, chunk : Chunk],
         pc' \in Points, crashes' \in 0 .. MaxCrashes
  PROVE  Typed'
<1>1. k' \in State /\ rp' \in State /\ WellFormed(k') /\ WellFormed(rp')
  BY EmptyTyped DEF Forget
<1>2. cur' \in 0 .. Len(journal')
  BY DEF Typed, TypeOK, Forget
<1>3. /\ goal' \in {"none", "resume", "finalize"}
      /\ judged' \in Outcomes \cup {"none"}
      /\ live' \subseteq VariantNames
  BY DEF Forget
<1>4. TypeOK'
  BY <1>1, <1>2, <1>3 DEF Typed, TypeOK
<1> QED BY <1>1, <1>4 DEF Typed

LEMMA DieTyped ==
  ASSUME Typed, Die, UNCHANGED <<workspace, snapshots, journal, text, spool, staging, output>>,
         pending' \in [state : {"none", "torn", "whole"}, chunk : Chunk]
  PROVE  Typed'
<1>1. pc' \in Points
  BY DEF Die, Points, AtRest
<1>2. crashes' \in 0 .. MaxCrashes
  BY CrashAssumption DEF Typed, TypeOK, Die
<1> QED BY <1>1, <1>2, ForgetTyped DEF Die

LEMMA OpenTyped ==
  ASSUME Typed, Control, Open
  PROVE  Typed'
<1> USE DEF Typed
<1>1. CASE OpenNew
  BY <1>1 DEF OpenNew, Step, TypeOK, Points, replay, WellFormed
<1>2. CASE WriteIdentity
  BY <1>2 DEF WriteIdentity, Step, TypeOK, Points, replay, WellFormed
<1>3. CASE AppendRunStarted
  <2>1. RunStarted(k.records) \in Record
    BY DEF RunStarted, Record, TypeOK, State
  <2> QED BY <1>3, <2>1, CountedTyped, PersistTyped DEF AppendRunStarted, TypeOK, Points
<1>4. CASE Resume
  <2>1. k' \in State /\ WellFormed(k') /\ rp' = rp /\ WellFormed(rp')
    BY <1>4, EmptyTyped DEF Resume
  <2>2. pc' \in Points /\ goal' \in {"none", "resume", "finalize"} /\ live' \subseteq VariantNames
    BY <1>4 DEF Resume, TypeOK, Points, AtRest
  <2>3. TypeOK'
    BY <1>4, <2>1, <2>2 DEF Resume, TypeOK, disk
  <2> QED BY <2>1, <2>3
<1> QED BY <1>1, <1>2, <1>3, <1>4 DEF Open

LEMMA RestoreTyped ==
  ASSUME Typed, Control, Restore
  PROVE  Typed'
<1> USE DEF Typed
<1>1. CASE ReplayRecord
  <2>1. journal[cur + 1] \in Record /\ cur + 1 \in 0 .. Len(journal)
    BY <1>1 DEF ReplayRecord, TypeOK
  <2>2. rp' \in State /\ WellFormed(rp')
    BY <1>1, <2>1, ApplyTyped DEF ReplayRecord, TypeOK
  <2> QED BY <1>1, <2>1, <2>2 DEF ReplayRecord, TypeOK, disk, WellFormed
<1>2. CASE FinishReplay
  <2>1. /\ rp' \in State /\ WellFormed(rp') /\ cur' \in 0 .. Len(journal)
        /\ goal' \in {"none", "resume", "finalize"}
    BY <1>2, EmptyTyped DEF FinishReplay, TypeOK
  <2>2. pc' \in Points
    BY <1>2 DEF FinishReplay, Points, AtRest
  <2> QED BY <1>2, <2>1, <2>2 DEF FinishReplay, TypeOK, WellFormed, disk
<1>3. CASE RecoverPrepared
  <2>1. spool' \in Seq(Chunk) /\ pending' \in [state : {"none", "torn", "whole"}, chunk : Chunk]
    BY <1>3, EmptyTyped DEF RecoverPrepared, TypeOK, NoPending
  <2> QED BY <1>3, <2>1 DEF RecoverPrepared, TypeOK, WellFormed, replay
<1>4. CASE RestoreKernel
  <2>1. Restored(rp) \in State /\ WellFormed(Restored(rp))
    BY DEF Restored, TypeOK, State, WellFormed, Lifecycle
  <2>2. k' \in State /\ WellFormed(k') /\ rp' \in State /\ WellFormed(rp')
    BY <1>4, <2>1, EmptyTyped DEF RestoreKernel
  <2>3. cur' \in 0 .. Len(journal)
    BY <1>4 DEF RestoreKernel, TypeOK
  <2> QED BY <1>4, <2>2, <2>3 DEF RestoreKernel, TypeOK, Points, WellFormed, disk
<1> QED BY <1>1, <1>2, <1>3, <1>4 DEF Restore

LEMMA RunBatchTyped ==
  ASSUME Typed, Control, RunBatch
  PROVE  Typed'
<1> USE DEF Typed
<1>1. CASE WritePlan
  <2>1. PICK plan \in Plans(k.exposed) :
          snapshots' = snapshots \cup {[t |-> k.next, frozen |-> k.engaged, plan |-> plan]}
    BY <1>1 DEF WritePlan
  <2>2. plan \in Seq(Pairs)
    BY <2>1 DEF Plans
  <2>3. [t |-> k.next, frozen |-> k.engaged, plan |-> plan] \in Document
    BY <1>1, <2>2, HorizonAssumption DEF WritePlan, BatchDue, Document, TypeOK, State
  <2>4. k' = k /\ WellFormed(k') /\ rp' = rp /\ WellFormed(rp')
    BY <1>1 DEF WritePlan, replay
  <2>5. TypeOK'
    BY <1>1, <2>1, <2>3, <2>4 DEF WritePlan, Step, TypeOK, Points, replay
  <2> QED BY <2>4, <2>5
<1>2. CASE AppendPlan
  <2>1. PICK doc \in snapshots :
          doc.t = k.next /\ Persist(BatchPlan(k.records, doc), PlanTaken(k, doc), "run")
    BY <1>2 DEF AppendPlan
  <2>2. doc \in Document /\ doc.frozen = k.engaged
    BY <1>2, <2>1 DEF AppendPlan, TypeOK, Control
  <2>3. BatchPlan(k.records, doc) \in Record
    BY <2>2 DEF BatchPlan, Record, TypeOK, State
  <2>4. PlanTaken(k, doc) \in State /\ WellFormed(PlanTaken(k, doc))
    BY <2>1, <2>2, PlanTyped DEF TypeOK
  <2> QED BY <2>1, <2>3, <2>4, PersistTyped DEF Points
<1>3. CASE StartVariant
  <2>1. Variants[k.batch.started + 1] \in VariantNames
    BY <1>3, VariantIndexed DEF StartVariant, AllStarted, TypeOK, State, Batch
  <2>2. VariantStarted(k.records, CurrentPair(k), Variants[k.batch.started + 1]) \in Record
    BY <1>3, <2>1, CurrentPairTyped DEF StartVariant, VariantStarted, Record, TypeOK, State
  <2> QED BY <1>3, <2>2, VariantTyped, PersistTyped DEF StartVariant, TypeOK, Points
<1>4. CASE ExecuteVariant
  <2>1. Variants[Len(k.batch.terms) + 1] \in VariantNames
    <3>1. Len(k.batch.terms) \in 0 .. Len(Variants)
      BY TermsFit DEF TypeOK
    <3> QED BY <1>4, <3>1, VariantIndexed DEF ExecuteVariant, AllTerminal
  <2>2. k' = k /\ WellFormed(k') /\ rp' = rp /\ WellFormed(rp')
    BY <1>4 DEF ExecuteVariant, replay
  <2>3. judged' \in Outcomes /\ live' \subseteq VariantNames /\ pc' \in Points
    BY <1>4, <2>1 DEF ExecuteVariant, Step, TypeOK, Points
  <2>4. TypeOK'
    BY <1>4, <2>2, <2>3 DEF ExecuteVariant, TypeOK, disk, replay
  <2> QED BY <2>2, <2>4
<1>5. CASE RegisterTerminal
  <2>1. judged \in Outcomes /\ ~AllTerminal(k) /\ ~AllClosed(k)
    BY <1>5 DEF RegisterTerminal, Control
  <2>2. Variants[Len(k.batch.terms) + 1] \in VariantNames
    <3>1. Len(k.batch.terms) \in 0 .. Len(Variants)
      BY TermsFit DEF TypeOK
    <3> QED BY <2>1, <3>1, VariantIndexed DEF AllTerminal
  <2>3. CurrentPair(k) \in Pairs /\ k.records \in Nat
    BY <2>1, CurrentPairTyped DEF TypeOK, State
  <2>4. VariantTerminal(k.records, CurrentPair(k), Variants[Len(k.batch.terms) + 1], judged)
          \in Record
    BY <2>1, <2>2, <2>3 DEF VariantTerminal, Record
  <2>5. TerminalTaken(k, judged) \in State /\ WellFormed(TerminalTaken(k, judged))
    BY <2>1, TerminalTyped DEF TypeOK
  <2>6. "run" \in Points
    BY DEF Points
  <2> QED BY <1>5, <2>4, <2>5, <2>6, PersistTyped DEF RegisterTerminal
<1>6. CASE ClosePair
  <2>1. PairClosed(k.records, CurrentPair(k)) \in Record
    BY <1>6, CurrentPairTyped DEF ClosePair, PairClosed, Record, TypeOK, State
  <2>2. PairRecorded(k) \in State /\ WellFormed(PairRecorded(k))
    BY <1>6, RecordedTyped DEF ClosePair, TypeOK
  <2>3. "run" \in Points
    BY DEF Points
  <2> QED BY <1>6, <2>1, <2>2, <2>3, PersistTyped DEF ClosePair
<1> QED BY <1>1, <1>2, <1>3, <1>4, <1>5, <1>6 DEF RunBatch

LEMMA CommitStepTyped ==
  ASSUME Typed, Control, Commit
  PROVE  Typed'
<1> USE DEF Typed
<1>1. Complete => ChunkOf(k) \in Chunk /\ ChunkOf(k).t = k.next
  BY ChunkTyped DEF Complete, TypeOK
<1>2. CASE PrepareChunk
  <2>1. pending' \in [state : {"none", "torn", "whole"}, chunk : Chunk]
    BY <1>1, <1>2 DEF PrepareChunk, PreparedChunk, TypeOK
  <2> QED BY <1>2, <2>1 DEF PrepareChunk, Step, TypeOK, Points, WellFormed, replay
<1>3. CASE AppendCommit
  <2>1. ChunkOf(k) \in Chunk
    BY <1>1, <1>3 DEF AppendCommit, Complete, Control
  <2>2. BatchCommitted(k.records, ChunkOf(k)) \in Record
    BY <2>1 DEF BatchCommitted, Record, TypeOK, State
  <2> QED BY <1>3, <2>2, CountedTyped, PersistTyped DEF AppendCommit, TypeOK, Points
<1>4. CASE PublishChunk
  <2>1. ChunkOf(k) \in Chunk /\ ChunkOf(k).t = k.next
    BY <1>1, <1>4 DEF PublishChunk, Step, Complete, Control
  <2>2. k' \in State /\ WellFormed(k')
    BY <1>4, <2>1, CommitTyped DEF PublishChunk, TypeOK
  <2>3. spool' \in Seq(Chunk) /\ pending' \in [state : {"none", "torn", "whole"}, chunk : Chunk]
    BY <1>4, EmptyTyped DEF PublishChunk, TypeOK, NoPending
  <2> QED BY <1>4, <2>2, <2>3 DEF PublishChunk, Step, TypeOK, Points, WellFormed, replay
<1> QED BY <1>2, <1>3, <1>4 DEF Commit

LEMMA FinalizeTyped ==
  ASSUME Typed, Control, Finalize
  PROVE  Typed'
<1> USE DEF Typed
<1>1. CASE ReplayBeforeFinalizing
  BY <1>1 DEF ReplayBeforeFinalizing, Step, TypeOK, Points, WellFormed, disk
<1>2. CASE AdoptOutput
  BY <1>2 DEF AdoptOutput, TypeOK, Points, WellFormed, disk, replay
<1>3. CASE BeginStaging
  BY <1>3 DEF BeginStaging, Step, TypeOK, Points, WellFormed, replay
<1>4. CASE CloseStaging
  <2>1. staging' \in Status
    BY <1>4 DEF CloseStaging, SamplingStatus, Status
  <2> QED BY <1>4, <2>1 DEF CloseStaging, Step, TypeOK, Points, WellFormed, replay
<1>5. CASE AppendFinalized
  <2>1. staging \in Status
    BY <1>5 DEF AppendFinalized, Control, Status
  <2>2. RunFinalized(k.records, staging) \in Record
    BY <2>1 DEF RunFinalized, Record, TypeOK, State
  <2>3. CASE k.finalized
    BY <1>5, <2>3 DEF AppendFinalized, TypeOK, Points, WellFormed, disk, replay
  <2>4. CASE ~k.finalized
    BY <1>5, <2>1, <2>2, <2>4, FinalTyped, PersistTyped DEF AppendFinalized, TypeOK, Points
  <2> QED BY <2>3, <2>4
<1>6. CASE RenameStaging
  <2>1. staging \in Status
    BY <1>6 DEF RenameStaging, Step, Control, Status
  <2> QED BY <1>6, <2>1 DEF RenameStaging, Step, TypeOK, Points, WellFormed, replay, Status
<1>7. CASE AppendPublished
  <2>1. RunPublished(k.records, output) \in Record
    BY DEF RunPublished, Record, TypeOK, State
  <2> QED BY <1>7, <2>1, FinalTyped, PersistTyped
          DEF AppendPublished, TypeOK, Points, AtRest
<1> QED BY <1>1, <1>2, <1>3, <1>4, <1>5, <1>6, <1>7 DEF Finalize

LEMMA FailTyped ==
  ASSUME Typed, Control, Fail
  PROVE  Typed'
<1>1. CASE TearChunk
  <2>1. ChunkOf(k) \in Chunk
    BY <1>1, ChunkTyped DEF TearChunk, Complete, Typed, TypeOK
  <2>2. pending' \in [state : {"none", "torn", "whole"}, chunk : Chunk]
    BY <1>1, <2>1 DEF TearChunk
  <2> QED BY <1>1, <2>2, DieTyped DEF TearChunk
<1>2. CASE RaiseError
  <2>1. pc' \in Points /\ crashes' \in 0 .. MaxCrashes
    BY <1>2 DEF RaiseError, Points, AtRest, Typed, TypeOK
  <2>2. pending' \in [state : {"none", "torn", "whole"}, chunk : Chunk]
    BY <1>2 DEF RaiseError, Typed, TypeOK, disk
  <2> QED BY <1>2, <2>1, <2>2, ForgetTyped DEF RaiseError, disk
<1>3. CASE Crash
  BY <1>3, DieTyped DEF Crash, disk, Typed, TypeOK
<1> QED BY <1>1, <1>2, <1>3 DEF Fail

LEMMA TypedStep ==
  ASSUME Typed, Control, [Next]_vars
  PROVE  Typed'
<1>1. CASE UNCHANGED vars
  <2>1. /\ workspace' = workspace /\ snapshots' = snapshots /\ journal' = journal
        /\ text' = text /\ pending' = pending /\ spool' = spool
        /\ staging' = staging /\ output' = output
    BY <1>1 DEF vars, disk
  <2>2. /\ pc' = pc /\ k' = k /\ rp' = rp /\ cur' = cur /\ goal' = goal
        /\ judged' = judged /\ live' = live /\ crashes' = crashes
    BY <1>1 DEF vars, replay
  <2>3. TypeOK'
    BY <2>1, <2>2, Zenon DEF Typed, TypeOK
  <2>4. WellFormed(k)' /\ WellFormed(rp)'
    BY <2>2, Zenon DEF Typed, WellFormed
  <2> QED BY <2>3, <2>4, Zenon DEF Typed
<1> QED BY <1>1, OpenTyped, RestoreTyped, RunBatchTyped, CommitStepTyped, FinalizeTyped,
           FailTyped DEF Next

-----------------------------------------------------------------------------
\* What the journal says, and what an append adds to it.

\* The chunks a record commits.
Committed(rec) == IF rec.type = "batch_committed" THEN {rec.chunk} ELSE {}

LEMMA CommitsNext ==
  ASSUME journal \in Seq(Record), NEW n \in 1 .. Len(journal)
  PROVE  CommitsBefore(n + 1) = CommitsBefore(n) \cup Committed(journal[n])
BY DEF CommitsBefore, RecordsOf, Committed

LEMMA KnownNext ==
  ASSUME journal \in Seq(Record), NEW n \in 1 .. Len(journal)
  PROVE  /\ journal[n].type # "batch_committed" =>
              Feedback(n + 1) = Feedback(n) /\ Times(n + 1) = Times(n)
         /\ journal[n].type = "batch_committed" =>
              /\ Feedback(n + 1) = Feedback(n) \cup journal[n].chunk.committed
              /\ Times(n + 1) = Times(n) \cup {journal[n].chunk.t}
<1>1. CommitsBefore(n + 1) = CommitsBefore(n) \cup Committed(journal[n])
  BY CommitsNext
<1> QED BY <1>1 DEF Feedback, Times, Committed

LEMMA NothingKnown ==
  Feedback(1) = {} /\ Times(1) = {}
BY DEF Feedback, Times, CommitsBefore, RecordsOf

LEMMA CommitsAppended ==
  ASSUME journal \in Seq(Record), NEW rec \in Record, journal' = Append(journal, rec)
  PROVE  /\ Len(journal') = Len(journal) + 1
         /\ \A n \in 1 .. Len(journal) + 1 : CommitsBefore(n)' = CommitsBefore(n)
         /\ Commits' = Commits \cup Committed(rec)
<1>1. Len(journal') = Len(journal) + 1 /\ journal' \in Seq(Record)
      /\ (\A i \in 1 .. Len(journal) : journal'[i] = journal[i])
      /\ journal'[Len(journal) + 1] = rec
  OBVIOUS
<1>2. ASSUME NEW n \in 1 .. Len(journal) + 1
      PROVE  CommitsBefore(n)' = CommitsBefore(n)
  BY <1>1 DEF CommitsBefore, RecordsOf
<1>3. Commits' = Commits \cup Committed(rec)
  BY <1>1 DEF Commits, CommitsBefore, RecordsOf, Committed
<1> QED BY <1>1, <1>2, <1>3

LEMMA KnownAppended ==
  ASSUME journal \in Seq(Record), NEW rec \in Record, journal' = Append(journal, rec)
  PROVE  /\ rec.type # "batch_committed" =>
              /\ Feedback(Len(journal) + 1)' = Feedback(Len(journal) + 1)
              /\ Times(Len(journal) + 1)' = Times(Len(journal) + 1)
         /\ rec.type = "batch_committed" =>
              /\ Feedback(Len(journal) + 1)' = Feedback(Len(journal) + 1) \cup rec.chunk.committed
              /\ Times(Len(journal) + 1)' = Times(Len(journal) + 1) \cup {rec.chunk.t}
<1>1. Commits' = Commits \cup Committed(rec)
  BY CommitsAppended
<1> QED BY <1>1 DEF Commits, Feedback, Times, Committed

\* An append keeps the feedback barrier when the record it adds respects it.
LEMMA BarrierAppended ==
  ASSUME journal \in Seq(Record), NEW rec \in Record, journal' = Append(journal, rec),
         FeedbackBarrier,
         rec.type = "batch_plan" => rec.doc.frozen = Feedback(Len(journal) + 1),
         rec.type = "batch_committed" => rec.chunk.frozen = Feedback(Len(journal) + 1)
  PROVE  FeedbackBarrier'
<1>1. Len(journal') = Len(journal) + 1
      /\ (\A i \in 1 .. Len(journal) : journal'[i] = journal[i])
      /\ journal'[Len(journal) + 1] = rec
  OBVIOUS
<1>2. ASSUME NEW i \in 1 .. Len(journal) + 1
      PROVE  Feedback(i)' = Feedback(i)
  BY CommitsAppended DEF Feedback
<1>3. ASSUME NEW i \in RecordsOf("batch_plan")'
      PROVE  journal'[i].doc.frozen = Feedback(i)'
  <2>1. i \in 1 .. Len(journal) + 1 /\ journal'[i].type = "batch_plan"
    BY <1>1 DEF RecordsOf
  <2>2. CASE i = Len(journal) + 1
    BY <1>1, <1>2, <2>1, <2>2
  <2>3. CASE i \in 1 .. Len(journal)
    <3>1. i \in RecordsOf("batch_plan")
      BY <1>1, <2>1, <2>3 DEF RecordsOf
    <3> QED BY <1>1, <1>2, <2>1, <2>3, <3>1 DEF FeedbackBarrier, Feedback
  <2> QED BY <2>1, <2>2, <2>3
<1>4. ASSUME NEW i \in RecordsOf("batch_committed")'
      PROVE  journal'[i].chunk.frozen = Feedback(i)'
  <2>1. i \in 1 .. Len(journal) + 1 /\ journal'[i].type = "batch_committed"
    BY <1>1 DEF RecordsOf
  <2>2. CASE i = Len(journal) + 1
    BY <1>1, <1>2, <2>1, <2>2
  <2>3. CASE i \in 1 .. Len(journal)
    <3>1. i \in RecordsOf("batch_committed")
      BY <1>1, <2>1, <2>3 DEF RecordsOf
    <3> QED BY <1>1, <1>2, <2>1, <2>3, <3>1 DEF FeedbackBarrier, Feedback
  <2> QED BY <2>1, <2>2, <2>3
<1> QED BY <1>3, <1>4 DEF FeedbackBarrier, Feedback

LEMMA OutputsAppended ==
  ASSUME journal \in Seq(Record), NEW rec \in Record, journal' = Append(journal, rec),
         UNCHANGED <<spool, output>>, Outputs,
         rec.type = "run_published" => rec.source = output /\ output # "absent",
         rec.type = "batch_committed" => output = "absent"
  PROVE  Outputs'
<1>1. Len(journal') = Len(journal) + 1
      /\ (\A i \in 1 .. Len(journal) : journal'[i] = journal[i])
      /\ journal'[Len(journal) + 1] = rec
  OBVIOUS
<1>2. ASSUME output # "absent"
      PROVE  Len(spool) = Horizon /\ {c.t : c \in Commits'} = 0 .. Horizon - 1
  <2>1. Commits' = Commits
    BY <1>2, CommitsAppended DEF Committed
  <2> QED BY <1>2, <2>1 DEF Outputs, PublishedIsComplete
<1>3. ASSUME NEW i \in RecordsOf("run_published")'
      PROVE  journal'[i].source = output /\ output # "absent"
  <2>1. i \in 1 .. Len(journal) + 1 /\ journal'[i].type = "run_published"
    BY <1>1 DEF RecordsOf
  <2>2. CASE i = Len(journal) + 1
    BY <1>1, <2>1, <2>2
  <2>3. CASE i \in 1 .. Len(journal)
    <3>1. i \in RecordsOf("run_published")
      BY <1>1, <2>1, <2>3 DEF RecordsOf
    <3> QED BY <1>1, <2>3, <3>1 DEF Outputs, PublishedIsComplete, HasPublished
  <2> QED BY <2>1, <2>2, <2>3
<1> QED BY <1>2, <1>3 DEF Outputs, PublishedIsComplete, HasPublished

\* A step that leaves the journal alone leaves what it says alone.
LEMMA JournalKept ==
  ASSUME journal' = journal
  PROVE  /\ \A n : Feedback(n)' = Feedback(n) /\ Times(n)' = Times(n)
         /\ FeedbackBarrier => FeedbackBarrier'
         /\ Outputs /\ UNCHANGED <<spool, output>> => Outputs'
<1>1. ASSUME NEW n PROVE Feedback(n)' = Feedback(n) /\ Times(n)' = Times(n)
  BY DEF Feedback, Times, CommitsBefore, RecordsOf
<1>2. FeedbackBarrier => FeedbackBarrier'
  BY DEF FeedbackBarrier, CommitsBefore, RecordsOf
<1>3. Outputs /\ UNCHANGED <<spool, output>> => Outputs'
  BY DEF Outputs, PublishedIsComplete, HasPublished, Commits, CommitsBefore, RecordsOf
<1> QED BY <1>1, <1>2, <1>3

-----------------------------------------------------------------------------
\* Every step keeps the facts.

\* A process that is gone claims nothing.
LEMMA Gone ==
  ASSUME Control, pc # "down", pc' \in {"down", "rejected"}, Forget, UNCHANGED workspace
  PROVE  Control' /\ Knowledge'
BY DEF Control, Knowledge, Forget, Alive, Running, Finalizing

\* An append that completes.
Appended(rec, s, at) ==
  /\ journal' = Append(journal, rec) /\ k' = s /\ pc' = at
  /\ UNCHANGED <<replay, workspace, snapshots, pending, spool, staging, output>>

\* An append, completed or not: what is left to show is what holds when it completes.
LEMMA PersistFacts ==
  ASSUME Inv, pc # "down", NEW rec \in Record, NEW s, NEW at,
         Persist(rec, s, at),
         Appended(rec, s, at) => Control' /\ Knowledge',
         rec.type = "batch_plan" => rec.doc.frozen = Feedback(Len(journal) + 1),
         rec.type = "batch_committed" =>
           rec.chunk.frozen = Feedback(Len(journal) + 1) /\ output = "absent",
         rec.type = "run_published" => rec.source = output /\ output # "absent"
  PROVE  Facts'
<1> USE DEF Inv, Facts
<1>1. journal \in Seq(Record)
  BY DEF Typed, TypeOK
<1>2. journal' = journal \/ journal' = Append(journal, rec)
  BY DEF Persist
<1>3. UNCHANGED <<workspace, snapshots, pending, spool, staging, output>>
  BY DEF Persist
<1>4. FeedbackBarrier'
  BY <1>1, <1>2, JournalKept, BarrierAppended
<1>5. Outputs'
  BY <1>1, <1>2, <1>3, JournalKept, OutputsAppended
<1>6. Control' /\ Knowledge'
  <2>1. CASE Die
    BY <1>3, <2>1, Gone DEF Die
  <2>2. CASE Appended(rec, s, at)
    BY <2>2
  <2> QED BY <1>3, <2>1, <2>2 DEF Persist, Appended
<1> QED BY <1>4, <1>5, <1>6

LEMMA OpenFacts ==
  ASSUME Inv, Open
  PROVE  Facts'
<1> USE DEF Inv, Facts
<1>1. CASE OpenNew
  <2>1. Control' /\ Knowledge'
    BY <1>1 DEF OpenNew, Step, Control, Knowledge, Alive, Running, Finalizing, replay
  <2> QED BY <1>1, <2>1, JournalKept DEF OpenNew
<1>2. CASE WriteIdentity
  <2>1. journal = <<>> /\ k = EmptyState /\ UNCHANGED <<journal, k>>
    BY <1>2 DEF WriteIdentity, Step, Control
  <2>2. Control'
    BY <1>2, <2>1 DEF WriteIdentity, Step, Control, Finalizing, replay
  <2>3. k.engaged = Feedback(Len(journal) + 1) /\ Times(Len(journal) + 1) = 0 .. k.next - 1
    BY <2>1, NothingKnown DEF EmptyState
  <2>4. Knowledge'
    BY <1>2, <2>1, <2>3, JournalKept DEF WriteIdentity, Step, Knowledge
  <2> QED BY <1>2, <2>2, <2>4, JournalKept DEF WriteIdentity
<1>3. CASE AppendRunStarted
  <2> DEFINE rec == RunStarted(k.records)
  <2>1. rec \in Record /\ rec.type \notin {"batch_plan", "batch_committed", "run_published"}
    BY DEF RunStarted, Record, Typed, TypeOK, State
  <2>2. Counted(k).engaged = k.engaged /\ Counted(k).next = k.next
    BY CountedTyped DEF Typed, TypeOK
  <2>3. k.engaged = Feedback(Len(journal) + 1) /\ Times(Len(journal) + 1) = 0 .. k.next - 1
    BY <1>3 DEF AppendRunStarted, Knowledge, Alive
  <2> HIDE DEF rec
  <2>4. Appended(rec, Counted(k), "run") => Control' /\ Knowledge'
    <3> HAVE Appended(rec, Counted(k), "run")
    <3>1. Control'
      BY <1>3 DEF Appended, AppendRunStarted, Control, Finalizing, replay
    <3>2. Knowledge'
      BY <2>1, <2>2, <2>3, KnownAppended DEF Appended, Knowledge, Typed, TypeOK
    <3> QED BY <3>1, <3>2
  <2>5. Persist(rec, Counted(k), "run") /\ pc # "down"
    BY <1>3 DEF AppendRunStarted, rec
  <2> QED BY <2>1, <2>4, <2>5, PersistFacts
<1>4. CASE Resume
  <2>1. rp' = EmptyState /\ cur' = 0 /\ UNCHANGED disk
    BY <1>4 DEF Resume, Control, AtRest
  <2>2. Control'
    BY <1>4, <2>1 DEF Resume, Control, Finalizing, disk
  <2>3. Knowledge'
    BY <1>4, <2>1, NothingKnown, JournalKept
    DEF Resume, Knowledge, Alive, Running, Finalizing, EmptyState, disk
  <2> QED BY <2>1, <2>2, <2>3, JournalKept DEF disk
<1> QED BY <1>1, <1>2, <1>3, <1>4 DEF Open

LEMMA RestoreFacts ==
  ASSUME Inv, Restore
  PROVE  Facts'
<1> USE DEF Inv, Facts
<1>1. CASE ReplayRecord
  <2>1. /\ cur + 1 \in 1 .. Len(journal) /\ journal[cur + 1] \in Record
        /\ UNCHANGED <<journal, k, pc, goal, spool, output>>
    BY <1>1 DEF ReplayRecord, Typed, TypeOK, disk
  <2>2. Control'
    BY <1>1 DEF ReplayRecord, Control, Finalizing, disk, AllClosed, AllTerminal
  <2> DEFINE rec == journal[cur + 1]
  <2>3. rec.type # "batch_committed" => rp'.engaged = rp.engaged /\ rp'.next = rp.next
    BY <1>1, <2>1, ApplyTyped DEF ReplayRecord, Typed, TypeOK
  <2>4. rec.type = "batch_committed" =>
          /\ rp'.engaged = rp.engaged \cup rec.chunk.committed
          /\ rp'.next = rp.next + 1 /\ rec.chunk.t = rp.next
    BY <1>1, <2>1, ApplyTyped DEF ReplayRecord, Typed, TypeOK, Accepts
  <2>5. rp.engaged = Feedback(cur + 1) /\ Times(cur + 1) = 0 .. rp.next - 1
    BY <1>1 DEF ReplayRecord, Knowledge
  <2>6. rp.next \in Nat
    BY HorizonAssumption DEF Typed, TypeOK, State
  <2>7. rp'.engaged = Feedback(cur + 1 + 1) /\ Times(cur + 1 + 1) = 0 .. rp'.next - 1
    <3>1. CASE rec.type # "batch_committed"
      BY <2>1, <2>3, <2>5, <3>1, KnownNext DEF Typed, TypeOK
    <3>2. CASE rec.type = "batch_committed"
      <4>1. /\ Feedback(cur + 1 + 1) = Feedback(cur + 1) \cup rec.chunk.committed
            /\ Times(cur + 1 + 1) = Times(cur + 1) \cup {rec.chunk.t}
        BY <2>1, <3>2, KnownNext DEF Typed, TypeOK
      <4>2. (0 .. rp.next - 1) \cup {rp.next} = 0 .. rp.next
        BY <2>6
      <4>3. rp'.next - 1 = rp.next
        BY <2>4, <2>6, <3>2
      <4>4. Times(cur + 1 + 1) = 0 .. rp.next
        BY <2>4, <2>5, <3>2, <4>1, <4>2
      <4> QED BY <2>4, <2>5, <3>2, <4>1, <4>3, <4>4
    <3> QED BY <3>1, <3>2
  <2>8. Knowledge'
    BY <1>1, <2>1, <2>7, JournalKept DEF ReplayRecord, Knowledge, Alive
  <2> QED BY <2>1, <2>2, <2>8, JournalKept
<1>2. CASE FinishReplay
  <2>1. UNCHANGED <<disk, k>> /\ pc = "replay" /\ pc' \in {"finalize", "done", "restore"}
    BY <1>2 DEF FinishReplay
  <2>2. CASE pc' = "finalize"
    <3>1. goal = "finalize" /\ rp' = EmptyState /\ cur' = 0 /\ ~k.open /\ k.next = Horizon
      BY <1>2, <2>2 DEF FinishReplay, Control
    <3>2. Len(spool) = Horizon
      BY <1>2, <3>1 DEF FinishReplay, ReplayCloses, SpoolCloses, Typed, WellFormed
    <3>3. Control'
      BY <2>1, <2>2, <3>1, <3>2 DEF Control, disk, Finalizing
    <3>4. Knowledge'
      BY <2>1, <2>2, <3>1, JournalKept DEF Knowledge, Alive, disk
    <3> QED BY <2>1, <3>3, <3>4, JournalKept DEF disk
  <2>3. CASE pc' = "done"
    <3>1. rp' = EmptyState /\ cur' = 0
      BY <1>2, <2>3 DEF FinishReplay, Control
    <3> QED BY <2>1, <2>3, <3>1, JournalKept
            DEF Control, Knowledge, Alive, Running, Finalizing, disk
  <2>4. CASE pc' = "restore"
    <3>1. UNCHANGED <<rp, cur, goal>> /\ cur = Len(journal)
      BY <1>2, <2>4 DEF FinishReplay, Control, ReplayCloses
    <3>2. Control'
      BY <2>1, <2>4, <3>1 DEF Control, disk, Finalizing
    <3>3. Knowledge'
      BY <2>1, <2>4, <3>1, JournalKept DEF Knowledge, Alive, Running, Finalizing, disk
    <3> QED BY <2>1, <3>2, <3>3, JournalKept DEF disk
  <2> QED BY <2>1, <2>2, <2>3, <2>4
<1>3. CASE RecoverPrepared
  <2>1. UNCHANGED <<workspace, snapshots, journal, staging, output, pc, k, rp, cur, goal>>
        /\ pc = "restore"
    BY <1>3 DEF RecoverPrepared, replay
  <2>2. Control' /\ Knowledge'
    BY <2>1, JournalKept DEF Control, Knowledge, Alive, Running, Finalizing
  <2>3. output = "absent"
    BY <1>3, HorizonAssumption
    DEF RecoverPrepared, Unpublished, Outputs, PublishedIsComplete, Typed, TypeOK, State,
        WellFormed
  <2>4. Outputs'
    BY <2>1, <2>3 DEF Outputs, PublishedIsComplete, HasPublished, RecordsOf
  <2> QED BY <2>1, <2>2, <2>4, JournalKept
<1>4. CASE RestoreKernel
  <2>1. /\ k'.engaged = rp.engaged /\ k'.next = rp.next
    BY <1>4 DEF RestoreKernel, Restored, Typed, TypeOK, State
  <2>2. /\ UNCHANGED disk /\ pc = "restore" /\ pc' = "run" /\ rp' = EmptyState
        /\ cur' = 0 /\ cur = Len(journal)
    BY <1>4 DEF RestoreKernel, Control
  <2>3. Control'
    BY <2>2 DEF Control, Finalizing, disk
  <2>4. Knowledge'
    BY <2>1, <2>2, JournalKept DEF Knowledge, disk
  <2> QED BY <2>2, <2>3, <2>4, JournalKept DEF disk
<1> QED BY <1>1, <1>2, <1>3, <1>4 DEF Restore
\* Appending a record of the running batch, which commits nothing yet.
LEMMA BatchRecordFacts ==
  ASSUME Inv, pc \in {"run", "planned", "judged"},
         NEW rec \in Record, rec.type \notin {"batch_committed", "run_published"},
         rec.type = "batch_plan" => rec.doc.frozen = k.engaged,
         NEW s, s.engaged = k.engaged, s.next = k.next,
         Persist(rec, s, "run")
  PROVE  Facts'
<1> USE DEF Inv, Facts
<1>1. k.engaged = Feedback(Len(journal) + 1) /\ Times(Len(journal) + 1) = 0 .. k.next - 1
  BY DEF Knowledge, Alive, Running
<1>2. Appended(rec, s, "run") => Control' /\ Knowledge'
  <2> HAVE Appended(rec, s, "run")
  <2>1. Control'
    BY DEF Appended, Control, Finalizing, replay
  <2>2. Knowledge'
    BY <1>1, KnownAppended DEF Appended, Knowledge, Typed, TypeOK
  <2> QED BY <2>1, <2>2
<1> QED BY <1>1, <1>2, PersistFacts

LEMMA RunBatchFacts ==
  ASSUME Inv, RunBatch
  PROVE  Facts'
<1> USE DEF Inv, Facts
<1>1. k \in State /\ WellFormed(k)
  BY DEF Typed, TypeOK
<1>2. CASE WritePlan
  <2>1. PICK plan \in Plans(k.exposed) :
          LET doc == [t |-> k.next, frozen |-> k.engaged, plan |-> plan]
          IN  /\ \A d \in snapshots : d.t = k.next => d = doc
              /\ snapshots' = snapshots \cup {doc}
    BY <1>2 DEF WritePlan
  <2>2. \A d \in snapshots' : d.t = k.next => d.frozen = k.engaged
    BY <2>1
  <2>3. Control'
    BY <1>2, <2>2 DEF WritePlan, BatchDue, Step, Control, Finalizing, replay, AllClosed,
                      Typed, TypeOK, State
  <2>4. Knowledge'
    BY <1>2, JournalKept DEF WritePlan, Step, Knowledge, Alive, Running
  <2> QED BY <1>2, <2>3, <2>4, JournalKept DEF WritePlan
<1>3. CASE AppendPlan
  <2>1. PICK doc \in snapshots :
          doc.t = k.next /\ Persist(BatchPlan(k.records, doc), PlanTaken(k, doc), "run")
    BY <1>3 DEF AppendPlan
  <2>2. doc \in Document /\ doc.frozen = k.engaged /\ pc = "planned"
    BY <1>3, <2>1 DEF AppendPlan, Typed, TypeOK, Control
  <2> DEFINE rec == BatchPlan(k.records, doc)
             s   == PlanTaken(k, doc)
  <2>3. rec \in Record /\ rec.type = "batch_plan" /\ rec.doc.frozen = k.engaged
    BY <1>1, <2>2 DEF BatchPlan, Record, State
  <2>4. s.engaged = k.engaged /\ s.next = k.next /\ Persist(rec, s, "run")
    BY <1>1, <2>1, <2>2, PlanTyped
  <2> HIDE DEF rec, s
  <2> QED BY <2>2, <2>3, <2>4, BatchRecordFacts
<1>4. CASE StartVariant
  <2> DEFINE rec == VariantStarted(k.records, CurrentPair(k), Variants[k.batch.started + 1])
             s   == VariantCounted(k)
  <2>1. Variants[k.batch.started + 1] \in VariantNames
    BY <1>1, <1>4, VariantIndexed DEF StartVariant, AllStarted, State, Batch
  <2>2. rec \in Record /\ rec.type = "variant_started"
    BY <1>1, <1>4, <2>1, CurrentPairTyped DEF StartVariant, VariantStarted, Record, State
  <2>3. s.engaged = k.engaged /\ s.next = k.next /\ Persist(rec, s, "run") /\ pc = "run"
    BY <1>1, <1>4, VariantTyped DEF StartVariant
  <2> HIDE DEF rec, s
  <2> QED BY <2>2, <2>3, BatchRecordFacts
<1>5. CASE ExecuteVariant
  <2>1. UNCHANGED <<disk, k, rp, cur, goal>> /\ pc = "run" /\ pc' = "judged"
        /\ judged' \in Outcomes
    BY <1>5 DEF ExecuteVariant, Step, replay
  <2>2. Control'
    BY <1>5, <2>1 DEF ExecuteVariant, Control, Finalizing, disk, AllClosed, AllTerminal
  <2>3. Knowledge'
    BY <2>1, JournalKept DEF Knowledge, Alive, Running, disk
  <2> QED BY <2>1, <2>2, <2>3, JournalKept DEF disk
<1>6. CASE RegisterTerminal
  <2> DEFINE variant == Variants[Len(k.batch.terms) + 1]
             rec == VariantTerminal(k.records, CurrentPair(k), variant, judged)
             s   == TerminalTaken(k, judged)
  <2>1. judged \in Outcomes /\ ~AllTerminal(k) /\ ~AllClosed(k) /\ pc = "judged"
    BY <1>6 DEF RegisterTerminal, Control
  <2>2. variant \in VariantNames
    <3>1. Len(k.batch.terms) \in 0 .. Len(Variants)
      BY <1>1, VariantsAssumption DEF State, Batch, WellFormed
    <3> QED BY <2>1, <3>1, VariantIndexed DEF AllTerminal
  <2>3. rec \in Record /\ rec.type = "variant_terminal"
    BY <1>1, <2>1, <2>2, CurrentPairTyped DEF VariantTerminal, Record, State
  <2>4. s.engaged = k.engaged /\ s.next = k.next /\ Persist(rec, s, "run")
    BY <1>1, <1>6, <2>1, TerminalTyped DEF RegisterTerminal
  <2> HIDE DEF rec, s
  <2> QED BY <2>1, <2>3, <2>4, BatchRecordFacts
<1>7. CASE ClosePair
  <2> DEFINE rec == PairClosed(k.records, CurrentPair(k))
             s   == PairRecorded(k)
  <2>1. rec \in Record /\ rec.type = "pair_closed"
    BY <1>1, <1>7, CurrentPairTyped DEF ClosePair, PairClosed, Record, State
  <2>2. s.engaged = k.engaged /\ s.next = k.next /\ Persist(rec, s, "run") /\ pc = "run"
    BY <1>1, <1>7, RecordedTyped DEF ClosePair
  <2> HIDE DEF rec, s
  <2> QED BY <2>1, <2>2, BatchRecordFacts
<1> QED BY <1>2, <1>3, <1>4, <1>5, <1>6, <1>7 DEF RunBatch

LEMMA CommitFacts ==
  ASSUME Inv, Commit
  PROVE  Facts'
<1> USE DEF Inv, Facts
<1>1. k \in State /\ WellFormed(k)
  BY DEF Typed, TypeOK
<1>2. CASE PrepareChunk
  <2>1. UNCHANGED <<workspace, snapshots, journal, spool, staging, output, k, rp, cur, goal>>
        /\ pc = "run" /\ pc' = "prepared" /\ k.open /\ AllClosed(k) /\ Len(spool) = k.next
    BY <1>2 DEF PrepareChunk, Preparable, Complete, Step, replay
  <2>2. Control'
    BY <2>1 DEF Control, Finalizing, AllClosed
  <2>3. Knowledge'
    BY <2>1, JournalKept DEF Knowledge, Alive, Running
  <2> QED BY <2>1, <2>2, <2>3, JournalKept
<1>3. CASE AppendCommit
  <2> DEFINE rec == BatchCommitted(k.records, ChunkOf(k))
             s   == Counted(k)
  <2>1. k.open /\ AllClosed(k) /\ Len(spool) = k.next /\ pc = "prepared"
    BY <1>3 DEF AppendCommit, Control
  <2>2. /\ ChunkOf(k) \in Chunk /\ ChunkOf(k).t = k.next
        /\ ChunkOf(k).frozen = k.engaged /\ ChunkOf(k).committed = k.batch.positives
    BY <1>1, <2>1, ChunkTyped
  <2>3. /\ rec \in Record /\ rec.type = "batch_committed" /\ rec.chunk.t = k.next
        /\ rec.chunk.frozen = k.engaged /\ rec.chunk.committed = k.batch.positives
    BY <1>1, <2>2 DEF BatchCommitted, Record, State
  <2>4. /\ s.engaged = k.engaged /\ s.next = k.next /\ s.open = k.open /\ s.batch = k.batch
        /\ Persist(rec, s, "committed")
    BY <1>1, <1>3, CountedTyped DEF AppendCommit
  <2>5. k.next \in Nat /\ k.next < Horizon
    BY <1>1, <2>1, HorizonAssumption DEF State, WellFormed
  <2>6. output = "absent"
    BY <2>1, <2>5 DEF Outputs, PublishedIsComplete
  <2>7. k.engaged = Feedback(Len(journal) + 1) /\ Times(Len(journal) + 1) = 0 .. k.next - 1
    BY <2>1 DEF Knowledge, Alive, Running
  <2>8. (0 .. k.next - 1) \cup {k.next} = 0 .. k.next
    BY <2>5
  <2> HIDE DEF rec, s
  <2>9. Appended(rec, s, "committed") => Control' /\ Knowledge'
    <3> HAVE Appended(rec, s, "committed")
    <3>1. Control'
      BY <2>1, <2>4 DEF Appended, Control, Finalizing, replay, AllClosed
    <3>2. /\ Feedback(Len(journal) + 1)' = k.engaged \cup k.batch.positives
          /\ Times(Len(journal) + 1)' = 0 .. k.next
      BY <2>3, <2>7, <2>8, KnownAppended DEF Appended, Typed, TypeOK
    <3>3. Knowledge'
      BY <2>4, <3>2 DEF Appended, Knowledge
    <3> QED BY <3>1, <3>3
  <2> QED BY <2>1, <2>3, <2>4, <2>6, <2>7, <2>9, PersistFacts
<1>4. CASE PublishChunk
  <2>1. /\ UNCHANGED <<workspace, snapshots, journal, staging, output, rp, cur, goal>>
        /\ pc = "committed" /\ pc' = "run" /\ k' = CommitTaken(k, ChunkOf(k))
        /\ k.open /\ Len(spool) = k.next
    BY <1>4 DEF PublishChunk, Step, Control, replay
  <2>2. ChunkOf(k) \in Chunk /\ ChunkOf(k).t = k.next /\ ChunkOf(k).committed = k.batch.positives
    BY <1>1, <2>1, ChunkTyped
  <2>3. k'.engaged = k.engaged \cup k.batch.positives /\ k'.next = k.next + 1
    BY <1>1, <2>1, <2>2, CommitTyped
  <2>4. k.next \in Nat /\ k.next < Horizon
    BY <1>1, <2>1, HorizonAssumption DEF State, WellFormed
  <2>5. output = "absent"
    BY <2>1, <2>4 DEF Outputs, PublishedIsComplete
  <2>6. Control'
    BY <2>1 DEF Control, Finalizing
  <2>7. k'.engaged = Feedback(Len(journal) + 1)' /\ Times(Len(journal) + 1)' = 0 .. k'.next - 1
    BY <2>1, <2>3, <2>4, JournalKept DEF Knowledge
  <2>8. Knowledge'
    BY <2>1, <2>7 DEF Knowledge
  <2>9. Outputs'
    BY <2>1, <2>5 DEF Outputs, PublishedIsComplete, HasPublished, RecordsOf
  <2> QED BY <2>1, <2>6, <2>8, <2>9, JournalKept
<1> QED BY <1>2, <1>3, <1>4 DEF Commit
LEMMA FinalizeFacts ==
  ASSUME Inv, Finalize
  PROVE  Facts'
<1> USE DEF Inv, Facts
<1>1. k \in State /\ WellFormed(k) /\ output \in Status /\ journal \in Seq(Record)
  BY DEF Typed, TypeOK
<1>2. CASE ReplayBeforeFinalizing
  <2>1. UNCHANGED <<disk, k, rp, cur>> /\ pc = "run" /\ pc' = "replay" /\ goal' = "finalize"
        /\ ~k.open /\ k.next = Horizon /\ rp = EmptyState /\ cur = 0
    BY <1>2 DEF ReplayBeforeFinalizing, AllCommitted, Step, Control
  <2>2. Control'
    BY <2>1 DEF Control, Finalizing, disk
  <2>3. rp'.engaged = Feedback(cur + 1)' /\ Times(cur + 1)' = 0 .. rp'.next - 1
    BY <2>1, NothingKnown, JournalKept DEF EmptyState, disk
  <2>4. Knowledge'
    BY <2>1, <2>3, JournalKept DEF Knowledge, Alive, Running, disk
  <2> QED BY <2>1, <2>2, <2>4, JournalKept DEF disk
<1>3. CASE AdoptOutput
  <2>1. UNCHANGED <<disk, k, rp, cur, goal>> /\ pc = "finalize" /\ pc' = "publish"
        /\ output # "absent"
    BY <1>3 DEF AdoptOutput, replay
  <2>2. Control' /\ Knowledge'
    BY <2>1, JournalKept DEF Control, Knowledge, Alive, Finalizing, disk
  <2> QED BY <2>1, <2>2, JournalKept DEF disk
<1>4. CASE BeginStaging
  <2>1. UNCHANGED <<workspace, snapshots, journal, spool, output, k, rp, cur, goal>>
        /\ pc = "finalize" /\ pc' = "staging" /\ output = "absent"
    BY <1>4 DEF BeginStaging, Step, replay
  <2>2. Control' /\ Knowledge'
    BY <2>1, JournalKept DEF Control, Knowledge, Alive, Finalizing
  <2> QED BY <2>1, <2>2, JournalKept
<1>5. CASE CloseStaging
  <2>1. UNCHANGED <<workspace, snapshots, journal, spool, output, k, rp, cur, goal>>
        /\ pc = "staging" /\ pc' = "staged" /\ staging' \in {"formal_run", "validation_run"}
    BY <1>5 DEF CloseStaging, SamplingStatus, Step, replay
  <2>2. Control' /\ Knowledge'
    BY <2>1, JournalKept DEF Control, Knowledge, Alive, Finalizing
  <2> QED BY <2>1, <2>2, JournalKept
<1>6. CASE AppendFinalized
  <2>1. /\ pc = "staged" /\ output = "absent" /\ staging \in {"formal_run", "validation_run"}
        /\ ~k.open /\ k.next = Horizon /\ Len(spool) = Horizon
    BY <1>6 DEF AppendFinalized, Control, Finalizing
  <2>2. CASE k.finalized
    <3>1. UNCHANGED <<disk, k, rp, cur, goal>> /\ pc' = "rename"
      BY <1>6, <2>2 DEF AppendFinalized, replay
    <3>2. Control' /\ Knowledge'
      BY <2>1, <3>1, JournalKept DEF Control, Knowledge, Alive, Finalizing, disk
    <3> QED BY <3>1, <3>2, JournalKept DEF disk
  <2>3. CASE ~k.finalized
    <3> DEFINE rec == RunFinalized(k.records, staging)
               s   == Finalized(k, staging)
    <3>1. rec \in Record /\ rec.type = "run_finalized"
      BY <1>1, <2>1 DEF RunFinalized, Record, State, Status
    <3>2. s.engaged = k.engaged /\ s.next = k.next /\ s.open = k.open
          /\ Persist(rec, s, "rename")
      BY <1>1, <1>6, <2>1, <2>3, FinalTyped DEF AppendFinalized, Status
    <3>3. k.engaged = Feedback(Len(journal) + 1) /\ Times(Len(journal) + 1) = 0 .. k.next - 1
      BY <2>1 DEF Knowledge, Alive, Finalizing
    <3> HIDE DEF rec, s
    <3>4. Appended(rec, s, "rename") => Control' /\ Knowledge'
      <4> HAVE Appended(rec, s, "rename")
      <4>1. Control'
        BY <2>1, <3>2 DEF Appended, Control, Finalizing, replay
      <4>2. Knowledge'
        BY <1>1, <3>1, <3>2, <3>3, KnownAppended DEF Appended, Knowledge
      <4> QED BY <4>1, <4>2
    <3> QED BY <2>1, <3>1, <3>2, <3>4, PersistFacts
  <2> QED BY <2>2, <2>3
<1>7. CASE RenameStaging
  <2>1. UNCHANGED <<workspace, snapshots, journal, spool, k, rp, cur, goal>>
        /\ pc = "rename" /\ pc' = "publish" /\ output' = staging
    BY <1>7 DEF RenameStaging, Step, replay
  <2>2. /\ output = "absent" /\ staging \in {"formal_run", "validation_run"}
        /\ k.next = Horizon /\ Len(spool) = Horizon
    BY <2>1 DEF Control, Finalizing
  <2>3. Control' /\ Knowledge'
    BY <2>1, <2>2, JournalKept DEF Control, Knowledge, Alive, Finalizing
  <2>4. Times(Len(journal) + 1) = 0 .. Horizon - 1
    BY <2>1, <2>2 DEF Knowledge, Alive, Finalizing
  <2>5. RecordsOf("run_published") = {}
    BY <2>2 DEF Outputs, HasPublished
  <2>6. Outputs'
    BY <2>1, <2>2, <2>4, <2>5
    DEF Outputs, PublishedIsComplete, HasPublished, RecordsOf, Times, Commits, CommitsBefore
  <2> QED BY <2>1, <2>3, <2>6, JournalKept
<1>8. CASE AppendPublished
  <2> DEFINE rec == RunPublished(k.records, output)
             s   == Published(k, output)
  <2>1. pc = "publish" /\ output # "absent"
    BY <1>8 DEF AppendPublished, Control
  <2>2. rec \in Record /\ rec.type = "run_published" /\ rec.source = output
    BY <1>1 DEF RunPublished, Record, State
  <2>3. Persist(rec, s, "done")
    BY <1>8 DEF AppendPublished
  <2> HIDE DEF rec, s
  <2>4. Appended(rec, s, "done") => Control' /\ Knowledge'
    <3> HAVE Appended(rec, s, "done")
    <3> QED BY <2>1 DEF Appended, Control, Knowledge, Alive, Running, Finalizing, replay
  <2> QED BY <2>1, <2>2, <2>3, <2>4, PersistFacts
<1> QED BY <1>2, <1>3, <1>4, <1>5, <1>6, <1>7, <1>8 DEF Finalize

LEMMA FailFacts ==
  ASSUME Inv, Fail
  PROVE  Facts'
<1> USE DEF Inv, Facts
<1>1. CASE TearChunk
  <2>1. pc = "run" /\ pc' = "down" /\ Forget /\ UNCHANGED <<workspace, journal, spool, output>>
    BY <1>1 DEF TearChunk, Die
  <2> QED BY <2>1, Gone, JournalKept
<1>2. CASE RaiseError
  <2>1. pc # "down" /\ pc' = "rejected" /\ Forget
        /\ UNCHANGED <<workspace, journal, spool, output>>
    BY <1>2 DEF RaiseError, Raises, disk
  <2> QED BY <2>1, Gone, JournalKept
<1>3. CASE Crash
  <2>1. pc # "down" /\ pc' = "down" /\ Forget /\ UNCHANGED <<workspace, journal, spool, output>>
    BY <1>3 DEF Crash, Die, AtRest, disk
  <2> QED BY <2>1, Gone, JournalKept
<1> QED BY <1>1, <1>2, <1>3 DEF Fail

-----------------------------------------------------------------------------
\* The theorems.

LEMMA InitInv ==
  ASSUME Init
  PROVE  Inv
<1>1. journal = <<>> /\ spool = <<>> /\ k = EmptyState /\ rp = EmptyState
  BY DEF Init
<1>2. Typed
  <2>1. NoPending \in [state : {"none", "torn", "whole"}, chunk : Chunk]
    BY EmptyTyped DEF NoPending
  <2> QED BY <2>1, EmptyTyped, CrashAssumption
          DEF Init, Typed, TypeOK, Points, AtRest, Status
<1>3. RecordsOf("run_published") = {} /\ RecordsOf("batch_plan") = {}
      /\ RecordsOf("batch_committed") = {}
  BY <1>1 DEF RecordsOf
<1>4. Facts
  BY <1>3 DEF Init, Facts, Control, Knowledge, Alive, Running, Finalizing, FeedbackBarrier,
              Outputs, PublishedIsComplete, HasPublished
<1> QED BY <1>2, <1>4 DEF Inv

LEMMA StutterFacts ==
  ASSUME Inv, UNCHANGED vars
  PROVE  Inv'
<1> USE DEF vars, disk, replay
<1>1. Typed'
  BY DEF Inv, Typed, TypeOK, WellFormed
<1>2. Control'
  BY DEF Inv, Facts, Control, Finalizing, AllClosed, AllTerminal
<1>3. Knowledge'
  BY JournalKept DEF Inv, Facts, Knowledge, Alive, Running, Finalizing
<1>4. FeedbackBarrier' /\ Outputs'
  BY JournalKept DEF Inv, Facts
<1> QED BY <1>1, <1>2, <1>3, <1>4 DEF Inv, Facts

LEMMA InvStep ==
  ASSUME Inv, [Next]_vars
  PROVE  Inv'
<1>1. CASE Next
  <2>1. Typed'
    BY <1>1, TypedStep DEF Inv, Facts
  <2>2. Facts'
    BY <1>1, OpenFacts, RestoreFacts, RunBatchFacts, CommitFacts, FinalizeFacts, FailFacts
    DEF Next
  <2> QED BY <2>1, <2>2 DEF Inv
<1>2. CASE UNCHANGED vars
  BY <1>2, StutterFacts
<1> QED BY <1>1, <1>2

\* Inv is an invariant of the durable runtime.
THEOREM InvariantHolds == Spec => []Inv
BY InitInv, InvStep, PTL DEF Spec

\* The durable runtime keeps in every variable what the code keeps in it: the kernel
\* state, the journal's records, snapshots, spool and staged output.
THEOREM TypeCorrect == Spec => []TypeOK
<1>1. Inv => TypeOK
  BY DEF Inv, Typed
<1> QED BY <1>1, InvariantHolds, PTL

\* Whatever crashes and replays lie between, the plan and the chunk of every batch are
\* frozen on the feedback the earlier batches' commit records hold, and on no other.
THEOREM BarrierHolds == Spec => []FeedbackBarrier
<1>1. Inv => FeedbackBarrier
  BY DEF Inv, Facts
<1> QED BY <1>1, InvariantHolds, PTL

\* The output is there only when the spool and the journal hold every batch of the
\* horizon, and the journal says "published" only of that very output.
THEOREM PublishedComplete == Spec => []PublishedIsComplete
<1>1. Inv => PublishedIsComplete
  BY DEF Inv, Facts, Outputs
<1> QED BY <1>1, InvariantHolds, PTL

-----------------------------------------------------------------------------
\* Reading the journal back.
\*
\* What a replay may know is not one more variable: it is a function of the journal.
\* Instead of computing it, the invariant says that such a reading exists: a function h
\* from the number of records read to what is known after them, each step of it one that
\* the replay accepts.  Its last value s ties the kernel to the disk.

\* The pairs the committed batches of s have delivered.
Seen(s) == UNION {Delivered(s.refs[i].plan) : i \in 1 .. Len(s.refs)}

\* The spool has every chunk, or all but the last one, which is prepared.
Level(s) ==
  /\ spool = s.refs
  /\ pending.state = "none" \/ (s.open /\ AllClosed(s) /\ pending.chunk = ChunkOf(s))
Behind(s) == s.refs = Append(spool, pending.chunk) /\ pending.state = "whole" /\ ~s.open
Stored(s) == Level(s) \/ Behind(s)

\* The output is the one the journal calls published.
Issued(s) == s.published => output = s.source /\ output # "absent"

\* The plan documents: a batch that is not open yet may have one.
Drafted(s) ==
  \A d \in snapshots :
    /\ d.t <= s.next
    /\ d.t = s.next /\ ~s.open => d.frozen = s.engaged /\ d.plan \in Plans(Seen(s))

\* What has been delivered, and the open batch.
Shaped(s) ==
  /\ s.exposed = IF s.open THEN Seen(s) \cup Delivered(s.batch.plan) ELSE Seen(s)
  /\ s.open => /\ s.batch.plan \in Plans(Seen(s))
               /\ s.batch.positives = Positives(s.batch.plan, s.batch.results)
               /\ AllClosed(s) => s.batch.started = 0

\* The plans and the commits of the journal.
Planned(s) ==
  /\ s.open => \E d \in PlansRecorded : d.t = s.next /\ d.plan = s.batch.plan
  /\ \A d \in PlansRecorded : /\ Delivered(d.plan) \subseteq s.exposed
                              /\ d.t < s.next \/ (d.t = s.next /\ s.open)
  /\ \A d, e \in PlansRecorded : d.t # e.t => Delivered(d.plan) \cap Delivered(e.plan) = {}
Referred(s) ==
  /\ Commits = {s.refs[i] : i \in 1 .. Len(s.refs)}
  /\ \A i \in 1 .. Len(s.refs) : s.refs[i].t = i - 1
  /\ \A c \in Commits : \E d \in PlansRecorded : c.t = d.t /\ c.plan = d.plan

\* The terminals of the journal: every one of a pair that was delivered, and none of
\* the open batch that it has not come to.
Reached(s, pair, variant) ==
  s.open => \A j \in 1 .. Len(s.batch.plan) : s.batch.plan[j] = pair =>
    \/ j <= Len(s.batch.results)
    \/ /\ j = Len(s.batch.results) + 1
       /\ \E m \in 1 .. Len(s.batch.terms) : variant = Variants[m]
Answered(s) ==
  /\ OneTerminalEach
  /\ \A i \in RecordsOf("variant_terminal") :
       journal[i].pair \in s.exposed /\ Reached(s, journal[i].pair, journal[i].variant)

\* What the journal's last reading s says of the disk.
Told(s) == Shaped(s) /\ Planned(s) /\ Referred(s) /\ Answered(s)
Disk(s) == s \in State /\ WellFormed(s) /\ Stored(s) /\ Issued(s) /\ Drafted(s) /\ Told(s)

\* A kernel may count a run as being finalized before the journal says so.
Same(a, s) == a = [s EXCEPT !.finalized = a.finalized] /\ (s.finalized => a.finalized)

\* What s says of the process.
Memory(s) ==
  /\ Alive /\ pc # "committed" => Same(k, s) /\ Level(s)
  /\ pc = "committed" => Same(CommitTaken(k, ChunkOf(k)), s)
  /\ Alive \/ pc = "restore" => ~s.published
  /\ pc = "judged" => AllStarted(k)
  /\ pc \in {"prepared", "committed"} => pending = [state |-> "whole", chunk |-> ChunkOf(k)]

\* A reading of the journal: what a replay knows after each of its records.
Reads(h) ==
  /\ DOMAIN h = 0 .. Len(journal)
  /\ h[0] = EmptyState
  /\ \A i \in 1 .. Len(journal) :
       Accepts(h[i - 1], journal[i]) /\ h[i] = Apply(h[i - 1], journal[i])

Reading(h, s) ==
  /\ Reads(h) /\ s = h[Len(journal)] /\ Disk(s) /\ Memory(s)
  /\ pc \in {"replay", "restore"} => rp = h[cur]
Read == \E h, s : Reading(h, s)

-----------------------------------------------------------------------------
\* The positives of a batch that closes one more pair.
LEMMA PositivesNext ==
  ASSUME NEW plan, NEW results \in Seq(Answers), NEW answer \in Answers
  PROVE  Positives(plan, Append(results, answer)) =
           IF answer[1] = "positive"
           THEN Positives(plan, results) \cup {User(plan[Len(results) + 1])}
           ELSE Positives(plan, results)
<1> DEFINE n == Len(results)
           all == Append(results, answer)
<1>1. n \in Nat /\ Len(all) = n + 1 /\ all[n + 1] = answer
      /\ \A j \in 1 .. n : all[j] = results[j]
  OBVIOUS
<1> HIDE DEF n, all
<1>2. {j \in 1 .. Len(all) : all[j][1] = "positive"}
        = {j \in 1 .. n : results[j][1] = "positive"}
          \cup (IF answer[1] = "positive" THEN {n + 1} ELSE {})
  BY <1>1
<1> QED BY <1>2 DEF Positives, n, all

\* A commit adds what its plan delivers.
LEMMA SeenNext ==
  ASSUME NEW s \in State, NEW c \in Chunk
  PROVE  Seen(CommitTaken(s, c)) = Seen(s) \cup Delivered(c.plan)
<1> DEFINE refs == Append(s.refs, c)
<1>1. s.refs \in Seq(Chunk)
  BY DEF State
<1>2. Len(refs) = Len(s.refs) + 1 /\ Len(s.refs) \in Nat /\ refs[Len(s.refs) + 1] = c
      /\ \A i \in 1 .. Len(s.refs) : refs[i] = s.refs[i]
  BY <1>1
<1>3. CommitTaken(s, c).refs = refs
  BY DEF CommitTaken, State
<1> HIDE DEF refs
<1> QED BY <1>2, <1>3 DEF Seen

\* What each record changes, field by field.
Fields(s, rec, n) ==
  /\ s.exposed \subseteq n.exposed
  /\ rec.type \notin {"batch_plan", "batch_committed"} => n.batch.plan = s.batch.plan
  /\ rec.type # "batch_committed" =>
       n.next = s.next /\ n.engaged = s.engaged /\ n.refs = s.refs
  /\ rec.type \notin {"batch_plan", "batch_committed"} =>
       n.open = s.open /\ n.exposed = s.exposed
  /\ rec.type \in {"run_started", "run_finalized", "run_published"} =>
       n.batch = s.batch
  /\ rec.type = "batch_plan" =>
       /\ n.open /\ n.exposed = s.exposed \cup Delivered(rec.doc.plan)
       /\ n.batch = Opened(rec.doc.frozen, rec.doc.plan)
  /\ rec.type = "variant_started" => n.batch = [s.batch EXCEPT !.started = @ + 1]
  /\ rec.type = "variant_terminal" =>
       n.batch = [s.batch EXCEPT !.terms = Append(@, rec.outcome)]
  /\ rec.type = "pair_closed" => n.batch = Recorded(s)
  /\ rec.type = "batch_committed" =>
       /\ n.next = rec.chunk.t + 1 /\ n.engaged = s.engaged \cup rec.chunk.committed
       /\ n.exposed = s.exposed \cup Delivered(rec.chunk.plan)
       /\ n.refs = Append(s.refs, rec.chunk) /\ ~n.open
       /\ n = CommitTaken(Counted(s), rec.chunk)
  /\ rec.type # "run_published" => n.published = s.published
  /\ rec.type = "run_published" => n.published /\ n.source = rec.source

\* Apply changes those fields and no other way.
LEMMA ApplyFields ==
  ASSUME NEW s \in State, NEW rec \in Record
  PROVE  Fields(s, rec, Apply(s, rec))
<1> USE DEF Fields, Apply, Counted, State
<1>a. s.batch \in Batch
  OBVIOUS
<1>1. CASE rec.type = "run_started"
  BY <1>1
<1>2. CASE rec.type = "batch_plan"
  BY <1>2 DEF PlanTaken
<1>3. CASE rec.type = "variant_started"
  BY <1>a, <1>3 DEF VariantCounted, Batch
<1>4. CASE rec.type = "variant_terminal"
  BY <1>a, <1>4 DEF TerminalTaken, Batch
<1>5. CASE rec.type = "pair_closed"
  BY <1>5 DEF PairRecorded, Recorded
<1>6. CASE rec.type = "batch_committed"
  BY <1>6 DEF CommitTaken
<1>7. CASE rec.type = "run_finalized"
  BY <1>7 DEF Finalized
<1>8. CASE rec.type = "run_published"
  BY <1>8 DEF Published, Finalized
<1> QED BY <1>1, <1>2, <1>3, <1>4, <1>5, <1>6, <1>7, <1>8, RecordFields DEF Types

\* A record the replay takes keeps the shape of what was delivered, if the plan it
\* opens a batch with, or the chunk it commits, is the one due.
Due(s, rec) ==
  /\ rec.type = "batch_plan" => rec.doc.plan \in Plans(Seen(s))
  /\ rec.type = "batch_committed" => rec.chunk = ChunkOf(s)

\* Each part of Told, record by record.
LEMMA ShapedNext ==
  ASSUME NEW s \in State, WellFormed(s), Shaped(s), NEW rec \in Record,
         Accepts(s, rec), Due(s, rec), NEW n, n = Apply(s, rec)
  PROVE  Shaped(n)
<1>f. Fields(s, rec, n)
  BY ApplyFields
<1>2. s.batch \in Batch /\ s.refs \in Seq(Chunk)
  BY DEF State
<1>3. n.refs = s.refs => Seen(n) = Seen(s)
  BY DEF Seen
<1>4. CASE rec.type \in {"run_started", "run_finalized", "run_published"}
  <2>1. n.refs = s.refs /\ n.open = s.open /\ n.exposed = s.exposed /\ n.batch = s.batch
    BY <1>4, <1>f DEF Fields
  <2> QED BY <1>3, <2>1 DEF Shaped, AllClosed
<1>5. CASE rec.type = "batch_plan"
  <2>1. /\ n.refs = s.refs /\ n.open /\ n.exposed = s.exposed \cup Delivered(rec.doc.plan)
        /\ n.batch = Opened(rec.doc.frozen, rec.doc.plan)
    BY <1>5, <1>f DEF Fields
  <2>2. ~s.open /\ rec.doc.plan \in Plans(Seen(s))
    BY <1>5 DEF Accepts, Due
  <2>3. /\ n.batch.plan = rec.doc.plan /\ n.batch.positives = {} /\ n.batch.results = <<>>
        /\ n.batch.started = 0
    BY <2>1 DEF Opened
  <2>4. Positives(n.batch.plan, n.batch.results) = {}
    BY <2>3 DEF Positives
  <2> QED BY <1>3, <2>1, <2>2, <2>3, <2>4 DEF Shaped
<1>6. CASE rec.type \in {"variant_started", "variant_terminal"}
  <2>1. n.refs = s.refs /\ n.open = s.open /\ n.exposed = s.exposed
    BY <1>6, <1>f DEF Fields
  <2>2. /\ n.batch.plan = s.batch.plan /\ n.batch.results = s.batch.results
        /\ n.batch.positives = s.batch.positives
    <3>1. rec.type = "variant_started" => n.batch = [s.batch EXCEPT !.started = @ + 1]
      BY <1>f DEF Fields
    <3>2. rec.type = "variant_terminal" =>
            n.batch = [s.batch EXCEPT !.terms = Append(@, rec.outcome)]
      BY <1>f DEF Fields
    <3> QED BY <1>2, <1>6, <3>1, <3>2 DEF Batch
  <2>3. s.open /\ ~AllClosed(s)
    BY <1>6 DEF Accepts
  <2> QED BY <1>3, <2>1, <2>2, <2>3 DEF Shaped, AllClosed
<1>7. CASE rec.type = "pair_closed"
  <2>1. n.refs = s.refs /\ n.open = s.open /\ n.exposed = s.exposed /\ n.batch = Recorded(s)
    BY <1>7, <1>f DEF Fields
  <2>2. s.open /\ ~AllClosed(s) /\ AllTerminal(s)
    BY <1>7 DEF Accepts
  <2>3. s.batch.terms \in Answers /\ s.batch.results \in Seq(Answers)
    BY <1>2, <2>2, AnswerTyped DEF Batch
  <2>4. /\ n.batch.plan = s.batch.plan /\ n.batch.started = 0
        /\ n.batch.results = Append(s.batch.results, s.batch.terms)
        /\ n.batch.positives = IF s.batch.terms[1] = "positive"
                               THEN s.batch.positives
                                      \cup {User(s.batch.plan[Len(s.batch.results) + 1])}
                               ELSE s.batch.positives
    BY <2>1 DEF Recorded, CampaignAnswer, CurrentPair
  <2>5. n.batch.positives = Positives(n.batch.plan, n.batch.results)
    <3>1. Positives(s.batch.plan, Append(s.batch.results, s.batch.terms)) =
            IF s.batch.terms[1] = "positive"
            THEN Positives(s.batch.plan, s.batch.results)
                   \cup {User(s.batch.plan[Len(s.batch.results) + 1])}
            ELSE Positives(s.batch.plan, s.batch.results)
      BY <2>3, PositivesNext
    <3>2. s.batch.positives = Positives(s.batch.plan, s.batch.results)
      BY <2>2 DEF Shaped
    <3> QED BY <2>4, <3>1, <3>2
  <2> QED BY <1>3, <2>1, <2>2, <2>4, <2>5 DEF Shaped
<1>8. CASE rec.type = "batch_committed"
  <2> DEFINE c == rec.chunk
  <2>1. s.open /\ c = ChunkOf(s) /\ c \in Chunk
    BY <1>8, RecordFields DEF Accepts, Due
  <2>2. ~n.open /\ n.exposed = s.exposed \cup Delivered(c.plan)
        /\ n = CommitTaken(Counted(s), c)
    BY <1>8, <1>f DEF Fields
  <2>3. Counted(s) \in State /\ Counted(s).refs = s.refs
    BY CountedTyped
  <2>4. Seen(n) = Seen(s) \cup Delivered(c.plan)
    BY <2>1, <2>2, <2>3, SeenNext DEF Seen
  <2>5. s.exposed = Seen(s) \cup Delivered(c.plan)
    BY <2>1 DEF Shaped, ChunkOf
  <2> HIDE DEF c
  <2> QED BY <2>2, <2>4, <2>5 DEF Shaped
<1> QED BY <1>4, <1>5, <1>6, <1>7, <1>8, RecordFields DEF Types

\* What an append adds to the plans and the terminals of the journal.
LEMMA RecordsAppended ==
  ASSUME journal \in Seq(Record), NEW rec \in Record, journal' = Append(journal, rec)
  PROVE  /\ \A type \in Types :
              RecordsOf(type)' = RecordsOf(type) \cup
                (IF rec.type = type THEN {Len(journal) + 1} ELSE {})
         /\ PlansRecorded' = PlansRecorded \cup
              (IF rec.type = "batch_plan" THEN {rec.doc} ELSE {})
<1>1. Len(journal') = Len(journal) + 1 /\ Len(journal) \in Nat
      /\ (\A i \in 1 .. Len(journal) : journal'[i] = journal[i])
      /\ journal'[Len(journal) + 1] = rec
  OBVIOUS
<1>2. ASSUME NEW type
      PROVE  RecordsOf(type)' = RecordsOf(type) \cup
               (IF rec.type = type THEN {Len(journal) + 1} ELSE {})
  BY <1>1 DEF RecordsOf
<1>3. \A i \in RecordsOf("batch_plan") : journal'[i] = journal[i]
  BY <1>1 DEF RecordsOf
<1> QED BY <1>1, <1>2, <1>3 DEF PlansRecorded

LEMMA PlannedNext ==
  ASSUME journal \in Seq(Record), NEW rec \in Record, journal' = Append(journal, rec),
         NEW s \in State, WellFormed(s), Shaped(s), Planned(s),
         Accepts(s, rec), Due(s, rec), NEW n, n = Apply(s, rec)
  PROVE  Planned(n)'
<1>f. Fields(s, rec, n)
  BY ApplyFields
<1>1. s.next \in Nat
  BY HorizonAssumption DEF State
<1>2. PlansRecorded' = PlansRecorded \cup (IF rec.type = "batch_plan" THEN {rec.doc} ELSE {})
  BY RecordsAppended
<1>3. s.exposed \subseteq n.exposed
  BY <1>f DEF Fields
<1>4. CASE rec.type \notin {"batch_plan", "batch_committed"}
  <2>1. n.open = s.open /\ n.next = s.next
    BY <1>4, <1>f DEF Fields
  <2>2. n.batch.plan = s.batch.plan
    BY <1>4, <1>f DEF Fields
  <2>3. PlansRecorded' = PlansRecorded
    BY <1>2, <1>4
  <2> QED BY <1>3, <2>1, <2>2, <2>3 DEF Planned
<1>5. CASE rec.type = "batch_plan"
  <2> DEFINE doc == rec.doc
  <2>1. /\ n.next = s.next /\ n.open /\ n.exposed = s.exposed \cup Delivered(doc.plan)
        /\ n.batch.plan = doc.plan
    BY <1>5, <1>f DEF Opened, Fields
  <2>2. ~s.open /\ doc.t = s.next /\ Delivered(doc.plan) \cap s.exposed = {}
    BY <1>5 DEF Accepts
  <2>3. PlansRecorded' = PlansRecorded \cup {doc}
    BY <1>2, <1>5
  <2>4. \A d \in PlansRecorded : Delivered(d.plan) \subseteq s.exposed /\ d.t < s.next
    BY <2>2 DEF Planned
  <2> HIDE DEF doc
  <2>5. \A d, e \in PlansRecorded' : d.t # e.t => Delivered(d.plan) \cap Delivered(e.plan) = {}
    BY <2>2, <2>3, <2>4 DEF Planned
  <2> QED BY <1>3, <2>1, <2>2, <2>3, <2>4, <2>5 DEF Planned
<1>6. CASE rec.type = "batch_committed"
  <2>1. rec.chunk.t = s.next
    BY <1>6 DEF Accepts
  <2>2. n.next = s.next + 1 /\ ~n.open
    BY <1>6, <2>1, <1>f DEF Fields
  <2>3. PlansRecorded' = PlansRecorded
    BY <1>2, <1>6
  <2>4. \A d \in PlansRecorded : d.t < s.next \/ d.t = s.next
    BY DEF Planned
  <2>5. \A d \in PlansRecorded : d.t < n.next
    <3> TAKE d \in PlansRecorded
    <3>1. PICK i \in RecordsOf("batch_plan") : d = journal[i].doc
      BY DEF PlansRecorded
    <3>2. d.t \in Int
      BY <3>1, HorizonAssumption DEF RecordsOf, Record, Document
    <3> QED BY <1>1, <2>2, <2>4, <3>2
  <2> QED BY <1>3, <2>2, <2>3, <2>5 DEF Planned
<1> QED BY <1>4, <1>5, <1>6

LEMMA ReferredNext ==
  ASSUME journal \in Seq(Record), NEW rec \in Record, journal' = Append(journal, rec),
         NEW s \in State, WellFormed(s), Planned(s), Referred(s),
         Accepts(s, rec), Due(s, rec), NEW n, n = Apply(s, rec)
  PROVE  Referred(n)'
<1>f. Fields(s, rec, n)
  BY ApplyFields
<1>1. s.refs \in Seq(Chunk) /\ s.next = Len(s.refs)
  BY DEF State, WellFormed
<1>2. PlansRecorded \subseteq PlansRecorded'
  BY RecordsAppended
<1>3. Commits' = Commits \cup Committed(rec)
  BY CommitsAppended
<1>4. CASE rec.type # "batch_committed"
  <2>1. n.refs = s.refs /\ Commits' = Commits
    BY <1>3, <1>4, <1>f DEF Committed, Fields
  <2>2. \A c \in Commits' : \E d \in PlansRecorded' : c.t = d.t /\ c.plan = d.plan
    BY <1>2, <2>1, Zenon DEF Referred
  <2>3. Commits' = {n.refs[i] : i \in 1 .. Len(n.refs)}
    BY <2>1 DEF Referred
  <2>4. \A i \in 1 .. Len(n.refs) : n.refs[i].t = i - 1
    BY <2>1 DEF Referred
  <2> QED BY <2>2, <2>3, <2>4 DEF Referred
<1>5. CASE rec.type = "batch_committed"
  <2> DEFINE c    == rec.chunk
             refs == Append(s.refs, c)
  <2>1. c \in Chunk /\ s.open /\ c.t = s.next /\ c.plan = s.batch.plan
    BY <1>5, RecordFields DEF Accepts, Due, ChunkOf
  <2>2. n.refs = refs /\ Commits' = Commits \cup {c}
    BY <1>3, <1>5, <1>f DEF Committed, Fields
  <2>3. Len(refs) = Len(s.refs) + 1 /\ Len(s.refs) \in Nat /\ refs[Len(s.refs) + 1] = c
        /\ \A i \in 1 .. Len(s.refs) : refs[i] = s.refs[i]
    BY <1>1
  <2>4. \E d \in PlansRecorded : d.t = c.t /\ d.plan = c.plan
    BY <2>1 DEF Planned
  <2> HIDE DEF refs, c
  <2> DEFINE m == Len(s.refs)
  <2>a. /\ 1 .. Len(n.refs) = (1 .. m) \cup {m + 1} /\ m \in Nat
        /\ n.refs[m + 1] = c /\ \A i \in 1 .. m : n.refs[i] = s.refs[i]
    BY <2>2, <2>3
  <2>b. Commits = {s.refs[i] : i \in 1 .. m} /\ \A i \in 1 .. m : s.refs[i].t = i - 1
    BY DEF Referred
  <2>c. c.t = m
    BY <1>1, <2>1
  <2> HIDE DEF m
  <2>5. Commits' = {n.refs[i] : i \in 1 .. Len(n.refs)}
    <3>1. \A i \in 1 .. Len(n.refs) : n.refs[i] \in Commits'
      BY <2>2, <2>a, <2>b
    <3>2. ASSUME NEW x \in Commits' PROVE \E i \in 1 .. Len(n.refs) : x = n.refs[i]
      BY <2>2, <2>a, <2>b
    <3> QED BY <3>1, <3>2
  <2>6. \A i \in 1 .. Len(n.refs) : n.refs[i].t = i - 1
    <3>1. \A i \in 1 .. m : n.refs[i].t = i - 1
      BY <2>a, <2>b
    <3>2. n.refs[m + 1].t = m + 1 - 1
      BY <2>a, <2>c
    <3>3. ASSUME NEW i \in (1 .. m) \cup {m + 1} PROVE n.refs[i].t = i - 1
      <4>1. CASE i \in 1 .. m
        BY <3>1, <4>1
      <4>2. CASE i = m + 1
        BY <2>a, <3>2, <4>2
      <4> QED BY <4>1, <4>2
    <3> QED BY <2>a, <3>3
  <2>7. \A x \in Commits' : \E d \in PlansRecorded' : x.t = d.t /\ x.plan = d.plan
    BY <1>2, <2>2, <2>4 DEF Referred
  <2> QED BY <2>5, <2>6, <2>7 DEF Referred
<1> QED BY <1>4, <1>5

\* A record moves the open batch past no pair that has no terminal.
LEMMA ReachedNext ==
  ASSUME NEW s \in State, NEW rec \in Record, Accepts(s, rec), NEW n, n = Apply(s, rec),
         NEW pair \in s.exposed, NEW variant, Reached(s, pair, variant)
  PROVE  Reached(n, pair, variant)
<1>f. Fields(s, rec, n)
  BY ApplyFields
<1>a. s.batch \in Batch
  BY DEF State
<1>1. pair \in s.exposed /\ Reached(s, pair, variant)
  OBVIOUS
<1>2. CASE rec.type \in {"run_started", "run_finalized", "run_published"}
  <2>1. n.open = s.open /\ n.batch = s.batch
    BY <1>f, <1>2 DEF Fields
  <2> QED BY <1>1, <2>1 DEF Reached
<1>3. CASE rec.type = "batch_plan"
  <2>1. n.batch.plan = rec.doc.plan
    BY <1>f, <1>3 DEF Fields, Opened
  <2>2. pair \notin Delivered(n.batch.plan)
    BY <1>1, <1>3, <2>1 DEF Accepts
  <2> QED BY <2>2 DEF Reached, Delivered
<1>4. CASE rec.type = "variant_started"
  <2>1. n.open = s.open /\ n.batch = [s.batch EXCEPT !.started = @ + 1]
    BY <1>f, <1>4 DEF Fields
  <2>2. /\ n.batch.plan = s.batch.plan /\ n.batch.results = s.batch.results
        /\ n.batch.terms = s.batch.terms
    BY <1>a, <2>1 DEF Batch
  <2> QED BY <1>1, <2>1, <2>2 DEF Reached
<1>5. CASE rec.type = "variant_terminal"
  <2>1. n.open = s.open /\ n.batch = [s.batch EXCEPT !.terms = Append(@, rec.outcome)]
    BY <1>f, <1>5 DEF Fields
  <2>2. /\ n.batch.plan = s.batch.plan /\ n.batch.results = s.batch.results
        /\ n.batch.terms = Append(s.batch.terms, rec.outcome)
    BY <1>a, <2>1 DEF Batch
  <2>3. 1 .. Len(s.batch.terms) \subseteq 1 .. Len(n.batch.terms)
    <3>1. rec.outcome \in Outcomes /\ s.batch.terms \in Seq(Outcomes)
      BY <1>a, <1>5, RecordFields DEF Batch
    <3>2. Len(n.batch.terms) = Len(s.batch.terms) + 1 /\ Len(s.batch.terms) \in Nat
      BY <2>2, <3>1
    <3> QED BY <3>2
  <2> QED BY <1>1, <2>1, <2>2, <2>3 DEF Reached
<1>6. CASE rec.type = "pair_closed"
  <2>1. s.open /\ n.batch = Recorded(s) /\ AllTerminal(s)
    BY <1>f, <1>6 DEF Fields, Accepts
  <2>2. n.batch.plan = s.batch.plan /\ n.batch.results = Append(s.batch.results, s.batch.terms)
    BY <2>1 DEF Recorded
  <2>3. Len(n.batch.results) = Len(s.batch.results) + 1 /\ Len(s.batch.results) \in Nat
    <3>1. s.batch.results \in Seq(Answers)
      BY <1>a DEF Batch
    <3> QED BY <2>2, <3>1
  <2>4. ASSUME NEW j \in 1 .. Len(n.batch.plan), n.batch.plan[j] = pair
        PROVE  j <= Len(n.batch.results)
    <3>1. j <= Len(s.batch.results) \/ j = Len(s.batch.results) + 1
      BY <1>1, <2>1, <2>2, <2>4 DEF Reached
    <3> QED BY <2>3, <3>1
  <2> QED BY <2>4 DEF Reached
<1>7. CASE rec.type = "batch_committed"
  BY <1>f, <1>7 DEF Fields, Reached
<1> QED BY <1>2, <1>3, <1>4, <1>5, <1>6, <1>7, RecordFields DEF Types

\* A terminal the replay takes is of a pair and variant that has none yet.
LEMMA AnsweredNext ==
  ASSUME journal \in Seq(Record), NEW rec \in Record, journal' = Append(journal, rec),
         NEW s \in State, WellFormed(s), Shaped(s), Answered(s),
         Accepts(s, rec), Due(s, rec), NEW n, n = Apply(s, rec)
  PROVE  Answered(n)'
<1>f. Fields(s, rec, n)
  BY ApplyFields
<1> DEFINE last == Len(journal) + 1
<1>1. s.batch \in Batch /\ Len(journal) \in Nat
  BY DEF State
<1>2. \A i \in RecordsOf("variant_terminal") : i \in 1 .. Len(journal)
  BY DEF RecordsOf
<1>3. journal'[last] = rec /\ \A i \in RecordsOf("variant_terminal") : journal'[i] = journal[i]
  BY DEF RecordsOf
<1>4. RecordsOf("variant_terminal")' = RecordsOf("variant_terminal")
        \cup (IF rec.type = "variant_terminal" THEN {last} ELSE {})
  <2>1. "variant_terminal" \in Types
    BY DEF Types
  <2> QED BY <2>1, RecordsAppended
<1>5. ASSUME NEW i \in RecordsOf("variant_terminal")
      PROVE  journal[i].pair \in n.exposed
  BY <1>f DEF Fields, Answered
<1>6. ASSUME NEW i \in RecordsOf("variant_terminal")
      PROVE  Reached(n, journal[i].pair, journal[i].variant)
  BY ReachedNext DEF Answered
<1>7. CASE rec.type # "variant_terminal"
  <2>1. RecordsOf("variant_terminal")' = RecordsOf("variant_terminal")
    BY <1>4, <1>7
  <2>2. \A i, j \in RecordsOf("variant_terminal") :
          journal[i].pair = journal[j].pair /\ journal[i].variant = journal[j].variant => i = j
    BY DEF Answered, OneTerminalEach
  <2>3. ASSUME NEW i \in RecordsOf("variant_terminal")',
               NEW j \in RecordsOf("variant_terminal")',
               journal'[i].pair = journal'[j].pair, journal'[i].variant = journal'[j].variant
        PROVE  i = j
    <3>1. i \in RecordsOf("variant_terminal") /\ j \in RecordsOf("variant_terminal")
      BY <2>1
    <3> QED BY <1>3, <2>2, <2>3, <3>1
  <2>4. \A i \in RecordsOf("variant_terminal")' :
          /\ journal'[i].pair \in n.exposed
          /\ Reached(n, journal'[i].pair, journal'[i].variant)
    BY <1>3, <1>5, <1>6, <2>1
  <2> QED BY <2>3, <2>4 DEF Answered, OneTerminalEach
<1>8. CASE rec.type = "variant_terminal"
  <2> DEFINE at == Len(s.batch.results) + 1
             m  == Len(s.batch.terms) + 1
  <2>1. /\ s.open /\ ~AllClosed(s) /\ ~AllTerminal(s)
        /\ rec.pair = s.batch.plan[at] /\ rec.variant = Variants[m]
    BY <1>8 DEF Accepts, CurrentPair
  <2>2. at \in 1 .. Len(s.batch.plan) /\ m \in 1 .. Len(Variants)
    <3>1. Len(s.batch.results) \in Nat /\ Len(s.batch.plan) \in Nat
          /\ Len(s.batch.terms) \in Nat
          /\ Len(Variants) \in Nat
      <4>1. Len(Variants) \in Nat
        BY VariantsAssumption
      <4>2. /\ s.batch.results \in Seq(Answers) /\ s.batch.plan \in Seq(Pairs)
            /\ s.batch.terms \in Seq(Outcomes)
        BY <1>1 DEF Batch
      <4> QED BY <4>1, <4>2
    <3>2. /\ Len(s.batch.results) # Len(s.batch.plan)
          /\ Len(s.batch.results) <= Len(s.batch.plan)
      BY <2>1 DEF WellFormed, AllClosed
    <3>3. Len(s.batch.terms) # Len(Variants) /\ Len(s.batch.terms) <= Len(Variants)
      BY <2>1 DEF WellFormed, AllTerminal
    <3>4. \A a, b \in Nat : a # b /\ a <= b => a + 1 \in 1 .. b
      OBVIOUS
    <3> QED BY <3>1, <3>2, <3>3, <3>4
  <2>3. rec.pair \in s.exposed
    BY <2>1, <2>2 DEF Shaped, Delivered
  <2>4. /\ n.open /\ n.batch.plan = s.batch.plan /\ n.batch.results = s.batch.results
        /\ n.batch.terms = Append(s.batch.terms, rec.outcome)
    BY <1>1, <1>8, <1>f, <2>1 DEF Fields, Batch
  <2>5. m \in 1 .. Len(n.batch.terms)
    <3>1. rec.outcome \in Outcomes /\ s.batch.terms \in Seq(Outcomes)
      BY <1>1, <1>8, RecordFields DEF Batch
    <3> QED BY <2>4, <3>1
  <2>6. \A j \in 1 .. Len(s.batch.plan) : s.batch.plan[j] = rec.pair => j = at
    <3>1. s.batch.plan \in Plans(Seen(s))
      BY <2>1 DEF Shaped
    <3>2. \A i, j \in DOMAIN s.batch.plan : i < j => s.batch.plan[i] # s.batch.plan[j]
      BY <3>1 DEF Plans
    <3>3. DOMAIN s.batch.plan = 1 .. Len(s.batch.plan)
      BY <1>1 DEF Batch
    <3>4. at \in Int /\ at \in DOMAIN s.batch.plan /\ s.batch.plan[at] = rec.pair
      BY <2>1, <2>2, <3>3
    <3> HIDE DEF at
    <3> TAKE j \in 1 .. Len(s.batch.plan)
    <3> HAVE s.batch.plan[j] = rec.pair
    <3>5. j \in Int /\ j \in DOMAIN s.batch.plan
      BY <3>3
    <3>6. ~(j < at) /\ ~(at < j)
      BY <3>2, <3>4, <3>5, Zenon
    <3> QED BY <3>4, <3>5, <3>6
  <2>7. Reached(n, rec.pair, rec.variant)
    BY <2>1, <2>4, <2>5, <2>6 DEF Reached
  <2>8. ASSUME NEW i \in RecordsOf("variant_terminal"),
               journal[i].pair = rec.pair, journal[i].variant = rec.variant
        PROVE  FALSE
    <3>1. Reached(s, rec.pair, rec.variant)
      BY <2>8 DEF Answered
    <3>2. at <= Len(s.batch.results) 
          \/ \E x \in 1 .. Len(s.batch.terms) : rec.variant = Variants[x]
      BY <2>1, <2>2, <3>1 DEF Reached
    <3>3. Len(s.batch.results) \in Nat /\ Len(s.batch.terms) \in Nat
      BY <1>1 DEF Batch
    <3>4. PICK x \in 1 .. Len(s.batch.terms) : Variants[m] = Variants[x]
      BY <2>1, <3>2, <3>3
    <3>5. x < m /\ x \in Nat /\ m \in Nat /\ m <= Len(Variants) /\ x >= 1
      BY <2>2, <3>3
    <3> HIDE DEF m
    <3>6. x = 1 /\ m = 2 /\ Variants = <<"primary", "shadow">>
      <4>1. CASE Variants = <<"primary">>
        <5>1. Len(Variants) = 1
          BY <4>1
        <5> QED BY <3>5, <5>1
      <4>2. CASE Variants = <<"primary", "shadow">>
        <5>1. Len(Variants) = 2
          BY <4>2
        <5> QED BY <3>5, <4>2, <5>1
      <4> QED BY <4>1, <4>2, VariantsAssumption
    <3> QED BY <3>4, <3>6
  <2>9. RecordsOf("variant_terminal")' = RecordsOf("variant_terminal") \cup {last}
    BY <1>4, <1>8
  <2>a. \A i, j \in RecordsOf("variant_terminal") :
          journal[i].pair = journal[j].pair /\ journal[i].variant = journal[j].variant => i = j
    BY DEF Answered, OneTerminalEach
  <2>b. rec.pair \in n.exposed
    BY <1>f, <2>3 DEF Fields
  <2> HIDE DEF last, at, m
  <2>c. ASSUME NEW i \in RecordsOf("variant_terminal")',
               NEW j \in RecordsOf("variant_terminal")',
               journal'[i].pair = journal'[j].pair, journal'[i].variant = journal'[j].variant
        PROVE  i = j
    <3>1. /\ i \in RecordsOf("variant_terminal") \cup {last}
          /\ j \in RecordsOf("variant_terminal") \cup {last}
      BY <2>9
    <3>2. CASE i \in RecordsOf("variant_terminal") /\ j \in RecordsOf("variant_terminal")
      BY <1>3, <2>a, <2>c, <3>2
    <3>3. CASE i = last /\ j \in RecordsOf("variant_terminal")
      BY <1>3, <2>8, <2>c, <3>3
    <3>4. CASE j = last /\ i \in RecordsOf("variant_terminal")
      BY <1>3, <2>8, <2>c, <3>4
    <3> QED BY <3>1, <3>2, <3>3, <3>4
  <2>d. \A i \in RecordsOf("variant_terminal")' :
          /\ journal'[i].pair \in n.exposed
          /\ Reached(n, journal'[i].pair, journal'[i].variant)
    BY <1>3, <1>5, <1>6, <2>7, <2>9, <2>b
  <2> QED BY <2>c, <2>d DEF Answered, OneTerminalEach
<1> QED BY <1>7, <1>8

-----------------------------------------------------------------------------
\* A reading of the journal, from one step to the next.

\* A step that leaves the journal alone leaves the reading of it.
LEMMA ReadKept ==
  ASSUME UNCHANGED journal, snapshots \subseteq snapshots',
         NEW h, Reads(h), NEW s, s = h[Len(journal)], Disk(s),
         Stored(s)', Issued(s)', Drafted(s)', Memory(s)',
         (pc \in {"replay", "restore"} => rp = h[cur])'
  PROVE  Read'
<1>1. Reads(h)'
  <2>1. ASSUME NEW i \in 1 .. Len(journal)
        PROVE  Accepts(h[i - 1], journal[i])'
    <3>1. Accepts(h[i - 1], journal[i])
      BY DEF Reads
    <3> QED BY <3>1 DEF Accepts
  <2> QED BY <2>1 DEF Reads
<1>2. PlansRecorded' = PlansRecorded /\ Commits' = Commits
      /\ RecordsOf("variant_terminal")' = RecordsOf("variant_terminal")
  BY DEF PlansRecorded, Commits, CommitsBefore, RecordsOf
<1>6. Told(s)'
  <2>1. Shaped(s) /\ Planned(s)' /\ Referred(s)' /\ Answered(s)'
    BY <1>2 DEF Disk, Told, Planned, Referred, Answered, OneTerminalEach
  <2> QED BY <2>1 DEF Told
<1>8. Disk(s)'
  BY <1>6 DEF Disk
<1>9. Reading(h, s)'
  BY <1>1, <1>8 DEF Reading
<1> QED BY <1>9 DEF Read

\* One that appends a record the replay takes extends it by that record.
LEMMA ReadAppended ==
  ASSUME Typed, NEW rec \in Record, journal' = Append(journal, rec), UNCHANGED snapshots,
         NEW h, Reads(h), NEW m \in Nat, m = Len(journal), NEW s, s = h[m], Disk(s),
         Accepts(s, rec), Due(s, rec), NEW n, n = Apply(s, rec),
         Stored(n)', Issued(n)', Memory(n)',
         (pc \notin {"replay", "restore"})'
  PROVE  Read'
<1> DEFINE last == m + 1
           g == [i \in 0 .. last |-> IF i < last THEN h[i] ELSE n]
<1>1. journal \in Seq(Record) /\ s \in State /\ WellFormed(s)
  BY DEF Typed, TypeOK, Disk
<1>2. Len(journal') = last /\ journal'[last] = rec
      /\ \A i \in 1 .. Len(journal) : journal'[i] = journal[i]
  BY <1>1
<1>3. n \in State /\ WellFormed(n)
  BY <1>1, ApplyTyped
<1>4. Drafted(n)'
  <2>1. ASSUME NEW d \in snapshots
        PROVE  /\ d.t <= n.next
               /\ d.t = n.next /\ ~n.open => d.frozen = n.engaged /\ d.plan \in Plans(Seen(n))
    <3>f. Fields(s, rec, n)
      BY <1>1, ApplyFields
    <3>1. /\ d.t <= s.next
          /\ d.t = s.next /\ ~s.open => d.frozen = s.engaged /\ d.plan \in Plans(Seen(s))
      BY DEF Disk, Drafted
    <3>2. d.t \in Int /\ s.next \in Int
      <4>1. d \in Document
        BY DEF Typed, TypeOK
      <4>2. d.t \in 0 .. Horizon - 1 /\ s.next \in 0 .. Horizon
        BY <1>1, <4>1 DEF Document, State
      <4> QED BY <4>2, HorizonAssumption
    <3>3. CASE rec.type = "batch_committed"
      <4>1. n.next = s.next + 1
        BY <3>f, <3>3 DEF Fields, Accepts
      <4> QED BY <3>1, <3>2, <4>1
    <3>4. CASE rec.type # "batch_committed"
      <4>1. n.next = s.next /\ n.engaged = s.engaged /\ n.refs = s.refs /\ (s.open => n.open)
        BY <3>f, <3>4 DEF Fields
      <4>2. Seen(n) = Seen(s)
        BY <4>1 DEF Seen
      <4> QED BY <3>1, <4>1, <4>2
    <3> QED BY <3>3, <3>4
  <2> QED BY <2>1 DEF Drafted
<1>5. Told(n)'
  <2>1. Shaped(n)
    BY <1>1, ShapedNext DEF Disk, Told
  <2>2. Planned(n)' /\ Referred(n)' /\ Answered(n)'
    BY <1>1, PlannedNext, ReferredNext, AnsweredNext DEF Disk, Told
  <2> QED BY <2>1, <2>2 DEF Told, Shaped, Seen, AllClosed
<1>6. Disk(n)'
  BY <1>3, <1>4, <1>5 DEF Disk, WellFormed
<1>7. Reads(g)'
  <2>1. DOMAIN g = 0 .. last /\ g[0] = EmptyState
    BY <1>2 DEF Reads
  <2>2. ASSUME NEW i \in 1 .. last
        PROVE  Accepts(g[i - 1], journal[i])' /\ g[i] = Apply(g[i - 1], journal'[i])
    <3>1. CASE i = last
      <4>1. g[i - 1] = s /\ g[i] = n /\ journal'[i] = rec
        BY <1>2, <3>1
      <4> QED BY <4>1 DEF Accepts
    <3>2. CASE i # last
      <4>1. i \in 1 .. Len(journal)
        BY <1>2, <3>2
      <4>2. g[i - 1] = h[i - 1] /\ g[i] = h[i] /\ journal'[i] = journal[i]
        BY <1>2, <4>1
      <4>3. Accepts(h[i - 1], journal[i]) /\ h[i] = Apply(h[i - 1], journal[i])
        BY <4>1 DEF Reads
      <4> QED BY <4>2, <4>3 DEF Accepts
    <3> QED BY <3>1, <3>2
  <2> HIDE DEF g
  <2> QED BY <1>2, <2>1, <2>2 DEF Reads
<1>8. g[Len(journal')] = n
  BY <1>2
<1> HIDE DEF g
<1>9. Reading(g, n)'
  BY <1>6, <1>7, <1>8 DEF Reading
<1> QED BY <1>9 DEF Read

\* What a process that is gone leaves is what the disk says.
LEMMA ReadGone ==
  ASSUME pc' \in AtRest \cup {"locked"},
         UNCHANGED <<snapshots, journal, spool, pending, output>>,
         NEW h, Reads(h), NEW s, s = h[Len(journal)], Disk(s)
  PROVE  Read'
<1>1. Memory(s)'
  BY DEF Memory, Alive, Running, Finalizing, AtRest
<1>2. Stored(s)' /\ Issued(s)' /\ Drafted(s)'
  BY DEF Disk, Stored, Level, Behind, Issued, Drafted, ChunkOf, AllClosed
<1> QED BY <1>1, <1>2, ReadKept DEF AtRest

\* An append, completed or not: what is left to show is what the process knows when
\* it completes.
LEMMA PersistRead ==
  ASSUME Typed, Alive, pc \notin {"replay", "committed"}, NEW rec \in Record, NEW k1,
         NEW at, at \notin {"replay", "restore"}, Persist(rec, k1, at),
         NEW h, Reads(h), NEW s, s = h[Len(journal)], Disk(s), Memory(s),
         Accepts(s, rec), Due(s, rec), NEW n, n = Apply(s, rec),
         rec.type # "batch_committed" => pending.state = "none",
         rec.type = "batch_committed" => pending = [state |-> "whole", chunk |-> ChunkOf(s)],
         rec.type = "run_published" => rec.source = output /\ output # "absent",
         Appended(rec, k1, at) => Memory(n)'
  PROVE  Read'
<1>1. UNCHANGED <<workspace, snapshots, pending, spool, staging, output>>
  BY DEF Persist
<1>2. CASE Die /\ UNCHANGED journal
  BY <1>1, <1>2, ReadGone DEF Die, AtRest
<1>3. CASE journal' = Append(journal, rec) /\ (Die \/ Appended(rec, k1, at))
  <2>1. s \in State /\ ~s.published /\ Level(s)
    BY DEF Disk, Memory, Alive
  <2>f. Fields(s, rec, n)
    BY <2>1, ApplyFields
  <2>2. Stored(n)'
    <3>1. CASE rec.type # "batch_committed"
      BY <1>1, <2>1, <2>f, <3>1 DEF Fields, Stored, Level
    <3>2. CASE rec.type = "batch_committed"
      <4>1. n.refs = Append(s.refs, rec.chunk) /\ ~n.open /\ rec.chunk = ChunkOf(s)
        BY <2>f, <3>2 DEF Fields, Due
      <4> QED BY <1>1, <2>1, <3>2, <4>1 DEF Stored, Level, Behind
    <3> QED BY <3>1, <3>2
  <2>3. Issued(n)'
    BY <1>1, <2>1, <2>f DEF Fields, Issued
  <2>4. Memory(n)'
    <3>1. CASE Die
      BY <3>1 DEF Memory, Alive, Running, Finalizing, Die
    <3> QED BY <1>3, <3>1
  <2>5. (pc \notin {"replay", "restore"})'
    BY <1>3 DEF Die, Appended
  <2>6. Len(journal) \in Nat
    BY DEF Typed, TypeOK
  <2> QED BY <1>1, <1>3, <2>2, <2>3, <2>4, <2>5, <2>6, ReadAppended
<1> QED BY <1>1, <1>2, <1>3 DEF Persist, Appended

-----------------------------------------------------------------------------
\* The kernel and the journal's reading.

\* They differ in one field at most.
LEMMA SameFields ==
  ASSUME NEW a \in State, NEW s \in State, Same(a, s)
  PROVE  /\ a.records = s.records /\ a.next = s.next /\ a.engaged = s.engaged
         /\ a.exposed = s.exposed /\ a.refs = s.refs /\ a.open = s.open
         /\ a.batch = s.batch /\ a.published = s.published /\ a.source = s.source
         /\ s.finalized => a.finalized
         /\ ChunkOf(a) = ChunkOf(s) /\ CurrentPair(a) = CurrentPair(s)
         /\ AllClosed(a) = AllClosed(s) /\ AllStarted(a) = AllStarted(s)
         /\ AllTerminal(a) = AllTerminal(s)
<1>1. /\ a.records = s.records /\ a.next = s.next /\ a.engaged = s.engaged
      /\ a.exposed = s.exposed /\ a.refs = s.refs /\ a.open = s.open
      /\ a.batch = s.batch /\ a.published = s.published /\ a.source = s.source
      /\ s.finalized => a.finalized
  BY DEF Same, State
<1> QED BY <1>1 DEF ChunkOf, CurrentPair, AllClosed, AllStarted, AllTerminal

\* States whose fields agree are the same.
LEMMA SameByFields ==
  ASSUME NEW a \in State, NEW s \in State,
         a.records = s.records, a.next = s.next, a.engaged = s.engaged,
         a.exposed = s.exposed, a.refs = s.refs, a.open = s.open,
         a.batch = s.batch, a.published = s.published, a.source = s.source,
         s.finalized => a.finalized
  PROVE  Same(a, s)
BY DEF Same, State

\* A record changes both in the same way.
LEMMA SameNext ==
  ASSUME NEW a \in State, NEW s \in State, WellFormed(a), WellFormed(s), Same(a, s)
  PROVE  /\ Same(Counted(a), Counted(s))
         /\ \A doc \in Document : Same(PlanTaken(a, doc), PlanTaken(s, doc))
         /\ Same(VariantCounted(a), VariantCounted(s))
         /\ \A o : Same(TerminalTaken(a, o), TerminalTaken(s, o))
         /\ Same(PairRecorded(a), PairRecorded(s))
         /\ \A c \in Chunk : c.t = s.next => Same(CommitTaken(a, c), CommitTaken(s, c))
         /\ \A source : Same(Finalized(a, source), Finalized(s, source))
<1>1. PICK f \in BOOLEAN : a = [s EXCEPT !.finalized = f] /\ (s.finalized => f)
  BY DEF Same, State
<1> USE DEF Same, Counted, State
<1>2. Same(Counted(a), Counted(s))
  BY <1>1
<1>3. \A doc \in Document : Same(PlanTaken(a, doc), PlanTaken(s, doc))
  <2> TAKE doc \in Document
  <2> DEFINE exposed == Delivered(doc.plan)
             batch   == Opened(doc.frozen, doc.plan)
  <2> HIDE DEF exposed, batch
  <2>1. Same([Counted(a) EXCEPT !.open = TRUE, !.exposed = @ \cup exposed, !.batch = batch],
             [Counted(s) EXCEPT !.open = TRUE, !.exposed = @ \cup exposed, !.batch = batch])
    BY <1>1
  <2> QED BY <2>1, Zenon DEF PlanTaken, exposed, batch
<1>4. Same(VariantCounted(a), VariantCounted(s))
  BY <1>1 DEF VariantCounted
<1>5. \A o : Same(TerminalTaken(a, o), TerminalTaken(s, o))
  BY <1>1 DEF TerminalTaken
<1>6. Same(PairRecorded(a), PairRecorded(s))
  BY <1>1 DEF PairRecorded, Recorded, CampaignAnswer, CurrentPair
<1>7. ASSUME NEW c \in Chunk, c.t = s.next
      PROVE  Same(CommitTaken(a, c), CommitTaken(s, c))
  <2>1. CommitTaken(a, c) \in State /\ CommitTaken(s, c) \in State
    BY <1>7, CommitTyped, SameFields
  <2>2. /\ a.records = s.records /\ a.engaged = s.engaged /\ a.exposed = s.exposed
        /\ a.refs = s.refs /\ a.published = s.published /\ a.source = s.source
    BY <1>1
  <2> DEFINE x == CommitTaken(s, c)
             y == CommitTaken(a, c)
  <2>3. /\ x.records = s.records /\ x.next = c.t + 1 /\ x.engaged = s.engaged \cup c.committed
        /\ x.exposed = s.exposed \cup Delivered(c.plan) /\ x.refs = Append(s.refs, c)
        /\ x.open = FALSE /\ x.batch = EmptyBatch /\ x.published = s.published
        /\ x.source = s.source /\ x.finalized = s.finalized
    BY DEF CommitTaken
  <2>4. /\ y.records = s.records /\ y.next = c.t + 1 /\ y.engaged = s.engaged \cup c.committed
        /\ y.exposed = s.exposed \cup Delivered(c.plan) /\ y.refs = Append(s.refs, c)
        /\ y.open = FALSE /\ y.batch = EmptyBatch /\ y.published = s.published
        /\ y.source = s.source /\ y.finalized = a.finalized
    BY <2>2 DEF CommitTaken
  <2>5. s.finalized => a.finalized
    BY <1>1
  <2> HIDE DEF x, y, Same, State
  <2>6. Same(y, x)
    BY <2>1, <2>3, <2>4, <2>5, SameByFields DEF x, y
  <2> QED BY <2>6 DEF x, y
<1>8. \A source : Same(Finalized(a, source), Finalized(s, source))
  BY <1>1 DEF Finalized
<1> QED BY <1>2, <1>3, <1>4, <1>5, <1>6, <1>7, <1>8

\* The journal's reading while the process runs.
LEMMA AliveReading ==
  ASSUME Inv, NEW h, NEW s, Reading(h, s), Alive, pc # "committed"
  PROVE  /\ k \in State /\ WellFormed(k) /\ s \in State /\ WellFormed(s)
         /\ Same(k, s) /\ Level(s) /\ ~s.published
BY DEF Inv, Typed, TypeOK, Reading, Disk, Memory

\* A record of the running batch, or of the end of the run: what is left to show is that
\* the kernel follows the reading.
LEMMA RunRecordRead ==
  ASSUME Inv, Alive, pc \notin {"replay", "committed"}, NEW rec \in Record, NEW k1,
         NEW at \in {"run", "rename"}, Persist(rec, k1, at),
         NEW h, NEW s, Reading(h, s), Accepts(s, rec), Due(s, rec),
         rec.type \notin {"batch_committed", "run_published"},
         pending.state = "none", Same(k1, Apply(s, rec))
  PROVE  Read'
<1>1. PICK n : n = Apply(s, rec)
  OBVIOUS
<1>2. s \in State /\ Level(s) /\ ~s.published
  BY AliveReading
<1>f. Fields(s, rec, n)
  BY <1>1, <1>2, ApplyFields
<1>3. n.refs = s.refs /\ ~n.published /\ Same(k1, n)
  BY <1>1, <1>2, <1>f DEF Fields
<1>4. Appended(rec, k1, at) => Memory(n)'
  <2> HAVE Appended(rec, k1, at)
  <2>1. k' = k1 /\ pc' = at /\ UNCHANGED <<spool, pending>>
    BY DEF Appended
  <2>2. Level(n)'
    BY <1>2, <1>3, <2>1 DEF Level
  <2> QED BY <1>3, <2>1, <2>2 DEF Memory, Same
<1> QED BY <1>1, <1>4, PersistRead DEF Inv, Reading

\* The reading through every action.
LEMMA OpenRead ==
  ASSUME Inv, NEW h, NEW s, Reading(h, s), Open
  PROVE  Read'
<1> USE DEF Reading
<1>1. CASE OpenNew
  BY <1>1, ReadGone DEF OpenNew, Step
<1>2. CASE WriteIdentity
  <2>1. /\ journal = <<>> /\ k = EmptyState
        /\ UNCHANGED <<journal, k, snapshots, spool, pending, output>>
        /\ pc' = "identified"
    BY <1>2 DEF WriteIdentity, Step, Inv, Facts, Control
  <2>2. s = EmptyState
    BY <2>1 DEF Reads
  <2>3. Same(k, s) /\ ~s.published
    <3>1. EmptyState \in State /\ ~EmptyState.published
      BY EmptyTyped DEF EmptyState
    <3> QED BY <2>1, <2>2, <3>1 DEF Same, State
  <2>4. Level(s)
    <3>1. s.refs = <<>> /\ spool \in Seq(Chunk) /\ pending.chunk \in Chunk
      BY <2>2 DEF EmptyState, Inv, Typed, TypeOK
    <3>2. ~Behind(s)
      BY <3>1 DEF Behind
    <3> QED BY <3>2 DEF Disk, Stored
  <2>5. Memory(s)'
    BY <2>1, <2>3, <2>4 DEF Memory, Level, ChunkOf, AllClosed
  <2>6. Stored(s)' /\ Issued(s)' /\ Drafted(s)'
    BY <2>1 DEF Disk, Stored, Level, Behind, Issued, Drafted, ChunkOf, AllClosed
  <2> QED BY <2>1, <2>5, <2>6, ReadKept
<1>3. CASE AppendRunStarted
  <2> DEFINE rec == RunStarted(k.records)
  <2>1. pc = "identified" /\ journal = <<>> /\ k = EmptyState /\ Persist(rec, Counted(k), "run")
    BY <1>3 DEF AppendRunStarted, Inv, Facts, Control
  <2>2. s = EmptyState
    BY <2>1 DEF Reads
  <2>3. Alive /\ Level(s)
    BY <2>1 DEF Alive, Memory
  <2>4. rec \in Record /\ rec.type = "run_started" /\ rec.seq = s.records + 1
    BY <2>1, <2>2 DEF RunStarted, Record, Inv, Typed, TypeOK, State
  <2>5. s.records = 0 /\ ~s.published /\ ~s.open
    BY <2>2 DEF EmptyState
  <2> HIDE DEF rec
  <2>6. Accepts(s, rec) /\ Due(s, rec) /\ Apply(s, rec) = Counted(k)
    BY <2>1, <2>2, <2>4, <2>5 DEF Accepts, Due, Apply
  <2>7. pending.state = "none"
    BY <2>3, <2>5 DEF Level
  <2>8. Counted(k) \in State
    BY CountedTyped DEF Inv, Typed, TypeOK
  <2>9. Same(Counted(k), Apply(s, rec))
    BY <2>6, <2>8 DEF Same, State
  <2> QED BY <2>1, <2>3, <2>4, <2>6, <2>7, <2>9, RunRecordRead
<1>4. CASE Resume
  <2>1. UNCHANGED disk /\ rp' = EmptyState /\ cur' = 0 /\ pc' \in {"replay", "refused"}
        /\ (pc' = "replay" => goal' = "resume")
    BY <1>4 DEF Resume, Inv, Facts, Control, AtRest
  <2>2. CASE pc' = "refused"
    BY <2>1, <2>2, ReadGone DEF disk, AtRest
  <2>3. CASE pc' = "replay"
    <3>1. Memory(s)'
      BY <2>1, <2>3 DEF Memory, Alive, Running, Finalizing
    <3>2. Stored(s)' /\ Issued(s)' /\ Drafted(s)'
      BY <2>1 DEF Disk, Stored, Level, Behind, Issued, Drafted, ChunkOf, AllClosed, disk
    <3>3. rp' = h[cur']
      BY <2>1 DEF Reads
    <3> QED BY <2>1, <3>1, <3>2, <3>3, ReadKept DEF disk
  <2> QED BY <2>1, <2>2, <2>3
<1> QED BY <1>1, <1>2, <1>3, <1>4 DEF Open

LEMMA RestoreRead ==
  ASSUME Inv, NEW h, NEW s, Reading(h, s), Restore
  PROVE  Read'
<1> USE DEF Reading
<1>1. s \in State /\ WellFormed(s) /\ spool \in Seq(Chunk) /\ pending.chunk \in Chunk
  BY DEF Disk, Inv, Typed, TypeOK
<1>2. CASE ReplayRecord
  <2>1. /\ UNCHANGED disk /\ UNCHANGED <<pc, k, goal>> /\ pc = "replay"
        /\ cur' = cur + 1 /\ cur + 1 \in 1 .. Len(journal) /\ rp' = Apply(rp, journal[cur + 1])
    BY <1>2 DEF ReplayRecord, Inv, Typed, TypeOK
  <2>2. rp' = h[cur']
    BY <2>1 DEF Reads, Inv, Typed, TypeOK
  <2>3. Memory(s)'
    BY <2>1 DEF Memory, Alive, Running, Finalizing, Level, ChunkOf, AllClosed, AllStarted, disk
  <2>4. Stored(s)' /\ Issued(s)' /\ Drafted(s)'
    BY <2>1 DEF Disk, Stored, Level, Behind, Issued, Drafted, ChunkOf, AllClosed, disk
  <2> QED BY <2>1, <2>2, <2>3, <2>4, ReadKept DEF disk
<1>3. CASE FinishReplay
  <2>1. /\ UNCHANGED <<disk, k>> /\ pc = "replay" /\ rp = s
        /\ pc' \in {"finalize", "done", "restore"}
        /\ pc' = "finalize" => goal = "finalize"
        /\ pc' = "restore" => UNCHANGED <<rp, cur>> /\ (goal = "finalize" \/ ~s.published)
    BY <1>3 DEF FinishReplay, ReplayCloses, RunClosed, Inv, Facts, Control
  <2>2. Stored(s)' /\ Issued(s)' /\ Drafted(s)'
    BY <2>1 DEF Disk, Stored, Level, Behind, Issued, Drafted, ChunkOf, AllClosed, disk
  <2>3. Memory(s)'
    BY <2>1 DEF Memory, Alive, Running, Finalizing, Level, ChunkOf, AllClosed, disk
  <2> QED BY <2>1, <2>2, <2>3, ReadKept DEF disk
<1>4. CASE RecoverPrepared
  <2>1. /\ UNCHANGED <<workspace, snapshots, journal, output, pc, k, rp, cur>>
        /\ pc = "restore" /\ rp = s /\ Unpublished(s)
        /\ spool' = Append(spool, pending.chunk) /\ pending' = NoPending
    BY <1>4 DEF RecoverPrepared, replay, Inv, Facts, Control
  <2>2. Behind(s)
    BY <1>1, <2>1 DEF Disk, Stored, Level, Unpublished
  <2>3. Level(s)'
    BY <2>1, <2>2 DEF Level, Behind, NoPending
  <2>4. Stored(s)' /\ Issued(s)' /\ Drafted(s)'
    BY <2>1, <2>3 DEF Disk, Stored, Issued, Drafted
  <2>5. Memory(s)'
    BY <2>1 DEF Memory, Alive, Running, Finalizing
  <2> QED BY <2>1, <2>4, <2>5, ReadKept
<1>5. CASE RestoreKernel
  <2>1. /\ UNCHANGED disk /\ pc = "restore" /\ pc' = "run" /\ rp = s /\ k' = Restored(s)
        /\ SpoolCloses(s)
    BY <1>5 DEF RestoreKernel, Inv, Facts, Control
  <2>2. ~Behind(s)
    <3>1. spool # Append(spool, pending.chunk)
      BY <1>1
    <3> QED BY <2>1, <3>1 DEF Behind, SpoolCloses
  <2>3. Level(s)
    BY <2>2 DEF Disk, Stored
  <2>4. Same(Restored(s), s)
    BY <1>1, SameByFields DEF Restored, State, Lifecycle
  <2>5. Memory(s)'
    BY <2>1, <2>3, <2>4 DEF Memory, Same, Level, ChunkOf, AllClosed, disk
  <2>6. Stored(s)' /\ Issued(s)' /\ Drafted(s)'
    BY <2>1 DEF Disk, Stored, Level, Behind, Issued, Drafted, ChunkOf, AllClosed, disk
  <2> QED BY <2>1, <2>5, <2>6, ReadKept DEF disk
<1> QED BY <1>2, <1>3, <1>4, <1>5 DEF Restore

LEMMA RunBatchRead ==
  ASSUME Inv, NEW h, NEW s, Reading(h, s), RunBatch
  PROVE  Read'
<1> USE DEF Reading
<1>1. Alive /\ pc \in {"run", "planned", "judged"}
  BY DEF RunBatch, WritePlan, AppendPlan, StartVariant, ExecuteVariant, RegisterTerminal,
         ClosePair, Step, Alive, Running
<1>2. /\ k \in State /\ WellFormed(k) /\ s \in State /\ WellFormed(s)
      /\ Same(k, s) /\ Level(s) /\ ~s.published
  BY <1>1, AliveReading
<1>3. /\ k.records = s.records /\ k.next = s.next /\ k.engaged = s.engaged
      /\ k.exposed = s.exposed /\ k.refs = s.refs /\ k.open = s.open
      /\ k.batch = s.batch /\ CurrentPair(k) = CurrentPair(s)
      /\ AllClosed(k) = AllClosed(s) /\ AllStarted(k) = AllStarted(s)
      /\ AllTerminal(k) = AllTerminal(s)
  BY <1>2, SameFields
<1>4. ~(s.open /\ AllClosed(s)) => pending.state = "none"
  BY <1>2 DEF Level
<1>5. CASE WritePlan
  <2>1. PICK plan \in Plans(k.exposed) :
          snapshots' = snapshots \cup {[t |-> k.next, frozen |-> k.engaged, plan |-> plan]}
    BY <1>5 DEF WritePlan
  <2>2. /\ UNCHANGED <<journal, spool, pending, output, k>> /\ pc' = "planned" /\ ~s.open
    BY <1>3, <1>5 DEF WritePlan, BatchDue, Step
  <2>3. Plans(k.exposed) = Plans(Seen(s))
    BY <1>3, <2>2 DEF Disk, Told, Shaped
  <2>4. Drafted(s)'
    <3>1. s.next <= s.next
      BY <1>2, HorizonAssumption DEF State
    <3> QED BY <1>3, <2>1, <2>3, <3>1 DEF Disk, Drafted
  <2>5. Memory(s)'
    BY <1>2, <2>2 DEF Memory, Same, Level, ChunkOf, AllClosed
  <2>6. Stored(s)' /\ Issued(s)'
    BY <2>2 DEF Disk, Stored, Level, Behind, Issued, ChunkOf, AllClosed
  <2> QED BY <2>1, <2>2, <2>4, <2>5, <2>6, ReadKept
<1>6. CASE AppendPlan
  <2>1. PICK doc \in snapshots :
          doc.t = k.next /\ Persist(BatchPlan(k.records, doc), PlanTaken(k, doc), "run")
    BY <1>6 DEF AppendPlan
  <2>2. doc \in Document /\ ~s.open /\ pc = "planned"
    BY <1>3, <1>6 DEF AppendPlan, Inv, Typed, TypeOK, Facts, Control
  <2>3. doc.t = s.next /\ doc.frozen = s.engaged /\ doc.plan \in Plans(Seen(s))
    BY <1>3, <2>1, <2>2 DEF Disk, Drafted
  <2>4. Delivered(doc.plan) \cap s.exposed = {}
    BY <2>2, <2>3 DEF Plans, Disk, Told, Shaped
  <2> DEFINE rec == BatchPlan(k.records, doc)
  <2>5. rec \in Record /\ rec.type = "batch_plan" /\ rec.seq = s.records + 1 /\ rec.doc = doc
    BY <1>2, <1>3, <2>2 DEF BatchPlan, Record, State
  <2> HIDE DEF rec
  <2>6. Accepts(s, rec) /\ Due(s, rec) /\ Apply(s, rec) = PlanTaken(s, doc)
    BY <1>2, <2>2, <2>3, <2>4, <2>5 DEF Accepts, Due, Apply
  <2>7. Same(PlanTaken(k, doc), Apply(s, rec))
    BY <1>2, <2>2, <2>6, SameNext
  <2> QED BY <1>1, <1>4, <2>1, <2>2, <2>5, <2>6, <2>7, RunRecordRead DEF rec
<1>7. CASE StartVariant
  <2> DEFINE variant == Variants[k.batch.started + 1]
             rec == VariantStarted(k.records, CurrentPair(k), variant)
  <2>1. s.open /\ ~AllClosed(s) /\ ~AllStarted(s) /\ Persist(rec, VariantCounted(k), "run")
        /\ pc = "run"
    BY <1>3, <1>7 DEF StartVariant
  <2>2. variant \in VariantNames /\ variant = Variants[s.batch.started + 1]
    BY <1>2, <1>3, <2>1, VariantIndexed DEF AllStarted, State, Batch
  <2> HIDE DEF variant
  <2>3. rec \in Record /\ rec.type = "variant_started" /\ rec.seq = s.records + 1
        /\ rec.pair = CurrentPair(s) /\ rec.variant = variant
    BY <1>2, <1>3, <2>1, <2>2, CurrentPairTyped DEF VariantStarted, Record, State
  <2> HIDE DEF rec
  <2>4. Accepts(s, rec) /\ Due(s, rec) /\ Apply(s, rec) = VariantCounted(s)
    BY <1>2, <2>1, <2>2, <2>3 DEF Accepts, Due, Apply
  <2>5. Same(VariantCounted(k), Apply(s, rec))
    BY <1>2, <2>4, SameNext
  <2> QED BY <1>1, <1>4, <2>1, <2>3, <2>4, <2>5, RunRecordRead
<1>8. CASE ExecuteVariant
  <2>1. UNCHANGED <<disk, k>> /\ pc' = "judged" /\ AllStarted(k)
    BY <1>8 DEF ExecuteVariant, Step
  <2>2. Memory(s)'
    BY <1>2, <2>1 DEF Memory, Same, Level, ChunkOf, AllClosed, AllStarted, disk
  <2>3. Stored(s)' /\ Issued(s)' /\ Drafted(s)'
    BY <2>1 DEF Disk, Stored, Level, Behind, Issued, Drafted, ChunkOf, AllClosed, disk
  <2> QED BY <2>1, <2>2, <2>3, ReadKept DEF disk
<1>9. CASE RegisterTerminal
  <2> DEFINE variant == Variants[Len(k.batch.terms) + 1]
             rec == VariantTerminal(k.records, CurrentPair(k), variant, judged)
  <2>1. /\ s.open /\ ~AllClosed(s) /\ AllStarted(s) /\ ~AllTerminal(s)
        /\ Persist(rec, TerminalTaken(k, judged), "run") /\ pc = "judged" /\ judged \in Outcomes
    BY <1>3, <1>9 DEF RegisterTerminal, Memory, Inv, Facts, Control
  <2>2. variant \in VariantNames /\ variant = Variants[Len(s.batch.terms) + 1]
    <3>1. Len(k.batch.terms) \in 0 .. Len(Variants)
      BY <1>2, TermsFit
    <3> QED BY <1>3, <2>1, <3>1, VariantIndexed DEF AllTerminal
  <2> HIDE DEF variant
  <2>3. CurrentPair(k) \in Pairs /\ k.records \in Nat
    BY <1>2, <1>3, <2>1, CurrentPairTyped DEF State
  <2>4. rec \in Record /\ rec.type = "variant_terminal" /\ rec.seq = s.records + 1
        /\ rec.pair = CurrentPair(s) /\ rec.variant = variant /\ rec.outcome = judged
    BY <1>3, <2>1, <2>2, <2>3 DEF VariantTerminal, Record
  <2> HIDE DEF rec
  <2>5. Accepts(s, rec) /\ Due(s, rec) /\ Apply(s, rec) = TerminalTaken(s, judged)
    BY <1>2, <2>1, <2>2, <2>4 DEF Accepts, Due, Apply
  <2>6. Same(TerminalTaken(k, judged), Apply(s, rec))
    BY <1>2, <2>5, SameNext
  <2> QED BY <1>1, <1>4, <2>1, <2>4, <2>5, <2>6, RunRecordRead
<1>a. CASE ClosePair
  <2> DEFINE rec == PairClosed(k.records, CurrentPair(k))
  <2>1. s.open /\ ~AllClosed(s) /\ AllTerminal(s) /\ Persist(rec, PairRecorded(k), "run")
        /\ pc = "run"
    BY <1>3, <1>a DEF ClosePair
  <2>2. rec \in Record /\ rec.type = "pair_closed" /\ rec.seq = s.records + 1
        /\ rec.pair = CurrentPair(s)
    BY <1>2, <1>3, <2>1, CurrentPairTyped DEF PairClosed, Record, State
  <2> HIDE DEF rec
  <2>3. Accepts(s, rec) /\ Due(s, rec) /\ Apply(s, rec) = PairRecorded(s)
    BY <1>2, <2>1, <2>2 DEF Accepts, Due, Apply
  <2>4. Same(PairRecorded(k), Apply(s, rec))
    BY <1>2, <2>3, SameNext
  <2> QED BY <1>1, <1>4, <2>1, <2>2, <2>3, <2>4, RunRecordRead
<1> QED BY <1>5, <1>6, <1>7, <1>8, <1>9, <1>a DEF RunBatch

\* The chunk of an open batch whose pairs are all closed is the commit a replay takes.
LEMMA CommitAccepted ==
  ASSUME NEW s \in State, WellFormed(s), Shaped(s), s.open, AllClosed(s), ~s.published,
         NEW rec \in Record, rec.type = "batch_committed", rec.seq = s.records + 1,
         rec.chunk = ChunkOf(s)
  PROVE  Accepts(s, rec)
<1>1. s.batch.plan \in Plans(Seen(s))
  BY DEF Shaped
<1>2. Delivered(s.batch.plan) \cap Seen(s) = {}
  BY <1>1 DEF Plans
<1>3. ASSUME NEW i \in 1 .. Len(s.refs)
      PROVE  Delivered(s.batch.plan) \cap Delivered(s.refs[i].plan) = {}
  BY <1>2 DEF Seen
<1>4. /\ rec.chunk.t = s.next /\ rec.chunk.frozen = s.engaged
      /\ rec.chunk.plan = s.batch.plan /\ rec.chunk.results = s.batch.results
      /\ rec.chunk.committed = Positives(s.batch.plan, s.batch.results)
  BY DEF ChunkOf, WellFormed, Shaped
<1>5. Len(s.batch.results) = Len(s.batch.plan) /\ s.batch.started = 0
  BY DEF AllClosed, Shaped
<1> QED BY <1>3, <1>4, <1>5 DEF Accepts

LEMMA CommitRead ==
  ASSUME Inv, NEW h, NEW s, Reading(h, s), Commit
  PROVE  Read'
<1> USE DEF Reading
<1>1. Alive /\ k \in State /\ WellFormed(k) /\ s \in State /\ WellFormed(s)
      /\ spool \in Seq(Chunk)
  BY DEF Commit, PrepareChunk, AppendCommit, PublishChunk, Step, Alive, Running, Disk, Inv,
         Typed, TypeOK
<1>2. CASE PrepareChunk
  <2>1. /\ pc = "run" /\ pc' = "prepared" /\ UNCHANGED <<snapshots, journal, spool, output, k>>
        /\ Complete /\ pending' = PreparedChunk /\ Preparable
    BY <1>2 DEF PrepareChunk, Step
  <2>2. pending' = [state |-> "whole", chunk |-> ChunkOf(k)]
    BY <2>1 DEF PreparedChunk, Preparable
  <2>3. Same(k, s) /\ Level(s) /\ ~s.published
    BY <1>1, <2>1 DEF Memory
  <2>4. ChunkOf(k) = ChunkOf(s) /\ s.open /\ AllClosed(s)
    BY <1>1, <2>1, <2>3, SameFields DEF Complete
  <2>5. Level(s)'
    BY <2>1, <2>2, <2>3, <2>4 DEF Level, ChunkOf, AllClosed
  <2>6. Memory(s)'
    BY <2>1, <2>2, <2>3, <2>5 DEF Memory, Same, ChunkOf
  <2>7. Stored(s)' /\ Issued(s)' /\ Drafted(s)'
    BY <2>1, <2>5 DEF Disk, Stored, Issued, Drafted
  <2> QED BY <2>1, <2>6, <2>7, ReadKept
<1>3. CASE AppendCommit
  <2> DEFINE rec == BatchCommitted(k.records, ChunkOf(k))
  <2>1. /\ pc = "prepared" /\ Persist(rec, Counted(k), "committed") /\ k.open /\ AllClosed(k)
        /\ pending = [state |-> "whole", chunk |-> ChunkOf(k)]
    BY <1>3 DEF AppendCommit, Memory, Inv, Facts, Control
  <2>2. Same(k, s) /\ ~s.published
    BY <1>1, <2>1 DEF Memory
  <2>3. ChunkOf(k) = ChunkOf(s) /\ s.open /\ AllClosed(s) /\ k.records = s.records
        /\ k.next = s.next
    BY <1>1, <2>1, <2>2, SameFields
  <2>4. ChunkOf(k) \in Chunk /\ ChunkOf(k).t = k.next
    BY <1>1, <2>1, ChunkTyped
  <2>5. rec \in Record /\ rec.type = "batch_committed" /\ rec.seq = s.records + 1
        /\ rec.chunk = ChunkOf(s)
    BY <1>1, <2>3, <2>4 DEF BatchCommitted, Record, State
  <2> HIDE DEF rec
  <2>6. Accepts(s, rec) /\ Due(s, rec)
    BY <1>1, <2>2, <2>3, <2>5, CommitAccepted DEF Disk, Told, Due
  <2>7. PICK n : n = Apply(s, rec)
    OBVIOUS
  <2>8. n = CommitTaken(Counted(s), ChunkOf(k)) /\ n.published = s.published
    <3>1. Fields(s, rec, n)
      BY <1>1, <2>5, <2>7, ApplyFields
    <3> QED BY <2>3, <2>5, <3>1 DEF Fields
  <2>9. Counted(k) \in State /\ Counted(s) \in State /\ WellFormed(Counted(k))
        /\ WellFormed(Counted(s)) /\ Counted(s).next = s.next
        /\ ChunkOf(Counted(k)) = ChunkOf(k)
    BY <1>1, CountedTyped DEF ChunkOf
  <2>a. Same(CommitTaken(Counted(k), ChunkOf(k)), n)
    <3>1. Same(Counted(k), Counted(s))
      BY <1>1, <2>2, SameNext
    <3> QED BY <2>3, <2>4, <2>8, <2>9, <3>1, SameNext
  <2>b. Appended(rec, Counted(k), "committed") => Memory(n)'
    <3> HAVE Appended(rec, Counted(k), "committed")
    <3>1. k' = Counted(k) /\ pc' = "committed" /\ pending' = pending
      BY DEF Appended
    <3>2. ChunkOf(k') = ChunkOf(k)
      BY <2>9, <3>1
    <3>3. Same(CommitTaken(k', ChunkOf(k')), n)
      BY <2>a, <3>1, <3>2
    <3>4. pending' = [state |-> "whole", chunk |-> ChunkOf(k')]
      BY <2>1, <3>1, <3>2
    <3> QED BY <2>2, <2>8, <3>1, <3>3, <3>4 DEF Memory, Same, CommitTaken, ChunkOf
  <2> QED BY <1>1, <2>1, <2>3, <2>5, <2>6, <2>7, <2>b, PersistRead DEF Inv
<1>4. CASE PublishChunk
  <2>1. /\ pc = "committed" /\ pc' = "run" /\ UNCHANGED <<snapshots, journal, output>>
        /\ pending' = NoPending /\ spool' = Append(spool, pending.chunk)
        /\ k' = CommitTaken(k, ChunkOf(k)) /\ Len(spool) = k.next
    BY <1>4 DEF PublishChunk, Step, Inv, Facts, Control
  <2>2. Same(k', s) /\ ~s.published
    BY <1>1, <2>1 DEF Memory
  <2>3. s.refs = Append(k.refs, ChunkOf(k))
    BY <1>1, <2>1, <2>2 DEF Same, CommitTaken, State
  <2>4. spool # s.refs
    <3>1. Len(s.refs) = k.next + 1 /\ k.next \in Nat
      BY <1>1, <2>3 DEF State, WellFormed
    <3> QED BY <2>1, <3>1
  <2>5. Behind(s)
    BY <2>4 DEF Disk, Stored, Level
  <2>6. Level(s)'
    BY <2>1, <2>5 DEF Level, Behind, NoPending
  <2>7. Memory(s)'
    BY <2>1, <2>2, <2>6 DEF Memory, Same
  <2>8. Stored(s)' /\ Issued(s)' /\ Drafted(s)'
    BY <2>1, <2>6 DEF Disk, Stored, Issued, Drafted
  <2> QED BY <2>1, <2>7, <2>8, ReadKept
<1> QED BY <1>2, <1>3, <1>4 DEF Commit

LEMMA FinalizeRead ==
  ASSUME Inv, NEW h, NEW s, Reading(h, s), Finalize
  PROVE  Read'
<1> USE DEF Reading
<1>1. Alive /\ pc \in {"run"} \cup Finalizing
  BY DEF Finalize, ReplayBeforeFinalizing, AdoptOutput, BeginStaging, CloseStaging,
         AppendFinalized, RenameStaging, AppendPublished, Step, Alive, Running, Finalizing
<1>2. /\ k \in State /\ WellFormed(k) /\ s \in State /\ WellFormed(s)
      /\ Same(k, s) /\ Level(s) /\ ~s.published
  BY <1>1, AliveReading DEF Finalizing
<1>3. k.records = s.records /\ k.next = s.next /\ k.open = s.open
      /\ (s.finalized => k.finalized)
  BY <1>2, SameFields
<1>4. ~s.open /\ s.next = Horizon
  BY <1>1, <1>3 DEF Finalize, ReplayBeforeFinalizing, AllCommitted, Inv, Facts, Control,
     AdoptOutput, BeginStaging, CloseStaging, AppendFinalized, RenameStaging,
     AppendPublished, Step, Finalizing
<1>5. pending.state = "none"
  BY <1>2, <1>4 DEF Level
<1>6. ASSUME UNCHANGED <<snapshots, journal, spool, pending, k>>,
             \/ pc' \in Finalizing
             \/ pc' = "replay" /\ goal' = "finalize" /\ rp' = EmptyState /\ cur' = 0
      PROVE  Read'
  <2>1. Alive' /\ pc' \notin {"committed", "prepared", "judged", "restore"}
    BY <1>6 DEF Alive, Finalizing
  <2>2. Memory(s)'
    BY <1>2, <1>6, <2>1 DEF Memory, Same, Level, ChunkOf, AllClosed
  <2>3. Stored(s)' /\ Issued(s)' /\ Drafted(s)'
    BY <1>2, <1>6 DEF Disk, Stored, Level, Behind, Issued, Drafted, ChunkOf, AllClosed
  <2>4. (pc \in {"replay", "restore"} => rp = h[cur])'
    BY <1>6 DEF Reads, Finalizing
  <2> QED BY <1>6, <2>2, <2>3, <2>4, ReadKept
<1>7. CASE ReplayBeforeFinalizing
  BY <1>6, <1>7 DEF ReplayBeforeFinalizing, Step, disk, Inv, Facts, Control
<1>8. CASE AdoptOutput
  BY <1>6, <1>8 DEF AdoptOutput, disk, Finalizing
<1>9. CASE BeginStaging
  BY <1>6, <1>9 DEF BeginStaging, Step, Finalizing
<1>a. CASE CloseStaging
  BY <1>6, <1>a DEF CloseStaging, Step, Finalizing
<1>b. CASE AppendFinalized
  <2>1. CASE k.finalized
    BY <1>6, <1>b, <2>1 DEF AppendFinalized, disk, Finalizing
  <2>2. CASE ~k.finalized
    <3> DEFINE rec == RunFinalized(k.records, staging)
    <3>1. Persist(rec, Finalized(k, staging), "rename") /\ pc = "staged" /\ staging \in Status
      BY <1>b, <2>2 DEF AppendFinalized, Inv, Facts, Control, Status
    <3>2. rec \in Record /\ rec.type = "run_finalized" /\ rec.seq = s.records + 1
          /\ rec.source = staging
      BY <1>2, <1>3, <3>1 DEF RunFinalized, Record, State
    <3> HIDE DEF rec
    <3>3. Accepts(s, rec) /\ Due(s, rec) /\ Apply(s, rec) = Finalized(s, staging)
      BY <1>2, <1>3, <1>4, <2>2, <3>2 DEF Accepts, Due, Apply
    <3>4. Same(Finalized(k, staging), Apply(s, rec))
      BY <1>2, <3>3, SameNext
    <3> QED BY <1>1, <1>5, <3>1, <3>2, <3>3, <3>4, RunRecordRead
  <2> QED BY <2>1, <2>2
<1>c. CASE RenameStaging
  BY <1>6, <1>c DEF RenameStaging, Step, Finalizing
<1>d. CASE AppendPublished
  <2> DEFINE rec == RunPublished(k.records, output)
  <2>1. Persist(rec, Published(k, output), "done") /\ pc = "publish" /\ output # "absent"
        /\ output \in Status
    BY <1>d DEF AppendPublished, Inv, Typed, TypeOK, Facts, Control
  <2>2. rec \in Record /\ rec.type = "run_published" /\ rec.seq = s.records + 1
        /\ rec.source = output
    BY <1>2, <1>3, <2>1 DEF RunPublished, Record, State
  <2> HIDE DEF rec
  <2>3. Accepts(s, rec) /\ Due(s, rec)
    BY <1>2, <1>4, <2>2 DEF Accepts, Due
  <2>4. PICK n : n = Apply(s, rec)
    OBVIOUS
  <2>5. Appended(rec, Published(k, output), "done") => Memory(n)'
    BY DEF Appended, Memory, Alive, Running, Finalizing
  <2> QED BY <1>1, <1>5, <2>1, <2>2, <2>3, <2>4, <2>5, PersistRead DEF Inv
<1> QED BY <1>7, <1>8, <1>9, <1>a, <1>b, <1>c, <1>d DEF Finalize

LEMMA FailRead ==
  ASSUME Inv, NEW h, NEW s, Reading(h, s), Fail
  PROVE  Read'
<1> USE DEF Reading
<1>1. CASE TearChunk
  <2>1. /\ pc = "run" /\ pc' = "down" /\ UNCHANGED <<snapshots, journal, spool, output>>
        /\ Complete /\ pending' = [state |-> "torn", chunk |-> ChunkOf(k)]
    BY <1>1 DEF TearChunk, Die
  <2>2. Alive
    BY <2>1 DEF Alive, Running
  <2>3. /\ k \in State /\ s \in State /\ Same(k, s) /\ Level(s)
    BY <2>1, <2>2, AliveReading
  <2>4. ChunkOf(k) = ChunkOf(s) /\ s.open /\ AllClosed(s)
    BY <2>1, <2>3, SameFields DEF Complete
  <2>5. Level(s)'
    BY <2>1, <2>3, <2>4 DEF Level, ChunkOf, AllClosed
  <2>6. Memory(s)'
    BY <2>1 DEF Memory, Alive, Running, Finalizing
  <2>7. Stored(s)' /\ Issued(s)' /\ Drafted(s)'
    BY <2>1, <2>5 DEF Disk, Stored, Issued, Drafted
  <2> QED BY <2>1, <2>6, <2>7, ReadKept
<1>2. CASE RaiseError
  BY <1>2, ReadGone DEF RaiseError, disk, AtRest
<1>3. CASE Crash
  BY <1>3, ReadGone DEF Crash, Die, disk, AtRest
<1> QED BY <1>1, <1>2, <1>3 DEF Fail

LEMMA InitRead ==
  ASSUME Init
  PROVE  Read
<1> DEFINE h == [i \in 0 .. 0 |-> EmptyState]
           s == EmptyState
<1>1. journal = <<>> /\ snapshots = {} /\ spool = <<>> /\ pending = NoPending
      /\ pc = "down" /\ Len(journal) = 0
  BY DEF Init
<1>2. Reads(h) /\ s = h[Len(journal)]
  BY <1>1 DEF Reads
<1>3. /\ s.refs = <<>> /\ ~s.open /\ ~s.published /\ s.exposed = {} /\ s.next = 0
  BY DEF EmptyState
<1>4. s \in State /\ WellFormed(s)
  BY EmptyTyped
<1>5. PlansRecorded = {} /\ Commits = {} /\ RecordsOf("variant_terminal") = {}
  BY <1>1 DEF PlansRecorded, Commits, CommitsBefore, RecordsOf
<1> HIDE DEF s, h
<1>6. Seen(s) = {}
  BY <1>3 DEF Seen
<1>7. Shaped(s) /\ Planned(s) /\ Referred(s) /\ Answered(s)
  BY <1>3, <1>5, <1>6 DEF Shaped, Planned, Referred, Answered, OneTerminalEach
<1>8. Stored(s) /\ Issued(s) /\ Drafted(s)
  BY <1>1, <1>3 DEF Stored, Level, Issued, Drafted, NoPending
<1>9. Memory(s)
  BY <1>1 DEF Memory, Alive, Running, Finalizing
<1>a. Reading(h, s)
  BY <1>1, <1>2, <1>4, <1>7, <1>8, <1>9 DEF Reading, Disk, Told
<1> QED BY <1>a DEF Read

LEMMA ReadStep ==
  ASSUME Inv, Read, [Next]_vars
  PROVE  Read'
<1>1. PICK h, s : Reading(h, s)
  BY DEF Read
<1>2. CASE Next
  BY <1>1, <1>2, OpenRead, RestoreRead, RunBatchRead, CommitRead, FinalizeRead, FailRead
  DEF Next
<1>3. CASE UNCHANGED vars
  <2> USE DEF Reading, vars, disk, replay
  <2>1. Memory(s)'
    BY <1>1, <1>3 DEF Memory, Same, Level, Alive, Running, Finalizing, ChunkOf, AllClosed,
       AllStarted, CommitTaken
  <2>2. Stored(s)' /\ Issued(s)' /\ Drafted(s)'
    BY <1>1, <1>3 DEF Disk, Stored, Level, Behind, Issued, Drafted, ChunkOf, AllClosed
  <2> QED BY <1>1, <1>3, <2>1, <2>2, ReadKept
<1> QED BY <1>2, <1>3

-----------------------------------------------------------------------------
\* What the reading gives.

\* A resume of whole writes has nothing to raise.
LEMMA NothingToRaise ==
  ASSUME Inv, Read, Untorn
  PROVE  ~Raises
<1>1. PICK h, s : Reading(h, s)
  BY DEF Read
<1> USE <1>1 DEF Reading
<1>2. /\ s \in State /\ WellFormed(s) /\ k \in State /\ WellFormed(k) /\ spool \in Seq(Chunk)
      /\ pending \in [state : {"none", "torn", "whole"}, chunk : Chunk]
      /\ cur \in 0 .. Len(journal)
  BY DEF Disk, Inv, Typed, TypeOK
<1>3. Horizon \in Nat /\ s.next = Len(s.refs) /\ s.next \in 0 .. Horizon
      /\ (s.open => s.next < Horizon)
  BY <1>2, HorizonAssumption DEF WellFormed, State
<1>4. Level(s) => SpoolCloses(s)
  BY DEF Level, SpoolCloses, ChunkOf
<1>5. Behind(s) => Unpublished(s) /\ pending.state = "whole"
  <2> HAVE Behind(s)
  <2>1. Len(s.refs) = Len(spool) + 1 /\ s.refs[Len(spool) + 1] = pending.chunk
        /\ Len(spool) \in Nat
    BY <1>2 DEF Behind
  <2> QED BY <2>1 DEF Behind, Unpublished
<1>6. output # "absent" => Level(s) /\ ~s.open
  <2> HAVE output # "absent"
  <2>1. Len(spool) = Horizon
    BY DEF Inv, Facts, Outputs, PublishedIsComplete
  <2>2. ~Behind(s)
    <3>1. Behind(s) => Len(s.refs) = Len(spool) + 1
      BY <1>2 DEF Behind
    <3> QED BY <1>3, <2>1, <3>1
  <2>3. Level(s)
    BY <2>2 DEF Disk, Stored
  <2> QED BY <1>3, <2>1, <2>3 DEF Level
<1>7. pc = "replay" /\ cur = Len(journal) => ReplayCloses
  <2> HAVE pc = "replay" /\ cur = Len(journal)
  <2>1. rp = s /\ text # "corrupt" /\ goal \in {"resume", "finalize"}
    BY DEF Untorn, Inv, Facts, Control
  <2>2. s.published => output = s.source
    BY DEF Disk, Issued
  <2>3. output # "absent" =>
          Lifecycle(s) \in {"published", "ready_to_finalize", "durable_partial"}
    BY <1>6 DEF Lifecycle
  <2>4. goal = "finalize" => SpoolCloses(s) /\ Len(s.refs) = Len(k.refs)
    <3> HAVE goal = "finalize"
    <3>1. Same(k, s) /\ Level(s)
      BY DEF Memory, Alive
    <3> QED BY <1>2, <1>4, <3>1, SameFields
  <2> QED BY <2>1, <2>2, <2>3, <2>4 DEF ReplayCloses
<1>8. pc = "replay" /\ cur < Len(journal) => Accepts(rp, journal[cur + 1])
  BY <1>2 DEF Reads
<1>9. pc = "restore" => SpoolCloses(rp) \/ (Unpublished(rp) /\ pending.state = "whole")
  BY <1>4, <1>5 DEF Disk, Stored, Inv, Facts, Control
<1>a. pc = "run" /\ Complete => Preparable
  <2> HAVE pc = "run" /\ Complete
  <2>1. Same(k, s) /\ Level(s)
    BY DEF Memory, Alive, Running
  <2>2. ChunkOf(k) = ChunkOf(s) /\ k.next = s.next
    BY <1>2, <2>1, SameFields
  <2>3. Len(spool) = k.next
    BY <1>3, <2>1, <2>2 DEF Level
  <2>4. pending.state # "none" => pending.state = "whole" /\ pending.chunk = ChunkOf(k)
    BY <1>2, <2>1, <2>2 DEF Level, Untorn
  <2> QED BY <1>2, <2>3, <2>4 DEF Preparable
<1>b. pc = "committed" => pending = [state |-> "whole", chunk |-> ChunkOf(k)]
  BY DEF Memory
<1> QED BY <1>7, <1>8, <1>9, <1>a, <1>b DEF Raises, Untorn

LEMMA ClosesStep ==
  ASSUME Inv, Read, EveryReplayCloses, [Next]_vars
  PROVE  EveryReplayCloses'
<1>1. CASE RaiseError
  <2>1. Raises /\ UNCHANGED <<text, pending>>
    BY <1>1 DEF RaiseError, disk
  <2> QED BY <2>1, NothingToRaise DEF EveryReplayCloses, Untorn
<1>2. CASE UNCHANGED vars
  BY <1>2 DEF EveryReplayCloses, Untorn, vars, disk
<1>3. CASE Next /\ ~RaiseError
  <2>1. pc' # "rejected"
    BY <1>3 DEF Next, Open, OpenNew, WriteIdentity, AppendRunStarted, Resume, Restore,
       ReplayRecord, FinishReplay, RecoverPrepared, RestoreKernel, RunBatch, WritePlan,
       AppendPlan, StartVariant, ExecuteVariant, RegisterTerminal, ClosePair, Commit,
       PrepareChunk, AppendCommit, PublishChunk, Finalize, ReplayBeforeFinalizing,
       AdoptOutput, BeginStaging, CloseStaging, AppendFinalized, RenameStaging,
       AppendPublished, Fail, TearChunk, Crash, Step, Persist, Die
  <2> QED BY <2>1 DEF EveryReplayCloses
<1> QED BY <1>1, <1>2, <1>3

\* The journal's own accounts, from a reading of it.
LEMMA ReadingTells ==
  ASSUME Inv, Read
  PROVE  NothingTwice /\ NoCommitLost
<1>1. PICK h, s : Reading(h, s)
  BY DEF Read
<1> USE <1>1 DEF Reading, Disk, Told
<1>2. s \in State /\ spool \in Seq(Chunk)
      /\ pending \in [state : {"none", "torn", "whole"}, chunk : Chunk]
  BY DEF Inv, Typed, TypeOK
<1>3. ExposedOnce
  <2>1. \A c \in Commits : \E d \in PlansRecorded : c.t = d.t /\ c.plan = d.plan
    BY DEF Referred
  <2>2. \A c \in Commits \cup PlansRecorded :
          \E d \in PlansRecorded : c.t = d.t /\ c.plan = d.plan
    BY <2>1
  <2>3. \A d, e \in PlansRecorded : d.t # e.t => Delivered(d.plan) \cap Delivered(e.plan) = {}
    BY DEF Planned
  <2>4. ASSUME NEW c \in Commits \cup PlansRecorded, NEW d \in Commits \cup PlansRecorded,
               c.t # d.t
        PROVE  Delivered(c.plan) \cap Delivered(d.plan) = {}
    <3>1. PICK x \in PlansRecorded : c.t = x.t /\ c.plan = x.plan
      BY <2>2
    <3>2. PICK y \in PlansRecorded : d.t = y.t /\ d.plan = y.plan
      BY <2>2
    <3>3. Delivered(x.plan) \cap Delivered(y.plan) = {}
      BY <2>3, <2>4, <3>1, <3>2
    <3> QED BY <3>1, <3>2, <3>3
  <2> QED BY <2>1, <2>4 DEF ExposedOnce
<1>4. OneTerminalEach
  BY DEF Answered
<1>5. ASSUME NEW c \in Commits
      PROVE  \/ c.t < Len(spool) /\ spool[c.t + 1] = c
             \/ c.t = Len(spool) /\ pending = [state |-> "whole", chunk |-> c]
  <2>1. PICK i \in 1 .. Len(s.refs) : c = s.refs[i]
    BY DEF Referred
  <2>2. c.t = i - 1 /\ i \in Nat
    BY <2>1 DEF Referred
  <2>3. CASE Level(s)
    BY <2>1, <2>2, <2>3 DEF Level
  <2>4. CASE Behind(s)
    <3>1. /\ Len(s.refs) = Len(spool) + 1 /\ s.refs[Len(spool) + 1] = pending.chunk
          /\ Len(spool) \in Nat /\ \A j \in 1 .. Len(spool) : s.refs[j] = spool[j]
      BY <1>2, <2>4 DEF Behind
    <3>2. CASE i = Len(spool) + 1
      BY <1>2, <2>1, <2>2, <2>4, <3>1, <3>2 DEF Behind
    <3>3. CASE i # Len(spool) + 1
      <4>1. i \in 1 .. Len(spool)
        BY <2>1, <3>1, <3>3
      <4>2. spool[i] = c
        BY <2>1, <3>1, <4>1
      <4> QED BY <2>2, <4>1, <4>2
    <3> QED BY <3>2, <3>3
  <2> QED BY <2>3, <2>4 DEF Stored
<1> QED BY <1>3, <1>4, <1>5 DEF NothingTwice, NoCommitLost

\* The journal can always be read to its end, and kernel, snapshots, spool and output
\* are what the reading says.
THEOREM ReadInvariant == Spec => [](Inv /\ Read)
<1>1. Init => Inv /\ Read
  BY InitInv, InitRead
<1>2. Inv /\ Read /\ [Next]_vars => (Inv /\ Read)'
  BY InvStep, ReadStep
<1> QED BY <1>1, <1>2, PTL DEF Spec

\* No resume raises unless a crash left half of a write behind.
THEOREM NoResumeRaises == Spec => []EveryReplayCloses
<1>1. Init => EveryReplayCloses
  BY DEF Init, EveryReplayCloses
<1>2. Inv /\ Read /\ EveryReplayCloses /\ [Next]_vars => EveryReplayCloses'
  BY ClosesStep
<1> QED BY <1>1, <1>2, ReadInvariant, PTL DEF Spec

\* No pair is delivered twice and no variant of a pair answered twice, over any number
\* of batches, crashes and resumes.
THEOREM DeliveredOnce == Spec => []NothingTwice
<1>1. Inv /\ Read => NothingTwice
  BY ReadingTells
<1> QED BY <1>1, ReadInvariant, PTL

\* Every batch the journal commits is in the spool, or prepared in whole.
THEOREM CommitsKept == Spec => []NoCommitLost
<1>1. Inv /\ Read => NoCommitLost
  BY ReadingTells
<1> QED BY <1>1, ReadInvariant, PTL

-----------------------------------------------------------------------------
\* The journal keeps the campaign's promise.

\* An append tells the campaign what its record is.
LEMMA PromiseAppended ==
  ASSUME Typed, NEW rec \in Record, journal' = Append(journal, rec)
  PROVE  /\ Commits' = Commits \cup Committed(rec)
         /\ HasPublished' = (HasPublished \/ rec.type = "run_published")
<1>1. journal \in Seq(Record)
  BY DEF Typed, TypeOK
<1>2. RecordsOf("run_published")' = RecordsOf("run_published") \cup
        (IF rec.type = "run_published" THEN {Len(journal) + 1} ELSE {})
  <2>1. "run_published" \in Types
    BY DEF Types
  <2> QED BY <1>1, <2>1, RecordsAppended
<1> QED BY <1>1, <1>2, CommitsAppended DEF HasPublished

\* What an append to the journal adds to it, whichever way it ends.
LEMMA PersistAdds ==
  ASSUME NEW rec, NEW s, NEW at, Persist(rec, s, at)
  PROVE  journal' = journal \/ journal' = Append(journal, rec)
BY DEF Persist

LEMMA PromiseKept ==
  ASSUME UNCHANGED journal
  PROVE  UNCHANGED <<Commits, HasPublished>>
BY DEF Commits, CommitsBefore, HasPublished, RecordsOf

\* The campaign's data are the runtime's.
LEMMA SameData ==
  /\ \A exposed : Campaign!Plans(exposed) = Plans(exposed)
  /\ \A plan : Campaign!Delivered(plan) = Delivered(plan)
  /\ \A plan, results : Campaign!Positives(plan, results) = Positives(plan, results)
  /\ Campaign!Answers = Answers
<1>1. \A plan : Campaign!Delivered(plan) = Delivered(plan)
  BY DEF Campaign!Delivered, Delivered
<1>2. \A plan, results : Campaign!Positives(plan, results) = Positives(plan, results)
  BY DEF Campaign!Positives, Positives, Campaign!User, User
<1>3. Campaign!Answers = Answers
  BY DEF Campaign!Answers, Answers
<1>4. Campaign!Messages = Messages /\ Campaign!Pairs = Pairs
  BY DEF Campaign!Messages, Messages, Campaign!Pairs, Pairs
<1>5. ASSUME NEW exposed
      PROVE  Campaign!Plans(exposed) = Plans(exposed)
  <2> DEFINE Any == UNION {[1 .. n -> Pairs] : n \in 0 .. MessageCount * Capacity}
             Own(plan) ==
               /\ \A i, j \in DOMAIN plan : i < j => /\ plan[i] # plan[j]
                                                    /\ plan[i][1] <= plan[j][1]
               /\ Delivered(plan) \cap exposed = {}
               /\ \A m \in Messages :
                    Cardinality({i \in DOMAIN plan : plan[i][1] = m})
                      = Fewest(Capacity, Cardinality(Eligible(m, exposed)))
             Theirs(plan) ==
               /\ \A i, j \in DOMAIN plan : i < j => /\ plan[i] # plan[j]
                                                    /\ plan[i][1] <= plan[j][1]
               /\ Campaign!Delivered(plan) \cap exposed = {}
               /\ \A m \in Campaign!Messages :
                    Cardinality({i \in DOMAIN plan : plan[i][1] = m})
                      = Campaign!Fewest(Capacity, Cardinality(Campaign!Eligible(m, exposed)))
  <2>1. Plans(exposed) = {plan \in Any : Own(plan)}
    BY DEF Plans
  <2>c. ASSUME NEW S
        PROVE  Campaign!Cardinality(S) = Cardinality(S)
    BY Zenon DEF Campaign!Cardinality, Cardinality
  <2>2. Campaign!Plans(exposed) = {plan \in Any : Theirs(plan)}
    <3> DEFINE Other == UNION {[1 .. n -> Campaign!Pairs] : n \in 0 .. MessageCount * Capacity}
    <3>1. Campaign!Plans(exposed) = {plan \in Other : Theirs(plan)}
      BY <2>c DEF Campaign!Plans
    <3>2. Other = Any
      BY <1>4
    <3> QED BY <3>1, <3>2
  <2>3. ASSUME NEW m
        PROVE  Campaign!Fewest(Capacity, Cardinality(Campaign!Eligible(m, exposed)))
                 = Fewest(Capacity, Cardinality(Eligible(m, exposed)))
    BY DEF Campaign!Eligible, Eligible, Campaign!Fewest, Fewest
  <2>4. ASSUME NEW plan
        PROVE  Own(plan) <=> Theirs(plan)
    BY <1>1, <1>4, <2>3
  <2> HIDE DEF Any, Own, Theirs
  <2> QED BY <2>1, <2>2, <2>4
<1> QED BY <1>1, <1>2, <1>3, <1>5

\* A commit record is the campaign's next batch.
LEMMA PromiseCommit ==
  ASSUME Inv, Read, AppendCommit, journal' # journal
  PROVE  Campaign!CommitBatch
<1>1. PICK h, s : Reading(h, s)
  BY DEF Read
<1> USE <1>1 DEF Reading, Disk, Told
<1> DEFINE c   == ChunkOf(k)
           rec == BatchCommitted(k.records, c)
<1>2. /\ pc = "prepared" /\ k.open /\ AllClosed(k) /\ Len(spool) = k.next
      /\ Persist(rec, Counted(k), "committed") /\ k \in State /\ WellFormed(k)
      /\ s \in State
  BY DEF AppendCommit, Inv, Typed, TypeOK, Facts, Control
<1>3. c \in Chunk /\ c.t = k.next
  BY <1>2, ChunkTyped
<1> HIDE DEF c
<1>4. rec \in Record /\ rec.type = "batch_committed" /\ rec.chunk = c
  BY <1>2, <1>3 DEF BatchCommitted, Record, State
<1>5. journal' = Append(journal, rec)
  BY <1>2, PersistAdds
<1> HIDE DEF rec
<1>6. Commits' = Commits \cup {c} /\ HasPublished' = HasPublished
  <2>1. Typed /\ Committed(rec) = {c} /\ rec.type # "run_published"
    BY <1>4 DEF Inv, Committed
  <2>2. Commits' = Commits \cup Committed(rec)
        /\ HasPublished' = (HasPublished \/ rec.type = "run_published")
    BY <1>4, <1>5, <2>1, PromiseAppended
  <2>3. HasPublished \in BOOLEAN
    BY DEF HasPublished
  <2> QED BY <2>1, <2>2, <2>3
<1>7. k.next \in Nat /\ k.next < Horizon
  BY <1>2, HorizonAssumption DEF State, WellFormed
<1>8. ~HasPublished
  <2>1. output = "absent"
    BY <1>2, <1>7 DEF Inv, Facts, Outputs, PublishedIsComplete
  <2> QED BY <2>1 DEF Inv, Facts, Outputs
<1>9. Alive /\ Same(k, s)
  BY <1>2 DEF Memory, Alive, Running
<1>a. k.batch = s.batch /\ s.open
  BY <1>2, <1>9, SameFields
<1>b. k.next \in {x \in 0 .. Horizon - 1 : Campaign!TimeSteps(Commits) = 0 .. x - 1}
  <2>1. Times(Len(journal) + 1) = 0 .. k.next - 1
    BY <1>2, <1>9 DEF Inv, Facts, Knowledge
  <2>2. Campaign!TimeSteps(Commits) = 0 .. k.next - 1
    BY <2>1 DEF Campaign!TimeSteps, Times, Commits
  <2>3. k.next \in 0 .. Horizon - 1
    BY <1>7, HorizonAssumption
  <2> HIDE DEF Campaign!TimeSteps
  <2> QED BY <2>2, <2>3
<1>c. k.engaged = Campaign!Engaged(Commits)
  <2>1. k.engaged = Feedback(Len(journal) + 1)
    BY <1>2, <1>9 DEF Inv, Facts, Knowledge
  <2> QED BY <2>1 DEF Campaign!Engaged, Feedback, Commits
<1>d. k.batch.plan \in Campaign!Plans(Campaign!Exposed(Commits))
  <2>1. Campaign!Exposed(Commits) = Seen(s)
    <3>1. Commits = {s.refs[i] : i \in 1 .. Len(s.refs)}
      BY DEF Referred
    <3>2. Campaign!Exposed(Commits) = UNION {Delivered(b.plan) : b \in Commits}
      BY SameData DEF Campaign!Exposed
    <3> QED BY <3>1, <3>2 DEF Seen
  <2>2. k.batch.plan \in Plans(Seen(s))
    BY <1>a DEF Shaped
  <2> QED BY <2>1, <2>2, SameData
<1>e. k.batch.results \in [1 .. Len(k.batch.plan) -> Answers]
  <2>1. k.batch.results \in Seq(Answers) /\ Len(k.batch.results) = Len(k.batch.plan)
    BY <1>2 DEF State, Batch, AllClosed
  <2> QED BY <2>1
<1>f. k.batch.positives = Positives(k.batch.plan, k.batch.results)
  BY <1>a DEF Shaped
<1>g. c = [t |-> k.next, frozen |-> k.engaged, plan |-> k.batch.plan,
           results |-> k.batch.results,
           committed |-> Positives(k.batch.plan, k.batch.results)]
  BY <1>2, <1>f DEF c, ChunkOf, WellFormed
<1>h. c \in Campaign!NextBatches(Commits)
  <2>1. Campaign!NextBatches(Commits) =
          UNION {{[t |-> t, frozen |-> Campaign!Engaged(Commits), plan |-> plan,
                   results |-> results, committed |-> Positives(plan, results)] :
                     results \in [1 .. Len(plan) -> Answers]} :
                 t \in {x \in 0 .. Horizon - 1 : Campaign!TimeSteps(Commits) = 0 .. x - 1},
                 plan \in Campaign!Plans(Campaign!Exposed(Commits))}
    BY SameData DEF Campaign!NextBatches
  <2> DEFINE ts == {x \in 0 .. Horizon - 1 : Campaign!TimeSteps(Commits) = 0 .. x - 1}
             ps == Campaign!Plans(Campaign!Exposed(Commits))
             next(t, plan) ==
               {[t |-> t, frozen |-> Campaign!Engaged(Commits), plan |-> plan,
                 results |-> results, committed |-> Positives(plan, results)] :
                   results \in [1 .. Len(plan) -> Answers]}
  <2>2. c \in next(k.next, k.batch.plan)
    BY <1>c, <1>e, <1>g
  <2>3. Campaign!NextBatches(Commits) = UNION {next(t, plan) : t \in ts, plan \in ps}
    BY <2>1
  <2>4. k.next \in ts /\ k.batch.plan \in ps
    BY <1>b, <1>d
  <2> HIDE DEF next, ts, ps
  <2> QED BY <2>2, <2>3, <2>4
<1> QED BY <1>6, <1>8, <1>h DEF Campaign!CommitBatch

\* A record that is neither a commit nor the publication leaves the promise alone.
LEMMA PromiseUntouched ==
  ASSUME Inv, Inv', NEW rec, NEW s, NEW at, Persist(rec, s, at),
         rec.type \notin {"batch_committed", "run_published"}
  PROVE  UNCHANGED <<Commits, HasPublished>>
<1>1. CASE journal' = journal
  BY <1>1, PromiseKept
<1>2. CASE journal' = Append(journal, rec)
  <2>1. rec \in Record
    <3> DEFINE n == Len(journal) + 1
    <3>1. journal \in Seq(Record) /\ journal' \in Seq(Record)
      BY DEF Inv, Typed, TypeOK
    <3>2. journal'[n] = rec /\ n \in 1 .. Len(journal')
      BY <1>2, <3>1
    <3> QED BY <3>1, <3>2
  <2>2. Typed /\ Committed(rec) = {}
    BY DEF Inv, Committed
  <2>3. HasPublished \in BOOLEAN
    BY DEF HasPublished
  <2> QED BY <1>2, <2>1, <2>2, <2>3, PromiseAppended
<1> QED BY <1>1, <1>2, PersistAdds

\* The publication is the campaign's.
LEMMA PromisePublished ==
  ASSUME Inv, AppendPublished, journal' # journal
  PROVE  Campaign!Publish
<1> DEFINE rec == RunPublished(k.records, output)
<1>1. Persist(rec, Published(k, output), "done") /\ output # "absent" /\ output \in Status
      /\ k \in State
  BY DEF AppendPublished, Inv, Typed, TypeOK, Facts, Control
<1>2. rec \in Record /\ rec.type = "run_published"
  BY <1>1 DEF RunPublished, Record, State
<1> HIDE DEF rec
<1>3. journal' = Append(journal, rec)
  BY <1>1, PersistAdds
<1>4. Commits' = Commits /\ HasPublished' = TRUE
  <2>1. Typed /\ Committed(rec) = {}
    BY <1>2 DEF Inv, Committed
  <2> QED BY <1>2, <1>3, <2>1, PromiseAppended DEF HasPublished
<1>5. Campaign!TimeSteps(Commits) = 0 .. Horizon - 1
  BY <1>1 DEF Campaign!TimeSteps, Inv, Facts, Outputs, PublishedIsComplete
<1> QED BY <1>4, <1>5 DEF Campaign!Publish

LEMMA PromiseInit ==
  ASSUME Init
  PROVE  Campaign!Init
<1>1. journal = <<>> /\ Len(journal) = 0
  BY DEF Init
<1>2. Commits = {} /\ HasPublished = FALSE
  BY <1>1 DEF Commits, CommitsBefore, HasPublished, RecordsOf
<1> QED BY <1>2 DEF Campaign!Init

\* Every step of the runtime is a step of the campaign, or none.
LEMMA PromiseStep ==
  ASSUME Inv, Read, Inv', [Next]_vars
  PROVE  [Campaign!Next]_(Campaign!vars)
<1>k. CASE UNCHANGED <<Commits, HasPublished>>
  BY <1>k DEF Campaign!vars
<1>j. CASE UNCHANGED journal
  BY <1>j, <1>k, PromiseKept
<1>1. CASE AppendCommit
  BY <1>1, <1>j, PromiseCommit DEF Campaign!Next
<1>2. CASE AppendPublished
  BY <1>2, <1>j, PromisePublished DEF Campaign!Next
<1>3. CASE AppendRunStarted
  BY <1>3, <1>k, PromiseUntouched DEF AppendRunStarted, RunStarted
<1>4. CASE AppendPlan
  BY <1>4, <1>k, PromiseUntouched DEF AppendPlan, BatchPlan
<1>5. CASE StartVariant
  BY <1>5, <1>k, PromiseUntouched DEF StartVariant, VariantStarted
<1>6. CASE RegisterTerminal
  BY <1>6, <1>k, PromiseUntouched DEF RegisterTerminal, VariantTerminal
<1>7. CASE ClosePair
  BY <1>7, <1>k, PromiseUntouched DEF ClosePair, PairClosed
<1>8. CASE AppendFinalized
  BY <1>8, <1>j, <1>k, PromiseUntouched DEF AppendFinalized, RunFinalized, disk
<1>9. CASE \/ OpenNew \/ WriteIdentity \/ Resume \/ Restore \/ WritePlan \/ ExecuteVariant
           \/ PrepareChunk \/ PublishChunk
  BY <1>9, <1>j DEF OpenNew, WriteIdentity, Resume, Restore, ReplayRecord, FinishReplay,
     RecoverPrepared, RestoreKernel, WritePlan, ExecuteVariant, PrepareChunk, PublishChunk,
     disk
<1>a. CASE \/ ReplayBeforeFinalizing \/ AdoptOutput \/ BeginStaging \/ CloseStaging
           \/ RenameStaging \/ Fail \/ UNCHANGED vars
  BY <1>a, <1>j DEF ReplayBeforeFinalizing, AdoptOutput, BeginStaging, CloseStaging,
     RenameStaging, Fail, TearChunk, RaiseError, Crash, disk, vars
<1> QED
  BY <1>1, <1>2, <1>3, <1>4, <1>5, <1>6, <1>7, <1>8, <1>9, <1>a
  DEF Next, Open, RunBatch, Commit, Finalize

\* The durable run, whatever crashes and resumes it goes through, is a campaign whose
\* batches take effect one after the other, each as a whole and from the feedback of the
\* earlier ones only, and that is published once they all have.
THEOREM KeepsThePromise == Spec => KeepsFeedbackPromise
<1>1. Init => Campaign!Init
  BY PromiseInit
<1>2. (Inv /\ Read) /\ (Inv /\ Read)' /\ [Next]_vars => [Campaign!Next]_(Campaign!vars)
  BY PromiseStep
<1> QED BY <1>1, <1>2, ReadInvariant, PTL DEF Spec, KeepsFeedbackPromise, Campaign!Spec
=============================================================================
