--------------------------- MODULE DecisionProofs ---------------------------
(***************************************************************************)
(* Theorems about decisions, where they are used and where they come from. *)
(*                                                                         *)
(* The simulation, for every network, population, horizon and set of       *)
(* seeds: the turns of the agents make the waves of DiffusionWaves, and    *)
(* the summary of a run tells what its events say.  The subscription       *)
(* client, for every number of decisions, attempts, workers, faults and    *)
(* interrupts: the calls are accounted for.                                *)
(***************************************************************************)
EXTENDS Simulation, SubscriptionClient, FiniteLemmas, FiniteSetTheorems, TLAPS

-----------------------------------------------------------------------------
\* The simulation.

UsersOf(E) == {e.user : e \in E}
Depths     == -1 .. Horizon

ExposureSet == [user : Users, source : Users \cup {Nobody}, depth : Depths]
ActionSet   == [user : Users, action : Actions, depth : Depths]
EventSet    == [exposures : SUBSET ExposureSet, decisions : SUBSET Users,
                actions : SUBSET ActionSet]
RecordSet   == [exposed : Int, engaged : Int, newExposed : Int, newEngaged : Int,
                events : EventSet]

Typed ==
  /\ graph \in [Users -> SUBSET Users] /\ seeds \in SUBSET Users
  /\ pc \in {"seed", "begin", "agents", "record", "done", "aborted"}
  /\ turn \in Nat /\ step \in 0 .. Horizon
  /\ exposed \in SUBSET Users /\ engaged \in SUBSET Users
  /\ depths \in [Users -> Depths]
  /\ before \in Int \X Int
  /\ events \in EventSet
  /\ records \in Seq(RecordSet) /\ Len(records) = step

\* Those who have seen the post, or engaged, in the steps that have their record.
Seen  == seeds \cup Shared("exposures")
Acted == Shared("actions")
Reach == IF pc = "record" THEN step + 1 ELSE step

\* What the environment, the agents and the events know of one another.
Agree ==
  /\ asking = exposed /\ settled = engaged
  /\ engaged \subseteq Seen
  /\ engaged = Acted \cup UsersOf(events.actions)
  /\ \A u \in Users : traces[u] = "share" => u \in engaged
  /\ exposed = Seen \cup UsersOf(events.exposures)
  /\ \A e \in Over("exposures") \cup events.exposures : e.depth = depths[e.user]
  /\ \A u \in Users : depths[u] = IF u \in seeds THEN 0 ELSE depths[u]
  /\ \A u \in Users \ exposed : depths[u] = -1
  /\ \A u \in exposed : 0 <= depths[u] /\ depths[u] <= Reach

\* What is not recorded yet of this step.
Pending ==
  /\ UsersOf(events.actions) \cap Acted = {}
  /\ pc # "record" => UsersOf(events.exposures) \subseteq seeds
  /\ pc \in {"agents", "record"} => step < Horizon
  /\ \A e \in events.exposures :
       e.user \in seeds \/ \E s \in engaged : e.user \in graph[s] /\ e.depth = depths[s] + 1

Unseeded ==
  /\ records = <<>> /\ events = NoEvents
  /\ exposed = {} /\ engaged = {} /\ asking = {} /\ settled = {}
  /\ depths = [u \in Users |-> -1] /\ traces = [u \in Users |-> None]

IInv == Typed /\ IF pc = "seed" THEN Unseeded ELSE Agree /\ Pending

-----------------------------------------------------------------------------
\* The events of records are of their types.
LEMMA OverType ==
  ASSUME records \in Seq(RecordSet)
  PROVE  Over("exposures") \subseteq ExposureSet /\ Over("actions") \subseteq ActionSet
<1>1. \A i \in DOMAIN records : records[i] \in RecordSet
  OBVIOUS
<1>2. \A i \in DOMAIN records :
        records[i].events.exposures \subseteq ExposureSet /\ records[i].events.actions \subseteq ActionSet
  BY <1>1 DEF RecordSet, EventSet
<1> QED
  BY <1>2 DEF Over

\* A new record adds its own events.
LEMMA OverAppend ==
  ASSUME NEW f \in {"exposures", "actions"}, NEW r \in RecordSet,
         records \in Seq(RecordSet), records' = Append(records, r)
  PROVE  Over(f)' = Over(f) \cup r.events[f]
<1>1. /\ DOMAIN records' = DOMAIN records \cup {Len(records) + 1}
      /\ records'[Len(records) + 1] = r
      /\ \A i \in DOMAIN records : records'[i] = records[i]
  OBVIOUS
<1>2. \A x : x \in Over(f)' <=> \E i \in DOMAIN records' : x \in records'[i].events[f]
  BY DEF Over
<1>3. \A x : x \in Over(f) <=> \E i \in DOMAIN records : x \in records[i].events[f]
  BY DEF Over
<1> QED
  BY <1>1, <1>2, <1>3

\* Exposures that agree with the environment give each user its depth.
LEMMA DepthOfUser ==
  ASSUME NEW E, NEW D, NEW u \in UsersOf(E), \A e \in E : e.depth = D[e.user]
  PROVE  (CHOOSE e \in E : e.user = u).depth = D[u]
BY DEF UsersOf

\* What is counted is finite.
LEMMA CountsAreNumbers == Typed => Counts \in Int \X Int
<1> SUFFICES ASSUME Typed PROVE Counts \in Int \X Int
  OBVIOUS
<1>1. IsFiniteSet(Users)
  BY FS_Interval, SimulationAssumption DEF Users
<1>2. exposed \subseteq Users /\ engaged \subseteq Users
  BY DEF Typed
<1>3. IsFiniteSet(exposed) /\ IsFiniteSet(engaged)
  BY <1>1, <1>2, FS_Subset
<1> QED
  BY <1>3, FS_CardinalityType DEF Counts

-----------------------------------------------------------------------------
\* Before the post is shown to the seeds.
LEMMA InitInvariant == Init => IInv
<1> SUFFICES ASSUME Init PROVE IInv
  OBVIOUS
<1> USE SimulationAssumption
<1>1. events \in EventSet
  BY DEF Init, NoEvents, EventSet
<1>2. Typed
  BY <1>1 DEF Init, Typed, Networks, Depths
<1> QED
  BY <1>2 DEF Init, IInv, Unseeded

\* The post is shown to the seeds, who are events of the first step.
LEMMA SeedStep == IInv /\ SeedExposure => IInv'
<1> SUFFICES ASSUME IInv, SeedExposure PROVE IInv'
  OBVIOUS
<1>1. pc = "seed" /\ Typed /\ Unseeded /\ pc' = "begin"
  BY DEF IInv, SeedExposure, Goto
<1>2. /\ exposed' = seeds /\ asking' = seeds /\ engaged' = {} /\ settled' = {}
      /\ UNCHANGED <<graph, seeds, step, turn, before, records, traces>>
      /\ depths' = [u \in Users |-> IF u \in seeds THEN 0 ELSE -1]
  BY <1>1 DEF SeedExposure, Unseeded
<1>3. /\ events'.exposures = {Exposure(u, Nobody, 0) : u \in seeds}
      /\ events'.actions = {} /\ events' \in EventSet
  <2>1. events' = [exposures |-> {Exposure(u, Nobody, 0) : u \in seeds}, decisions |-> {},
                   actions |-> {}]
    BY DEF SeedExposure, NoEvents
  <2>2. {Exposure(u, Nobody, 0) : u \in seeds} \subseteq ExposureSet
    BY <1>1, SimulationAssumption DEF Exposure, ExposureSet, Depths, Typed
  <2> QED
    BY <2>1, <2>2 DEF EventSet
<1>4. \A f : Over(f)' = {}
  BY <1>1, <1>2 DEF Over, Unseeded
<1>5. UsersOf(events'.exposures) = seeds /\ UsersOf(events'.actions) = {}
  <2>1. \A u \in seeds : Exposure(u, Nobody, 0).user = u
    BY DEF Exposure
  <2> QED
    BY <1>3, <2>1 DEF UsersOf
<1>6. Typed'
  <2>1. depths' \in [Users -> Depths]
    BY <1>2, SimulationAssumption DEF Depths
  <2>2. exposed' \in SUBSET Users /\ engaged' \in SUBSET Users
    BY <1>1, <1>2 DEF Typed
  <2> QED
    BY <1>1, <1>2, <1>3, <2>1, <2>2 DEF Typed
<1>7. Seen' = seeds /\ Acted' = {}
  BY <1>2, <1>4 DEF Seen, Acted, Shared
<1>8. Agree'
  <2>1. \A e \in events'.exposures : e.user \in seeds /\ e.depth = 0
    BY <1>3 DEF Exposure
  <2>2. step' \in Nat
    BY <1>1, <1>2, SimulationAssumption DEF Typed
  <2>3. \A u \in Users : traces'[u] # "share"
    BY <1>1, <1>2 DEF Unseeded, None
  <2>4. seeds \subseteq Users
    BY <1>1 DEF Typed
  <2> QED
    BY <1>1, <1>2, <1>4, <1>5, <1>7, <2>1, <2>2, <2>3, <2>4 DEF Agree, Reach
<1>9. Pending'
  <2>1. \A e \in events'.exposures : e.user \in seeds
    BY <1>3 DEF Exposure
  <2> QED
    BY <1>1, <1>2, <1>5, <1>7, <2>1 DEF Pending
<1> QED
  BY <1>1, <1>6, <1>8, <1>9 DEF IInv

\* Steps between the turns of the agents, which change nothing they know.
Quiet == UNCHANGED <<graph, seeds, exposed, engaged, traces, depths, asking, settled, events,
                     records, step>>

\* They keep it.
LEMMA QuietStep == IInv /\ (BeginStep \/ PassOver \/ Raise \/ Summarise \/ UNCHANGED vars) => IInv'
<1> SUFFICES ASSUME IInv, BeginStep \/ PassOver \/ Raise \/ Summarise \/ UNCHANGED vars
             PROVE  IInv'
  OBVIOUS
<1>1. Quiet
  BY DEF BeginStep, PassOver, Raise, Summarise, vars, Quiet
<1>2. CASE UNCHANGED vars
  <2>1. Seen' = Seen /\ Acted' = Acted /\ (\A f : Over(f)' = Over(f)) /\ Reach' = Reach
    BY <1>2 DEF Seen, Acted, Shared, Over, Reach, vars
  <2>2. Typed => Typed'
    BY <1>2 DEF Typed, vars
  <2>3. Unseeded => Unseeded'
    BY <1>2 DEF Unseeded, vars
  <2>4. Agree => Agree'
    BY <1>2, <2>1 DEF Agree, vars
  <2>5. Pending => Pending'
    BY <1>2, <2>1 DEF Pending, vars
  <2>6. pc' = pc
    BY <1>2 DEF vars
  <2> QED
    BY <2>2, <2>3, <2>4, <2>5, <2>6 DEF IInv
<1>3. CASE BeginStep \/ PassOver \/ Raise \/ Summarise
  <2>1. /\ pc \in {"begin", "agents"} /\ pc' \in {"agents", "done", "aborted"}
        /\ pc' = "agents" => step < Horizon
    BY <1>3 DEF BeginStep, PassOver, Raise, Summarise, Goto, IInv, Pending
  <2>2. turn' \in Nat
    BY <1>3 DEF BeginStep, PassOver, Raise, Summarise, IInv, Typed
  <2>3. before' \in Int \X Int
    <3>1. Typed
      BY DEF IInv
    <3>2. Counts \in Int \X Int
      BY <3>1, CountsAreNumbers
    <3> QED
      BY <1>3, <3>1, <3>2 DEF BeginStep, PassOver, Raise, Summarise, Typed
  <2>4. Typed'
    BY <1>1, <2>1, <2>2, <2>3 DEF Quiet, IInv, Typed
  <2>5. Seen' = Seen /\ Acted' = Acted /\ (\A f : Over(f)' = Over(f)) /\ Reach' = Reach
    BY <1>1, <2>1 DEF Quiet, Seen, Acted, Shared, Over, Reach
  <2>6. Agree'
    BY <1>1, <2>1, <2>5 DEF Quiet, IInv, Agree
  <2>7. Pending'
    BY <1>1, <2>1, <2>5 DEF Quiet, IInv, Pending
  <2> QED
    BY <2>1, <2>4, <2>6, <2>7 DEF IInv
<1> QED
  BY <1>2, <1>3

\* An agent acts, or does not.
LEMMA AgentStep == ASSUME IInv, Ignore \/ \E a \in Actions : Engage(a) PROVE IInv'
<1>1. /\ pc = "agents" /\ pc' = "agents" /\ turn \in Users /\ Asked(turn) /\ turn' = turn + 1
      /\ UNCHANGED <<graph, seeds, step, exposed, depths, asking, before, records>>
  BY DEF Ignore, Engage, Goto
<1>2. Typed /\ Agree /\ Pending
  BY <1>1 DEF IInv
<1>3. Seen' = Seen /\ Acted' = Acted /\ (\A f : Over(f)' = Over(f)) /\ Reach' = Reach
  BY <1>1 DEF Seen, Acted, Shared, Over, Reach
<1>4. turn \in Seen /\ turn \notin engaged /\ turn \in exposed
  BY <1>1, <1>2 DEF Agree, Pending, Asked, Seen
<1>5. CASE Ignore
  <2>1. /\ UNCHANGED <<engaged, settled>>
        /\ events' = [events EXCEPT !.decisions = @ \cup {turn}]
        /\ traces' = [traces EXCEPT ![turn] = "ignore"]
    BY <1>5 DEF Ignore
  <2>2. /\ events'.exposures = events.exposures /\ events'.actions = events.actions
        /\ events' \in EventSet
    BY <1>1, <1>2, <2>1 DEF Typed, EventSet
  <2>3. Typed'
    BY <1>1, <1>2, <2>1, <2>2 DEF Typed, Users
  <2>4. \A u \in Users : traces'[u] = "share" => u \in engaged
    BY <1>2, <2>1 DEF Agree
  <2>5. Agree'
    BY <1>1, <1>2, <1>3, <2>1, <2>2, <2>4 DEF Agree
  <2>6. Pending'
    BY <1>1, <1>2, <1>3, <2>1, <2>2 DEF Pending
  <2> QED
    BY <1>1, <2>3, <2>5, <2>6 DEF IInv
<1>6. ASSUME NEW a \in Actions, Engage(a) PROVE IInv'
  <2> DEFINE act == [user |-> turn, action |-> a, depth |-> depths[turn]]
  <2>1. /\ engaged' = engaged \cup {turn} /\ settled' = settled \cup {turn}
        /\ events' = [events EXCEPT !.decisions = @ \cup {turn}, !.actions = @ \cup {act}]
        /\ traces' = [traces EXCEPT ![turn] = a]
    BY <1>6 DEF Engage
  <2>2. act \in ActionSet
    BY <1>1, <1>2 DEF ActionSet, Typed
  <2>3. /\ events'.exposures = events.exposures
        /\ events'.actions = events.actions \cup {act}
        /\ events' \in EventSet
    BY <1>1, <1>2, <2>1, <2>2 DEF Typed, EventSet
  <2>4. UsersOf(events'.actions) = UsersOf(events.actions) \cup {turn}
    <3>1. act.user = turn
      OBVIOUS
    <3> HIDE DEF act
    <3> QED
      BY <2>3, <3>1 DEF UsersOf
  <2>5. Typed'
    BY <1>1, <1>2, <2>1, <2>3 DEF Typed, Users
  <2>6. \A u \in Users : traces'[u] = "share" => u \in engaged'
    BY <1>2, <2>1 DEF Agree
  <2>7. Agree'
    <3>1. asking' = exposed' /\ settled' = engaged' /\ engaged' \subseteq Seen'
          /\ engaged' = Acted' \cup UsersOf(events'.actions)
      BY <1>1, <1>2, <1>3, <1>4, <2>1, <2>4 DEF Agree
    <3> QED
      BY <1>1, <1>2, <1>3, <2>3, <2>6, <3>1 DEF Agree
  <2>8. Pending'
    BY <1>1, <1>2, <1>3, <1>4, <2>1, <2>3, <2>4 DEF Agree, Pending
  <2> QED
    BY <1>1, <2>5, <2>7, <2>8 DEF IInv
<1> QED
  BY <1>5, <1>6

\* The post reaches some neighbours of the engaged.
LEMMA ExposureStep == ASSUME IInv, UpdateExposure PROVE IInv'
<1>1. /\ pc = "agents" /\ pc' = "record"
      /\ UNCHANGED <<graph, seeds, step, turn, engaged, traces, settled, before, records>>
  BY DEF UpdateExposure, Goto
<1>2. Typed /\ Agree /\ Pending /\ step < Horizon
  BY <1>1 DEF IInv, Pending
<1>3. PICK drawn \in SUBSET Candidates :
        /\ exposed' = exposed \cup drawn /\ asking' = asking \cup drawn
        /\ depths' = [u \in Users |-> IF u \in drawn THEN Reached(u).depth ELSE depths[u]]
        /\ events' = [events EXCEPT !.exposures = @ \cup {Reached(u) : u \in drawn}]
  BY DEF UpdateExposure
<1>4. Seen' = Seen /\ Acted' = Acted /\ \A f : Over(f)' = Over(f)
  BY <1>1 DEF Seen, Acted, Shared, Over
<1>5. drawn \subseteq Users \ exposed
  BY DEF Candidates
<1>6. ASSUME NEW u \in drawn
      PROVE  /\ Reached(u).user = u
             /\ Reached(u) \in ExposureSet
             /\ \E s \in engaged : u \in graph[s] /\ Reached(u).depth = depths[s] + 1
             /\ 0 <= Reached(u).depth /\ Reached(u).depth <= step + 1
  <2> DEFINE s == Min(Shown(u))
  <2>1. Shown(u) # {} /\ Shown(u) \subseteq engaged /\ u \in Users
    BY <1>2, <1>6 DEF Candidates, Shown, Sources, Agree
  <2>2. s \in Shown(u)
    <3>1. Shown(u) \subseteq Nat
      <4>1. engaged \subseteq Users
        BY <1>2 DEF Typed
      <4>2. Users \subseteq Nat
        BY SimulationAssumption DEF Users
      <4> QED
        BY <2>1, <4>1, <4>2
    <3> QED
      BY <2>1, <3>1, MinIsMember
  <2>3. s \in engaged /\ u \in graph[s] /\ s \in Users
    BY <1>2, <2>1, <2>2 DEF Shown, Typed
  <2>4. depths[s] \in Int /\ 0 <= depths[s] /\ depths[s] <= step /\ step \in Int
    <3>1. s \in exposed
      BY <1>2, <2>3 DEF Agree
    <3> QED
      BY <1>1, <1>2, <2>3, <3>1, SimulationAssumption DEF Agree, Reach, Typed, Depths
  <2>5. Reached(u) = [user |-> u, source |-> s, depth |-> depths[s] + 1]
    BY DEF Reached, Exposure
  <2> HIDE DEF s
  <2>6. depths[s] + 1 \in Depths
    BY <1>2, <2>4, SimulationAssumption DEF Depths
  <2> QED
    BY <2>1, <2>3, <2>4, <2>5, <2>6 DEF ExposureSet
<1>7. /\ events'.exposures = events.exposures \cup {Reached(u) : u \in drawn}
      /\ events'.actions = events.actions /\ events' \in EventSet
  <2>1. events \in EventSet
    BY <1>2 DEF Typed
  <2>2. {Reached(u) : u \in drawn} \subseteq ExposureSet
    BY <1>6
  <2>3. events' = [events EXCEPT !.exposures = @ \cup {Reached(u) : u \in drawn}]
    BY <1>3
  <2> QED
    BY <2>1, <2>2, <2>3 DEF EventSet
<1>8. UsersOf(events'.exposures) = UsersOf(events.exposures) \cup drawn
  <2> DEFINE new == {Reached(u) : u \in drawn}
  <2>1. ASSUME NEW e \in new PROVE e.user \in drawn
    <3>1. PICK u \in drawn : e = Reached(u)
      OBVIOUS
    <3> QED
      BY <1>6, <3>1
  <2>2. ASSUME NEW u \in drawn PROVE Reached(u) \in new /\ Reached(u).user = u
    BY <1>6
  <2> HIDE DEF new
  <2>3. UsersOf(new) = drawn
    BY <2>1, <2>2 DEF UsersOf
  <2>4. UsersOf(events.exposures \cup new) = UsersOf(events.exposures) \cup UsersOf(new)
    BY DEF UsersOf
  <2>5. events'.exposures = events.exposures \cup new
    BY <1>7 DEF new
  <2> QED
    BY <2>3, <2>4, <2>5
<1>9. Typed'
  <2>1. depths' \in [Users -> Depths]
    <3>1. \A u \in drawn : Reached(u).depth \in Depths
      BY <1>6 DEF ExposureSet
    <3>2. depths \in [Users -> Depths]
      BY <1>2 DEF Typed
    <3> QED
      BY <1>3, <3>1, <3>2
  <2>2. exposed' \in SUBSET Users
    BY <1>2, <1>3, <1>5 DEF Typed
  <2> QED
    BY <1>1, <1>2, <1>7, <2>1, <2>2 DEF Typed
<1>10. Agree'
  <2>1. \A u \in Users : depths'[u] = IF u \in drawn THEN Reached(u).depth ELSE depths[u]
    BY <1>3
  <2>2. ASSUME NEW e \in Over("exposures") \cup events'.exposures PROVE e.depth = depths'[e.user]
    BY <1>2, <1>5, <1>6, <1>7, <2>1, OverType DEF Agree, Typed, EventSet, ExposureSet, UsersOf, Seen, Shared
  <2>3. \A u \in Users \ exposed' : depths'[u] = -1
    BY <1>2, <1>3, <2>1 DEF Agree
  <2>4. \A u \in exposed' : 0 <= depths'[u] /\ depths'[u] <= Reach'
    <3>1. ASSUME NEW u \in exposed PROVE 0 <= depths[u] /\ depths[u] <= step + 1
      BY <1>1, <1>2, <3>1, SimulationAssumption DEF Agree, Reach, Typed, Depths
    <3>2. exposed \subseteq Users
      BY <1>2 DEF Typed
    <3> QED
      BY <1>1, <1>3, <1>5, <1>6, <2>1, <3>1, <3>2 DEF Reach
  <2>5. \A u \in Users : u \in seeds => depths'[u] = 0
    BY <1>2, <1>5, <2>1 DEF Agree, Seen
  <2> QED
    BY <1>1, <1>2, <1>3, <1>4, <1>7, <1>8, <2>2, <2>3, <2>4, <2>5 DEF Agree
<1>11. Pending'
  <2>1. \A u \in engaged : depths'[u] = depths[u]
    BY <1>2, <1>3, <1>5 DEF Agree, Typed
  <2>2. ASSUME NEW e \in events'.exposures
        PROVE  e.user \in seeds \/ \E s \in engaged : e.user \in graph[s] /\ e.depth = depths[s] + 1
    BY <1>2, <1>6, <1>7 DEF Pending
  <2> QED
    BY <1>1, <1>2, <1>4, <1>7, <2>1, <2>2 DEF Pending
<1> QED
  BY <1>1, <1>9, <1>10, <1>11 DEF IInv

\* What a step leaves in its record.
Row == [exposed |-> Counts[1], engaged |-> Counts[2],
        newExposed |-> Counts[1] - Previous[1], newEngaged |-> Counts[2] - Previous[2],
        events |-> events]

\* It is a record, with numbers for what it counts.
LEMMA RowIsTyped == ASSUME Typed PROVE Row \in RecordSet
<1>1. Counts \in Int \X Int /\ before \in Int \X Int /\ events \in EventSet
  BY CountsAreNumbers DEF Typed
<1>2. Counts[1] \in Int /\ Counts[2] \in Int /\ before[1] \in Int /\ before[2] \in Int
  BY <1>1
<1> QED
  BY <1>1, <1>2 DEF Row, RecordSet, Previous

\* The record makes known what the step has done.
LEMMA RecordTells ==
  ASSUME IInv, Record
  PROVE  /\ records' \in Seq(RecordSet) /\ Len(records') = step + 1
         /\ Over("exposures")' = Over("exposures") \cup events.exposures
         /\ Over("actions")' = Over("actions") \cup events.actions
         /\ Seen' = Seen \cup UsersOf(events.exposures)
         /\ Acted' = Acted \cup UsersOf(events.actions)
<1>1. Typed /\ records' = Append(records, Row) /\ seeds' = seeds
  BY DEF IInv, Record, Goto, Row
<1>2. Row \in RecordSet
  BY <1>1, RowIsTyped
<1>3. Row.events = events
  BY DEF Row
<1>4. Over("exposures")' = Over("exposures") \cup events.exposures
  BY <1>1, <1>2, <1>3, OverAppend DEF Typed
<1>5. Over("actions")' = Over("actions") \cup events.actions
  BY <1>1, <1>2, <1>3, OverAppend DEF Typed
<1>6. records' \in Seq(RecordSet) /\ Len(records') = step + 1
  BY <1>1, <1>2 DEF Typed
<1>7. Seen' = Seen \cup UsersOf(events.exposures)
  BY <1>1, <1>4 DEF Seen, Shared, UsersOf
<1>8. Acted' = Acted \cup UsersOf(events.actions)
  BY <1>5 DEF Acted, Shared, UsersOf
<1> QED
  BY <1>4, <1>5, <1>6, <1>7, <1>8

\* Then nothing of the step is pending any more.
LEMMA RecordStep == ASSUME IInv, Record PROVE IInv'
<1>1. /\ pc = "record" /\ pc' = "begin" /\ step' = step + 1 /\ events' = NoEvents
      /\ UNCHANGED <<graph, seeds, turn, exposed, engaged, traces, depths, asking, settled, before>>
  BY DEF Record, Goto
<1>2. Typed /\ Agree /\ Pending /\ step < Horizon
  BY <1>1 DEF IInv, Pending
<1>3. events'.exposures = {} /\ events'.actions = {} /\ events' \in EventSet
  BY <1>1 DEF NoEvents, EventSet
<1>4. UsersOf(events'.exposures) = {} /\ UsersOf(events'.actions) = {}
  BY <1>3 DEF UsersOf
<1>5. Reach' = Reach
  BY <1>1 DEF Reach
<1>6. Typed'
  BY <1>1, <1>2, <1>3, RecordTells, SimulationAssumption DEF Typed
<1>7. Agree'
  BY <1>1, <1>2, <1>3, <1>4, <1>5, RecordTells DEF Agree
<1>8. Pending'
  BY <1>1, <1>2, <1>3, <1>4 DEF Pending
<1> QED
  BY <1>1, <1>6, <1>7, <1>8 DEF IInv

-----------------------------------------------------------------------------
\* The invariant is inductive.
LEMMA NextInvariant == IInv /\ [Next]_vars => IInv'
BY SeedStep, QuietStep, AgentStep, ExposureStep, RecordStep DEF Next

\* In every reachable state environment, agents and events agree.
THEOREM InvariantHolds == Spec => []IInv
BY InitInvariant, NextInvariant, PTL DEF Spec

-----------------------------------------------------------------------------
\* The depths that records tell, in an invariant state.
Known == [u \in Users |-> IF u \in Seen THEN depths[u] ELSE -1]

\* The invariant's part that they need.
Told ==
  /\ \A u \in seeds : u \in Users /\ depths[u] = 0
  /\ \A e \in Over("exposures") : e.depth = depths[e.user]

\* The depths DiffusionWaves is given are these.
LEMMA DepthsAreKnown == Told => [u \in Users |-> DepthIn(u)] = Known
<1> SUFFICES ASSUME Told, NEW u \in Users PROVE DepthIn(u) = Known[u]
  BY DEF Known
<1>1. CASE u \in seeds
  BY <1>1 DEF Told, DepthIn, Known, Seen
<1>2. CASE u \notin seeds /\ u \in Shared("exposures")
  <2>1. u \in UsersOf(Over("exposures")) /\ \A e \in Over("exposures") : e.depth = depths[e.user]
    BY <1>2 DEF Told, Shared, UsersOf
  <2>2. (CHOOSE e \in Over("exposures") : e.user = u).depth = depths[u]
    BY <2>1, DepthOfUser
  <2> QED
    BY <1>2, <2>2 DEF DepthIn, Known, Seen
<1>3. CASE u \notin seeds /\ u \notin Shared("exposures")
  BY <1>3 DEF DepthIn, Known, Seen
<1> QED
  BY <1>1, <1>2, <1>3

\* The invariant has them told, once the seeds are there.
LEMMA InvariantTells == IInv /\ pc # "seed" => Told
BY DEF IInv, Told, Agree, Typed

\* A run starts as a wave does: nobody has engaged, only the seeds have seen the post.
LEMMA WavesInit == Init => Waves!Init
<1> SUFFICES ASSUME Init PROVE Waves!Init
  OBVIOUS
<1>1. \A f : Over(f) = {}
  BY DEF Init, Over
<1>2. \A f : Shared(f) = {}
  BY <1>1 DEF Shared
<1>3. \A u \in Users : DepthIn(u) = IF u \in seeds THEN 0 ELSE -1
  BY <1>2 DEF DepthIn
<1>4. Len(records) = 0 /\ graph \in [Users -> SUBSET Users] /\ seeds \in SUBSET Users
  BY DEF Init, Networks
<1> QED
  BY <1>2, <1>3, <1>4 DEF Waves!Init

\* DepthIn, with what it reads as arguments.
DepthFrom(S, shown, E, u) ==
  IF u \in S THEN 0 ELSE IF u \in shown THEN (CHOOSE e \in E : e.user = u).depth ELSE -1

\* Only the record of a step is a wave.
LEMMA WavesStutter ==
  ASSUME UNCHANGED <<graph, seeds, records>>
  PROVE  UNCHANGED Waves!vars
<1>1. \A f : Over(f)' = Over(f)
  BY DEF Over
<1>2. \A f : Shared(f)' = Shared(f)
  BY <1>1 DEF Shared
<1>3. \A u : DepthIn(u)' = DepthIn(u)
  <2>1. Over("exposures")' = Over("exposures") /\ Shared("exposures")' = Shared("exposures")
    BY <1>1, <1>2
  <2>2. seeds' = seeds
    OBVIOUS
  <2>3. \A u : DepthIn(u) = DepthFrom(seeds, Shared("exposures"), Over("exposures"), u)
    BY DEF DepthIn, DepthFrom
  <2>4. \A u : DepthIn(u)' = DepthFrom(seeds', Shared("exposures")', Over("exposures")', u)
    BY DEF DepthIn, DepthFrom
  <2> QED
    BY <2>1, <2>2, <2>3, <2>4, Zenon
<1> QED
  BY <1>2, <1>3 DEF Waves!vars

\* It is one: whoever acted was exposed before, whoever is new has it from a neighbour
\* who has engaged, one hop further.
LEMMA WavesRecord == ASSUME IInv, Record PROVE Waves!Wave
<1>1. /\ pc = "record" /\ pc' = "begin" /\ step' = step + 1
      /\ UNCHANGED <<graph, seeds, exposed, engaged, depths>>
  BY DEF Record, Goto
<1>2. Typed /\ Agree /\ Pending /\ step < Horizon
  BY <1>1 DEF IInv, Pending
<1>3. Seen' = exposed /\ Acted' = engaged /\ Seen \subseteq exposed /\ Acted \subseteq engaged
  BY <1>2, RecordTells DEF Agree
<1>4. [u \in Users |-> DepthIn(u)] = Known
  BY <1>1, InvariantTells, DepthsAreKnown
<1>5. [u \in Users |-> DepthIn(u)]' = depths
  <2>1. Told'
    BY <1>1, RecordStep DEF IInv, Told, Agree, Typed
  <2>2. ASSUME NEW u \in Users PROVE DepthIn(u)' = depths[u]
    <3>1. CASE u \in seeds
      BY <1>1, <2>1, <3>1 DEF Told, DepthIn
    <3>2. CASE u \notin seeds /\ u \in Shared("exposures")'
      <4>1. /\ u \in UsersOf(Over("exposures")')
            /\ \A e \in Over("exposures")' : e.depth = depths'[e.user]
        BY <2>1, <3>2 DEF Told, Shared, UsersOf
      <4>2. (CHOOSE e \in Over("exposures")' : e.user = u).depth = depths'[u]
        BY <4>1, DepthOfUser
      <4> QED
        BY <1>1, <3>2, <4>2 DEF DepthIn
    <3>3. CASE u \notin seeds /\ u \notin Shared("exposures")'
      BY <1>1, <1>2, <1>3, <3>3 DEF DepthIn, Seen, Agree
    <3> QED
      BY <3>1, <3>2, <3>3
  <2> QED
    BY <1>2, <2>2 DEF Typed
<1>6. Len(records)' = Len(records) + 1 /\ Len(records) = step
  BY <1>2, RecordTells DEF Typed
<1>7. \E acting \in SUBSET (Seen \ Acted) : engaged = Acted \cup acting
  <2>1. engaged = Acted \cup UsersOf(events.actions) /\ engaged \subseteq Seen
        /\ UsersOf(events.actions) \cap Acted = {}
    BY <1>2 DEF Agree, Pending
  <2> QED
    BY <2>1
<1>8. ASSUME NEW u \in exposed \ Seen
      PROVE  \E s \in engaged : u \in graph[s] /\ depths[u] = Known[s] + 1
  <2>1. PICK e \in events.exposures : e.user = u
    BY <1>2, <1>8 DEF Agree, UsersOf
  <2>2. u \notin seeds /\ e.depth = depths[u]
    BY <1>2, <1>8, <2>1 DEF Agree, Seen
  <2>3. PICK s \in engaged : u \in graph[s] /\ e.depth = depths[s] + 1
    BY <1>2, <2>1, <2>2 DEF Pending
  <2>4. Known[s] = depths[s]
    BY <1>2, <2>3 DEF Known, Agree, Typed
  <2> QED
    BY <2>2, <2>3, <2>4
<1>9. \A u \in Users : u \in Seen \/ u \notin exposed => depths[u] = Known[u]
  BY <1>2 DEF Known, Agree
<1>10. Seen' = (seeds \cup Shared("exposures"))' /\ Acted' = Shared("actions")'
  BY DEF Seen, Acted
<1>11. depths \in [Users -> -1 .. Horizon]
  BY <1>2 DEF Typed, Depths
<1>12. exposed \subseteq Users
  BY <1>2 DEF Typed
<1> DEFINE d == [u \in Users |-> DepthIn(u)]
<1>13. /\ Len(records) < Horizon /\ Len(records)' = Len(records) + 1 /\ graph' = graph
       /\ \E acting \in SUBSET (Seen \ Acted) : Acted' = Acted \cup acting
       /\ Seen \subseteq Seen'
  BY <1>1, <1>2, <1>3, <1>6, <1>7
<1>14. /\ \A u \in Seen' \ Seen : \E s \in Acted' : u \in graph[s] /\ d'[u] = d[s] + 1
       /\ d' \in [Users -> -1 .. Horizon]
       /\ \A u \in Users : u \in Seen \/ u \notin Seen' => d'[u] = d[u]
  <2>1. d = Known /\ d' = depths
    BY <1>4, <1>5
  <2> HIDE DEF d, Known
  <2> QED
    BY <1>3, <1>8, <1>9, <1>11, <2>1
<1> QED
  BY <1>13, <1>14 DEF Waves!Wave, Seen, Acted

\* A post diffuses in waves: for every network, set of seeds and horizon, whatever the
\* agents decide one after the other, the records implement DiffusionWaves.
THEOREM DiffusesInWaves == Spec => GoesInWaves
<1>1. IInv /\ [Next]_vars => [Waves!Next]_(Waves!vars)
  <2> SUFFICES ASSUME IInv, [Next]_vars PROVE [Waves!Next]_(Waves!vars)
    OBVIOUS
  <2>1. CASE Record
    BY <2>1, WavesRecord DEF Waves!Next
  <2>2. CASE ~Record
    <3>1. UNCHANGED <<graph, seeds, records>>
      BY <2>2 DEF Next, vars, SeedExposure, BeginStep, PassOver, Ignore, Engage, Raise,
         UpdateExposure, Summarise
    <3> QED
      BY <3>1, WavesStutter
  <2> QED
    BY <2>1, <2>2
<1> QED
  BY <1>1, InvariantHolds, WavesInit, PTL DEF Spec, GoesInWaves, Waves!Spec

-----------------------------------------------------------------------------
\* What the summary rests on: each user is an event once, and the records add up.

Distinct(E) == \A e, f \in E : e.user = f.user => e = f

\* Who had seen the post, or acted, by the records before one.
SeenBy(i)  == {e.user : e \in UNION {records[j].events.exposures : j \in 1 .. i - 1}}
ActedBy(i) == {e.user : e \in UNION {records[j].events.actions : j \in 1 .. i - 1}}

RecordsTell ==
  \A i \in DOMAIN records :
    /\ records[i].events.decisions = (SeenBy(i) \cup seeds) \ ActedBy(i)
    /\ \A e \in records[i].events.exposures : e.depth <= i

\* Those who were exposed or engaged in the step are no part of its counts before.
Turns ==
  /\ pc # "record" /\ step > 0 => events.exposures = {}
  /\ pc = "begin" => events.actions = {} /\ events.decisions = {}
  /\ pc \in {"agents", "record"} => before = <<Cardinality(Seen), Cardinality(Acted)>>
  /\ pc = "agents" => /\ turn >= 1
                      /\ events.decisions = {u \in Seen \ Acted : u < turn}
                      /\ UsersOf(events.actions) \subseteq {u \in Users : u < turn}
  /\ pc = "record" => events.decisions = Seen \ Acted

Once ==
  /\ seeds \subseteq Shared("exposures") \cup UsersOf(events.exposures)
  /\ UsersOf(events.exposures) \cap Shared("exposures") = {}
  /\ Distinct(Over("exposures")) /\ Distinct(events.exposures)
  /\ Distinct(Over("actions")) /\ Distinct(events.actions)
  /\ \A e \in Over("exposures") \cup events.exposures : e.source \in {Nobody} \cup engaged

AddUp ==
  /\ Total("newExposed") = Cardinality(Seen) - Cardinality(seeds)
  /\ Total("newEngaged") = Cardinality(Acted)
  /\ step > 0 => /\ Last(records).exposed = Cardinality(Seen)
                 /\ Last(records).engaged = Cardinality(Acted)

Tally ==
  /\ pc \in {"begin", "agents", "record"} => Turns /\ Once /\ AddUp /\ RecordsTell
  /\ SummaryTellsEvents

-----------------------------------------------------------------------------
\* Events of distinct users are as many as their users.
LEMMA EachOnce ==
  ASSUME NEW E, Distinct(E), IsFiniteSet(UsersOf(E))
  PROVE  IsFiniteSet(E) /\ Cardinality(E) = Cardinality(UsersOf(E))
<1> DEFINE of == [u \in UsersOf(E) |-> CHOOSE e \in E : e.user = u]
<1>1. \A u \in UsersOf(E) : of[u] \in E /\ of[u].user = u
  BY DEF UsersOf
<1>2. \A e \in E : e.user \in UsersOf(E) /\ of[e.user] = e
  <2>1. ASSUME NEW e \in E PROVE e.user \in UsersOf(E) /\ of[e.user] = e
    <3>1. e.user \in UsersOf(E)
      BY DEF UsersOf
    <3>2. of[e.user] \in E /\ of[e.user].user = e.user
      BY <1>1, <3>1
    <3> QED
      BY <3>1, <3>2 DEF Distinct
  <2> QED
    BY <2>1
<1>3. of \in [UsersOf(E) -> E]
  BY <1>1
<1> HIDE DEF of
<1>4. \A u, v \in UsersOf(E) : of[u] = of[v] => u = v
  BY <1>1
<1>5. \A e \in E : \E u \in UsersOf(E) : of[u] = e
  BY <1>2
<1>6. of \in Bijection(UsersOf(E), E)
  BY <1>3, <1>4, <1>5 DEF Bijection, Injection, Surjection, IsInjective
<1> QED
  BY <1>6, FS_Bijection DEF ExistsBijection

\* Events whose users are apart can be put together.
LEMMA OnceTogether ==
  ASSUME NEW D, NEW E, Distinct(D), Distinct(E), UsersOf(D) \cap UsersOf(E) = {}
  PROVE  Distinct(D \cup E)
<1>1. \A e \in D : e.user \in UsersOf(D)
  BY DEF UsersOf
<1>2. \A e \in E : e.user \in UsersOf(E)
  BY DEF UsersOf
<1> QED
  BY <1>1, <1>2 DEF Distinct

\* The users of events put together.
LEMMA UsersTogether ==
  ASSUME NEW D, NEW E
  PROVE  UsersOf(D \cup E) = UsersOf(D) \cup UsersOf(E)
BY DEF UsersOf

\* Whoever was counted is some agent, so that all counts are numbers.
LEMMA CountsAreFinite ==
  ASSUME Typed, Agree
  PROVE  /\ IsFiniteSet(seeds) /\ IsFiniteSet(exposed) /\ IsFiniteSet(engaged)
         /\ IsFiniteSet(Seen) /\ IsFiniteSet(Acted)
         /\ Cardinality(seeds) \in Nat /\ Cardinality(exposed) \in Nat
         /\ Cardinality(engaged) \in Nat /\ Cardinality(Seen) \in Nat
         /\ Cardinality(Acted) \in Nat
         /\ Seen \subseteq Users /\ Acted \subseteq Users
<1>1. IsFiniteSet(Users)
  BY FS_Interval, SimulationAssumption DEF Users
<1>2. seeds \subseteq Users /\ exposed \subseteq Users /\ engaged \subseteq Users
  BY DEF Typed
<1>3. Seen \subseteq Users /\ Acted \subseteq Users
  BY <1>2 DEF Agree
<1>4. /\ IsFiniteSet(seeds) /\ IsFiniteSet(exposed) /\ IsFiniteSet(engaged)
      /\ IsFiniteSet(Seen) /\ IsFiniteSet(Acted)
  BY <1>1, <1>2, <1>3, FS_Subset
<1> QED
  BY <1>3, <1>4, FS_CardinalityType

\* Without a new record, what the records tell stays.
LEMMA RecordsStay ==
  ASSUME UNCHANGED <<records, seeds>>
  PROVE  /\ \A f : Over(f)' = Over(f)
         /\ \A f : Shared(f)' = Shared(f)
         /\ \A f : Total(f)' = Total(f)
         /\ Seen' = Seen /\ Acted' = Acted
         /\ Last(records)' = Last(records)
         /\ RecordsTell' = RecordsTell
<1>1. \A f : Over(f)' = Over(f)
  BY DEF Over
<1>2. \A f : Shared(f)' = Shared(f)
  BY <1>1 DEF Shared
<1>3. \A f : Total(f)' = Total(f)
  BY DEF Total
<1>4. Last(records)' = Last(records)
  BY DEF Last
<1>5. \A i : SeenBy(i)' = SeenBy(i) /\ ActedBy(i)' = ActedBy(i)
  BY DEF SeenBy, ActedBy
<1>6. RecordsTell' = RecordsTell
  BY <1>5 DEF RecordsTell
<1> QED
  BY <1>1, <1>2, <1>3, <1>4, <1>6 DEF Seen, Acted

\* Nor does AddUp change without one.
LEMMA AddUpStays ==
  ASSUME UNCHANGED <<records, seeds, step>>
  PROVE  AddUp' = AddUp
<1>1. /\ \A f : Total(f)' = Total(f)
      /\ Seen' = Seen /\ Acted' = Acted /\ Last(records)' = Last(records)
  BY RecordsStay
<1> QED
  BY <1>1 DEF AddUp

\* Between the turns only those who were seeds are exposed and not recorded.
LEMMA BetweenTurns ==
  ASSUME IInv, pc \in {"begin", "agents"}
  PROVE  /\ Typed /\ Agree /\ Pending
         /\ exposed = Seen /\ asking = Seen
         /\ settled = Acted \cup UsersOf(events.actions)
         /\ engaged = Acted \cup UsersOf(events.actions)
<1>1. Typed /\ Agree /\ Pending
  BY DEF IInv
<1> QED
  BY <1>1 DEF Agree, Pending, Seen

-----------------------------------------------------------------------------
\* Before the seeds have seen the post nothing is asked of the records.
LEMMA TallyInit == Init => Tally
BY DEF Init, Tally, SummaryTellsEvents, Goto

\* The seeds are events of the first step, each once.
LEMMA TallySeeds == ASSUME IInv, SeedExposure PROVE Tally'
<1>1. pc = "seed" /\ pc' = "begin" /\ Typed /\ Unseeded
  BY DEF IInv, SeedExposure, Goto
<1>2. step = 0 /\ records' = <<>> /\ seeds' = seeds /\ engaged' = {} /\ step' = 0
  BY <1>1 DEF SeedExposure, Unseeded, Typed
<1>3. /\ events'.exposures = {Exposure(u, Nobody, 0) : u \in seeds}
      /\ events'.actions = {} /\ events'.decisions = {}
  BY DEF SeedExposure, NoEvents
<1>4. \A f : Over(f)' = {}
  BY <1>2 DEF Over
<1>5. Seen' = seeds /\ Acted' = {} /\ Shared("exposures")' = {}
  BY <1>2, <1>4 DEF Seen, Acted, Shared
<1>6. \A u : Exposure(u, Nobody, 0).user = u /\ Exposure(u, Nobody, 0).source = Nobody
  BY DEF Exposure
<1>7. UsersOf(events'.exposures) = seeds
  BY <1>3, <1>6 DEF UsersOf
<1>8. Turns'
  BY <1>1, <1>2, <1>3 DEF Turns
<1>9. Once'
  <2>1. \A e \in events'.exposures : e = Exposure(e.user, Nobody, 0) /\ e.source = Nobody
    BY <1>3, <1>6
  <2> QED
    BY <1>2, <1>3, <1>4, <1>5, <1>7, <2>1 DEF Once, Distinct
<1>10. AddUp'
  <2>1. \A f : Total(f)' = 0
    BY <1>2, SumEmpty DEF Total
  <2>2. Cardinality(seeds) \in Nat
    <3>1. IsFiniteSet(Users)
      BY FS_Interval, SimulationAssumption DEF Users
    <3>2. seeds \in SUBSET Users
      BY <1>1 DEF Typed
    <3>3. IsFiniteSet(seeds)
      BY <3>1, <3>2, FS_Subset
    <3> QED
      BY <3>3, FS_CardinalityType
  <2> QED
    BY <1>2, <1>5, <2>1, <2>2, FS_EmptySet DEF AddUp
<1>11. RecordsTell'
  BY <1>2 DEF RecordsTell
<1>12. SummaryTellsEvents'
  BY <1>1 DEF SummaryTellsEvents, Goto
<1> QED
  BY <1>8, <1>9, <1>10, <1>11, <1>12 DEF Tally

\* A step begins with everybody to ask, and with the counts that the records made.
LEMMA TallyBegin == ASSUME IInv, Tally, BeginStep PROVE Tally'
<1>1. /\ pc = "begin" /\ pc' = "agents" /\ before' = Counts /\ turn' = 1
      /\ UNCHANGED <<seeds, step, exposed, engaged, events, records>>
  BY DEF BeginStep, Goto
<1>2. Turns /\ Once /\ AddUp /\ RecordsTell
  BY <1>1 DEF Tally
<1>3. /\ Typed /\ Agree /\ exposed = Seen /\ engaged = Acted \cup UsersOf(events.actions)
  BY <1>1, BetweenTurns
<1>4. events.actions = {} /\ events.decisions = {} /\ UsersOf(events.actions) = {}
  BY <1>1, <1>2 DEF Turns, UsersOf
<1>5. /\ \A f : Over(f)' = Over(f)
      /\ \A f : Shared(f)' = Shared(f)
      /\ Seen' = Seen /\ Acted' = Acted /\ RecordsTell' = RecordsTell
  BY <1>1, RecordsStay
<1>6. Turns'
  <2>1. {u \in Seen \ Acted : u < 1} = {}
    <3>1. Seen \subseteq Users
      BY <1>3, CountsAreFinite
    <3>2. \A u \in Users : ~(u < 1)
      BY SimulationAssumption DEF Users
    <3> QED
      BY <3>1, <3>2
  <2>2. before' = <<Cardinality(Seen), Cardinality(Acted)>>
    BY <1>1, <1>3, <1>4 DEF Counts
  <2>3. step > 0 => events.exposures = {}
    BY <1>1, <1>2 DEF Turns
  <2> QED
    BY <1>1, <1>4, <1>5, <2>1, <2>2, <2>3 DEF Turns
<1>7. Once'
  BY <1>1, <1>2, <1>5 DEF Once
<1>8. AddUp'
  BY <1>1, <1>2, AddUpStays
<1>9. SummaryTellsEvents'
  BY <1>1 DEF SummaryTellsEvents, Goto
<1> QED
  BY <1>2, <1>5, <1>6, <1>7, <1>8, <1>9 DEF Tally

\* Who is passed over has not seen the post, or has acted in an earlier step.
LEMMA TallyPass == ASSUME IInv, Tally, PassOver PROVE Tally'
<1>1. /\ pc = "agents" /\ pc' = "agents" /\ turn \in Users /\ ~Asked(turn) /\ turn' = turn + 1
      /\ UNCHANGED <<seeds, step, exposed, engaged, events, records, before>>
  BY DEF PassOver, Goto
<1>2. Turns /\ Once /\ AddUp /\ RecordsTell
  BY <1>1 DEF Tally
<1>3. /\ Typed /\ Agree /\ asking = Seen /\ settled = Acted \cup UsersOf(events.actions)
  BY <1>1, BetweenTurns
<1>4. /\ \A f : Over(f)' = Over(f)
      /\ \A f : Shared(f)' = Shared(f)
      /\ Seen' = Seen /\ Acted' = Acted /\ RecordsTell' = RecordsTell
  BY <1>1, RecordsStay
<1>5. /\ turn >= 1 /\ events.decisions = {u \in Seen \ Acted : u < turn}
      /\ UsersOf(events.actions) \subseteq {u \in Users : u < turn}
      /\ before = <<Cardinality(Seen), Cardinality(Acted)>>
      /\ step > 0 => events.exposures = {}
  BY <1>1, <1>2 DEF Turns
<1>6. turn \in Int /\ \A u \in Users : u \in Int /\ (u < turn + 1 <=> u < turn \/ u = turn)
  BY <1>1, SimulationAssumption DEF Users
<1>7. turn \notin Seen \ Acted
  <2>1. turn \notin UsersOf(events.actions)
    BY <1>5, <1>6
  <2> QED
    BY <1>1, <1>3, <2>1 DEF Asked
<1>8. Turns'
  <2>1. Seen \subseteq Users
    BY <1>3, CountsAreFinite
  <2>2. events.decisions = {u \in Seen \ Acted : u < turn + 1}
    BY <1>5, <1>6, <1>7, <2>1
  <2>3. UsersOf(events.actions) \subseteq {u \in Users : u < turn + 1}
    BY <1>5, <1>6
  <2>4. turn + 1 >= 1
    BY <1>5, <1>6
  <2> QED
    BY <1>1, <1>4, <1>5, <2>2, <2>3, <2>4 DEF Turns
<1>9. Once'
  BY <1>1, <1>2, <1>4 DEF Once
<1>10. AddUp'
  BY <1>1, <1>2, AddUpStays
<1>11. SummaryTellsEvents'
  BY <1>1 DEF SummaryTellsEvents, Goto
<1> QED
  BY <1>2, <1>4, <1>8, <1>9, <1>10, <1>11 DEF Tally

\* Who is asked decides, and acts once if at all.
LEMMA TallyAgent == ASSUME IInv, Tally, Ignore \/ \E a \in Actions : Engage(a) PROVE Tally'
<1>1. /\ pc = "agents" /\ pc' = "agents" /\ turn \in Users /\ Asked(turn) /\ turn' = turn + 1
      /\ UNCHANGED <<seeds, step, exposed, records, before>>
  BY DEF Ignore, Engage, Goto
<1>2. Turns /\ Once /\ AddUp /\ RecordsTell
  BY <1>1 DEF Tally
<1>3. /\ Typed /\ Agree /\ asking = Seen /\ settled = Acted \cup UsersOf(events.actions)
  BY <1>1, BetweenTurns
<1>4. /\ \A f : Over(f)' = Over(f)
      /\ \A f : Shared(f)' = Shared(f)
      /\ Seen' = Seen /\ Acted' = Acted /\ RecordsTell' = RecordsTell
  BY <1>1, RecordsStay
<1>5. /\ turn >= 1 /\ events.decisions = {u \in Seen \ Acted : u < turn}
      /\ UsersOf(events.actions) \subseteq {u \in Users : u < turn}
      /\ before = <<Cardinality(Seen), Cardinality(Acted)>>
      /\ step > 0 => events.exposures = {}
  BY <1>1, <1>2 DEF Turns
<1>6. turn \in Int /\ \A u \in Users : u \in Int /\ (u < turn + 1 <=> u < turn \/ u = turn)
  BY <1>1, SimulationAssumption DEF Users
<1>7. turn \in Seen \ Acted /\ turn \notin UsersOf(events.actions)
  BY <1>1, <1>3 DEF Asked
<1>8. \E acts : /\ events'.exposures = events.exposures
                /\ events'.decisions = events.decisions \cup {turn}
                /\ events'.actions = events.actions \cup acts
                /\ UsersOf(acts) \subseteq {turn} /\ Distinct(acts)
                /\ engaged \subseteq engaged'
  <2>0. events \in EventSet
    BY <1>3 DEF Typed
  <2>1. CASE Ignore
    <3>1. UsersOf({}) \subseteq {turn} /\ Distinct({})
      BY DEF UsersOf, Distinct
    <3>2. events' = [events EXCEPT !.decisions = @ \cup {turn}] /\ engaged' = engaged
      BY <2>1 DEF Ignore
    <3>3. /\ events'.exposures = events.exposures
          /\ events'.decisions = events.decisions \cup {turn}
          /\ events'.actions = events.actions \cup {}
      BY <2>0, <3>2 DEF EventSet
    <3> QED
      BY <3>1, <3>2, <3>3
  <2>2. ASSUME NEW a \in Actions, Engage(a)
        PROVE  \E acts : /\ events'.exposures = events.exposures
                         /\ events'.decisions = events.decisions \cup {turn}
                         /\ events'.actions = events.actions \cup acts
                         /\ UsersOf(acts) \subseteq {turn} /\ Distinct(acts)
                         /\ engaged \subseteq engaged'
    <3> DEFINE act == [user |-> turn, action |-> a, depth |-> depths[turn]]
    <3>1. UsersOf({act}) \subseteq {turn} /\ Distinct({act})
      BY DEF UsersOf, Distinct
    <3>2. /\ events' = [events EXCEPT !.decisions = @ \cup {turn}, !.actions = @ \cup {act}]
          /\ engaged \subseteq engaged'
      BY <2>2 DEF Engage
    <3>3. /\ events'.exposures = events.exposures
          /\ events'.decisions = events.decisions \cup {turn}
          /\ events'.actions = events.actions \cup {act}
      BY <2>0, <3>2 DEF EventSet
    <3> HIDE DEF act
    <3> QED
      BY <3>1, <3>2, <3>3
  <2> QED
    BY <2>1, <2>2
<1>9. PICK acts : /\ events'.exposures = events.exposures
                  /\ events'.decisions = events.decisions \cup {turn}
                  /\ events'.actions = events.actions \cup acts
                  /\ UsersOf(acts) \subseteq {turn} /\ Distinct(acts)
                  /\ engaged \subseteq engaged'
  BY <1>8
<1>10. Turns'
  <2>1. Seen \subseteq Users
    BY <1>3, CountsAreFinite
  <2>2. events'.decisions = {u \in Seen \ Acted : u < turn + 1}
    BY <1>5, <1>6, <1>7, <1>9, <2>1
  <2>3. UsersOf(events'.actions) = UsersOf(events.actions) \cup UsersOf(acts)
    BY <1>9, UsersTogether
  <2>4. UsersOf(events'.actions) \subseteq {u \in Users : u < turn + 1}
    BY <1>1, <1>5, <1>6, <1>9, <2>3
  <2>5. turn + 1 >= 1
    BY <1>5, <1>6
  <2> QED
    BY <1>1, <1>4, <1>5, <1>9, <2>2, <2>4, <2>5 DEF Turns
<1>11. Once'
  <2>1. Distinct(events'.actions)
    <3>1. UsersOf(events.actions) \cap UsersOf(acts) = {}
      BY <1>7, <1>9
    <3>2. Distinct(events.actions)
      BY <1>2 DEF Once
    <3>3. Distinct(events.actions \cup acts)
      BY <1>9, <3>1, <3>2, OnceTogether
    <3> QED
      BY <1>9, <3>3
  <2> QED
    BY <1>1, <1>2, <1>4, <1>9, <2>1 DEF Once
<1>12. AddUp'
  BY <1>1, <1>2, AddUpStays
<1>13. SummaryTellsEvents'
  BY <1>1 DEF SummaryTellsEvents, Goto
<1> QED
  BY <1>2, <1>4, <1>10, <1>11, <1>12, <1>13 DEF Tally

\* Who is reached is an event of its own, and has it from someone engaged.
LEMMA ReachedFrom ==
  ASSUME Typed, Agree, NEW u \in Candidates
  PROVE  Reached(u).user = u /\ Reached(u).source \in engaged
<1>1. Shown(u) # {} /\ Shown(u) \subseteq engaged
  BY DEF Candidates, Shown, Sources, Agree
<1>2. engaged \subseteq Users /\ Users \subseteq Nat
  BY SimulationAssumption DEF Typed, Users
<1>3. Shown(u) \subseteq Nat
  BY <1>1, <1>2
<1>4. Min(Shown(u)) \in Shown(u)
  BY <1>1, <1>3, MinIsMember
<1> QED
  BY <1>1, <1>4 DEF Reached, Exposure

\* The post reaches only who had not seen it, each once.
LEMMA TallyExposure == ASSUME IInv, Tally, UpdateExposure PROVE Tally'
<1>1. /\ pc = "agents" /\ pc' = "record" /\ turn \notin Users
      /\ UNCHANGED <<seeds, step, engaged, records, before>>
  BY DEF UpdateExposure, Goto
<1>2. Turns /\ Once /\ AddUp /\ RecordsTell
  BY <1>1 DEF Tally
<1>3. Typed /\ Agree /\ exposed = Seen
  BY <1>1, BetweenTurns
<1>4. /\ \A f : Over(f)' = Over(f)
      /\ \A f : Shared(f)' = Shared(f)
      /\ Seen' = Seen /\ Acted' = Acted /\ RecordsTell' = RecordsTell
  BY <1>1, RecordsStay
<1>5. PICK drawn \in SUBSET Candidates :
        events' = [events EXCEPT !.exposures = @ \cup {Reached(u) : u \in drawn}]
  BY DEF UpdateExposure
<1> DEFINE new == {Reached(u) : u \in drawn}
<1>6. /\ events'.exposures = events.exposures \cup new
      /\ events'.actions = events.actions /\ events'.decisions = events.decisions
  <2>1. events \in EventSet
    BY <1>3 DEF Typed
  <2> HIDE DEF new
  <2>2. events' = [events EXCEPT !.exposures = @ \cup new]
    BY <1>5 DEF new
  <2> QED
    BY <2>1, <2>2 DEF EventSet
<1>7. ASSUME NEW e \in new
      PROVE  e.user \in drawn /\ e = Reached(e.user) /\ e.source \in engaged
  <2>1. PICK u \in drawn : e = Reached(u)
    OBVIOUS
  <2>2. Reached(u).user = u /\ Reached(u).source \in engaged
    BY <1>3, ReachedFrom
  <2> QED
    BY <2>1, <2>2
<1> HIDE DEF new
<1>8. Distinct(new) /\ UsersOf(new) \subseteq drawn
  BY <1>7 DEF Distinct, UsersOf
<1>9. drawn \cap exposed = {}
  BY DEF Candidates
<1>10. UsersOf(events'.exposures) = UsersOf(events.exposures) \cup UsersOf(new)
  BY <1>6, UsersTogether
<1>11. UsersOf(events.exposures) \subseteq exposed /\ Shared("exposures") \subseteq exposed
  BY <1>3 DEF Agree, Seen
<1>12. Turns'
  <2>1. /\ turn >= 1 /\ turn \in Nat
        /\ events.decisions = {u \in Seen \ Acted : u < turn}
        /\ before = <<Cardinality(Seen), Cardinality(Acted)>>
    BY <1>1, <1>2, <1>3 DEF Turns, Typed
  <2>2. \A u \in Users : u < turn
    BY <1>1, <2>1, SimulationAssumption DEF Users
  <2>3. Seen \subseteq Users
    BY <1>3, CountsAreFinite
  <2>4. events.decisions = Seen \ Acted
    BY <2>1, <2>2, <2>3
  <2> QED
    BY <1>1, <1>4, <1>6, <2>1, <2>4 DEF Turns
<1>13. Once'
  <2>1. Distinct(events'.exposures)
    <3>1. UsersOf(events.exposures) \cap UsersOf(new) = {}
      BY <1>8, <1>9, <1>11
    <3>2. Distinct(events.exposures)
      BY <1>2 DEF Once
    <3>3. Distinct(events.exposures \cup new)
      BY <1>8, <3>1, <3>2, OnceTogether
    <3> QED
      BY <1>6, <3>3
  <2>2. seeds \subseteq Shared("exposures")' \cup UsersOf(events'.exposures)
    BY <1>2, <1>4, <1>10 DEF Once
  <2>3. UsersOf(events'.exposures) \cap Shared("exposures")' = {}
    BY <1>2, <1>4, <1>8, <1>9, <1>10, <1>11 DEF Once
  <2>4. \A e \in Over("exposures")' \cup events'.exposures : e.source \in {Nobody} \cup engaged'
    BY <1>1, <1>2, <1>4, <1>6, <1>7 DEF Once
  <2> QED
    BY <1>1, <1>2, <1>4, <1>6, <2>1, <2>2, <2>3, <2>4 DEF Once
<1>14. AddUp'
  BY <1>1, <1>2, AddUpStays
<1>15. SummaryTellsEvents'
  BY <1>1 DEF SummaryTellsEvents, Goto
<1> QED
  BY <1>2, <1>4, <1>12, <1>13, <1>14, <1>15 DEF Tally

\* A total grows by what the new record has.
LEMMA TotalAppend ==
  ASSUME NEW f \in {"newExposed", "newEngaged"}, NEW r \in RecordSet,
         records \in Seq(RecordSet), records' = Append(records, r)
  PROVE  Total(f)' = Total(f) + r[f] /\ Total(f) \in Int
<1> DEFINE n == Len(records)
           S == 1 .. n
           old == [i \in DOMAIN records |-> records[i][f]]
           new == [i \in DOMAIN records' |-> records'[i][f]]
<1>1. n \in Nat /\ DOMAIN records = S /\ DOMAIN records' = S \cup {n + 1} /\ n + 1 \notin S
  OBVIOUS
<1>2. IsFiniteSet(S)
  BY <1>1, FS_Interval
<1>3. \A x \in RecordSet : x[f] \in Int
  BY DEF RecordSet
<1>4. /\ \A i \in S : records[i] \in RecordSet /\ records'[i] = records[i]
      /\ records'[n + 1] = r
  OBVIOUS
<1>5. /\ \A i \in S : old[i] \in Int /\ new[i] = old[i]
      /\ new[n + 1] = r[f] /\ r[f] \in Int
  BY <1>1, <1>3, <1>4
<1>6. Total(f) = Sum(old, S) /\ Total(f)' = Sum(new, S \cup {n + 1})
  BY <1>1 DEF Total
<1> HIDE DEF n, S, old, new
<1>7. Sum(new, S \cup {n + 1}) = Sum(new, S) + new[n + 1]
  BY <1>1, <1>2, <1>5, SumAdd
<1>8. Sum(new, S) = Sum(old, S)
  BY <1>2, <1>5, SumSame
<1>9. Sum(old, S) \in Int
  BY <1>2, <1>5, SumRemove
<1> QED
  BY <1>5, <1>6, <1>7, <1>8, <1>9

\* What was shown or done before a record stays so when there is another.
LEMMA BeforeAppend ==
  ASSUME NEW r \in RecordSet, records \in Seq(RecordSet), records' = Append(records, r),
         NEW n, n = Len(records) + 1
  PROVE  /\ \A i \in DOMAIN records : SeenBy(i)' = SeenBy(i) /\ ActedBy(i)' = ActedBy(i)
         /\ SeenBy(n)' = Shared("exposures") /\ ActedBy(n)' = Shared("actions")
<1>1. \A i \in DOMAIN records : records'[i] = records[i]
  OBVIOUS
<1>2. \A i \in DOMAIN records : \A j \in 1 .. i - 1 : records'[j] = records[j]
  OBVIOUS
<1>3. \A i \in DOMAIN records : SeenBy(i)' = SeenBy(i) /\ ActedBy(i)' = ActedBy(i)
  BY <1>2 DEF SeenBy, ActedBy
<1>4. 1 .. n - 1 = DOMAIN records
  OBVIOUS
<1>5. /\ UNION {records'[j].events.exposures : j \in 1 .. n - 1} = Over("exposures")
      /\ UNION {records'[j].events.actions : j \in 1 .. n - 1} = Over("actions")
  BY <1>1, <1>4 DEF Over
<1>6. SeenBy(n)' = Shared("exposures") /\ ActedBy(n)' = Shared("actions")
  BY <1>5 DEF SeenBy, ActedBy, Shared
<1> QED
  BY <1>3, <1>6

\* The record counts what its events tell.
LEMMA TallyRecord == ASSUME IInv, Tally, Record PROVE Tally'
<1>1. /\ pc = "record" /\ pc' = "begin" /\ step' = step + 1 /\ events' = NoEvents
      /\ records' = Append(records, Row)
      /\ UNCHANGED <<seeds, exposed, engaged, depths>>
  BY DEF Record, Goto, Row
<1>2. Turns /\ Once /\ AddUp /\ RecordsTell
  BY <1>1 DEF Tally
<1>3. Typed /\ Agree /\ Pending
  BY <1>1 DEF IInv
<1>4. Row \in RecordSet
  BY <1>3, RowIsTyped
<1>5. records \in Seq(RecordSet) /\ Len(records) = step /\ step \in Nat
  BY <1>3, SimulationAssumption DEF Typed
<1>6. /\ Over("exposures")' = Over("exposures") \cup events.exposures
      /\ Over("actions")' = Over("actions") \cup events.actions
      /\ Seen' = Seen \cup UsersOf(events.exposures)
      /\ Acted' = Acted \cup UsersOf(events.actions)
  BY RecordTells
<1>7. Seen' = exposed /\ Acted' = engaged
  BY <1>3, <1>6 DEF Agree
<1>8. \A f : Shared(f) = UsersOf(Over(f))
  BY DEF Shared, UsersOf
<1>9. \A f : Shared(f)' = UsersOf(Over(f)')
  BY DEF Shared, UsersOf
<1>10. Turns'
  BY <1>1 DEF Turns, NoEvents
<1>11. Once'
  <2>1. events'.exposures = {} /\ events'.actions = {} /\ UsersOf({}) = {} /\ Distinct({})
    BY <1>1 DEF NoEvents, UsersOf, Distinct
  <2>2. Distinct(Over("exposures")')
    BY <1>2, <1>6, <1>8, OnceTogether DEF Once
  <2>3. Distinct(Over("actions")')
    <3>1. UsersOf(Over("actions")) \cap UsersOf(events.actions) = {}
      BY <1>3, <1>8 DEF Pending, Acted
    <3> QED
      BY <1>2, <1>6, <3>1, OnceTogether DEF Once
  <2>4. seeds' \subseteq Shared("exposures")'
    BY <1>1, <1>2, <1>6, <1>8, <1>9, UsersTogether DEF Once
  <2>5. \A e \in Over("exposures")' : e.source \in {Nobody} \cup engaged'
    BY <1>1, <1>2, <1>6 DEF Once
  <2> QED
    BY <2>1, <2>2, <2>3, <2>4, <2>5 DEF Once
<1>12. AddUp'
  <2>1. before = <<Cardinality(Seen), Cardinality(Acted)>>
    BY <1>1, <1>2 DEF Turns
  <2>2. /\ Row.newExposed = Cardinality(exposed) - Cardinality(Seen)
        /\ Row.newEngaged = Cardinality(engaged) - Cardinality(Acted)
        /\ Row.exposed = Cardinality(exposed) /\ Row.engaged = Cardinality(engaged)
    BY <2>1 DEF Row, Counts, Previous
  <2>3. /\ Total("newExposed")' = Total("newExposed") + Row.newExposed
        /\ Total("newEngaged")' = Total("newEngaged") + Row.newEngaged
    BY <1>1, <1>4, <1>5, TotalAppend
  <2>4. Total("newExposed") = Cardinality(Seen) - Cardinality(seeds)
        /\ Total("newEngaged") = Cardinality(Acted)
    BY <1>2 DEF AddUp
  <2>5. /\ Cardinality(seeds) \in Nat /\ Cardinality(exposed) \in Nat
        /\ Cardinality(engaged) \in Nat /\ Cardinality(Seen) \in Nat /\ Cardinality(Acted) \in Nat
    BY <1>3, CountsAreFinite
  <2>6. /\ Total("newExposed")' = Cardinality(exposed) - Cardinality(seeds)
        /\ Total("newEngaged")' = Cardinality(engaged)
    BY <2>2, <2>3, <2>4, <2>5
  <2>7. Last(records') = Row
    BY <1>1, <1>5 DEF Last
  <2> QED
    BY <1>1, <1>7, <2>2, <2>6, <2>7 DEF AddUp
<1>13. RecordsTell'
  <2> DEFINE n == step + 1
  <2>1. /\ DOMAIN records' = DOMAIN records \cup {n} /\ n = Len(records) + 1
        /\ records'[n] = Row /\ \A i \in DOMAIN records : records'[i] = records[i]
    BY <1>1, <1>5
  <2>2. /\ \A i \in DOMAIN records : SeenBy(i)' = SeenBy(i) /\ ActedBy(i)' = ActedBy(i)
        /\ \A m : m = n => SeenBy(m)' = Shared("exposures") /\ ActedBy(m)' = Shared("actions")
    BY <1>1, <1>4, <1>5, <2>1, BeforeAppend
  <2> HIDE DEF n
  <2>3. ASSUME NEW i \in DOMAIN records
        PROVE  /\ records'[i].events.decisions = (SeenBy(i)' \cup seeds) \ ActedBy(i)'
               /\ \A e \in records'[i].events.exposures : e.depth <= i
    BY <1>2, <2>1, <2>2 DEF RecordsTell
  <2>4. Row.events = events
    BY DEF Row
  <2>5. events.decisions = (Shared("exposures") \cup seeds) \ Shared("actions")
    BY <1>1, <1>2 DEF Turns, Seen, Acted
  <2>6. ASSUME NEW e \in events.exposures PROVE e.depth <= n
    <3>1. e.user \in exposed /\ e.depth = depths[e.user]
      BY <1>3 DEF Agree, UsersOf
    <3> QED
      BY <1>1, <1>3, <3>1 DEF Agree, Reach, n
  <2>7. ASSUME NEW i, i = n
        PROVE  /\ records'[i].events.decisions = (SeenBy(i)' \cup seeds) \ ActedBy(i)'
               /\ \A e \in records'[i].events.exposures : e.depth <= i
    BY <2>1, <2>2, <2>4, <2>5, <2>6, <2>7
  <2> QED
    BY <1>1, <2>1, <2>3, <2>7 DEF RecordsTell
<1>14. SummaryTellsEvents'
  BY <1>1 DEF SummaryTellsEvents, Goto
<1> QED
  BY <1>10, <1>11, <1>12, <1>13, <1>14 DEF Tally

\* Each action that was taken is one of three.
LEMMA ActionsByKind ==
  ASSUME Typed, IsFiniteSet(Over("actions"))
  PROVE  Cardinality(Over("actions")) = Cardinality(Did("like")) + Cardinality(Did("comment"))
                                          + Cardinality(Did("share"))
<1>1. \A e \in Over("actions") : e.action \in Actions
  <2>1. Over("actions") \subseteq ActionSet
    BY OverType DEF Typed
  <2> QED
    BY <2>1 DEF ActionSet
<1>2. /\ Over("actions") = (Did("like") \cup Did("comment")) \cup Did("share")
      /\ Did("like") \cap Did("comment") = {}
      /\ (Did("like") \cup Did("comment")) \cap Did("share") = {}
  BY <1>1 DEF Did, Actions
<1>3. IsFiniteSet(Did("like")) /\ IsFiniteSet(Did("comment")) /\ IsFiniteSet(Did("share"))
  <2>1. /\ Did("like") \in SUBSET Over("actions") /\ Did("comment") \in SUBSET Over("actions")
        /\ Did("share") \in SUBSET Over("actions")
    BY DEF Did
  <2> QED
    BY <2>1, FS_Subset
<1>4. /\ IsFiniteSet(Did("like") \cup Did("comment"))
      /\ Cardinality(Did("like") \cup Did("comment"))
           = Cardinality(Did("like")) + Cardinality(Did("comment")) - Cardinality({})
  BY <1>2, <1>3, FS_Union
<1>5. Cardinality((Did("like") \cup Did("comment")) \cup Did("share"))
        = Cardinality(Did("like") \cup Did("comment")) + Cardinality(Did("share")) - Cardinality({})
  BY <1>2, <1>3, <1>4, FS_Union
<1>6. /\ Cardinality(Did("like")) \in Nat /\ Cardinality(Did("comment")) \in Nat
      /\ Cardinality(Did("share")) \in Nat
  BY <1>3, FS_CardinalityType
<1>7. Cardinality({}) = 0
  BY FS_EmptySet
<1>8. Cardinality(Over("actions")) = Cardinality(Did("like") \cup Did("comment"))
                                        + Cardinality(Did("share")) - Cardinality({})
  BY <1>2, <1>5, Zenon
<1> QED
  BY <1>4, <1>6, <1>7, <1>8

\* The summary of a run that ended tells its events.
LEMMA TallySummary == ASSUME IInv, Tally, Summarise PROVE Tally'
<1>1. /\ pc = "begin" /\ step = Horizon /\ pc' = "done"
      /\ UNCHANGED <<seeds, exposed, engaged, records>>
      /\ result' = [exposed |-> Last(records).exposed, engaged |-> Last(records).engaged,
                    spread |-> Total("newExposed"), converted |-> Total("newEngaged"),
                    depth |-> Deepest,
                    likes |-> Cardinality(Did("like")), comments |-> Cardinality(Did("comment")),
                    shares |-> Cardinality(Did("share")),
                    influencers |-> {e.source : e \in Over("exposures")} \ {Nobody}]
  BY DEF Summarise, Goto
<1>2. Turns /\ Once /\ AddUp /\ RecordsTell
  BY <1>1 DEF Tally
<1>3. /\ Typed /\ Agree /\ exposed = Seen /\ engaged = Acted \cup UsersOf(events.actions)
  BY <1>1, BetweenTurns
<1>4. /\ result'.exposed = Last(records).exposed /\ result'.engaged = Last(records).engaged
      /\ result'.spread = Total("newExposed") /\ result'.converted = Total("newEngaged")
      /\ result'.likes = Cardinality(Did("like")) /\ result'.comments = Cardinality(Did("comment"))
      /\ result'.shares = Cardinality(Did("share"))
      /\ result'.influencers = {e.source : e \in Over("exposures")} \ {Nobody}
  BY <1>1
<1>5. /\ \A f : Over(f)' = Over(f)
      /\ RecordsTell' = RecordsTell
  BY <1>1, RecordsStay
<1>6. step > 0
  BY <1>1, SimulationAssumption
<1>7. events.exposures = {} /\ events.actions = {} /\ UsersOf({}) = {}
  BY <1>1, <1>2, <1>6 DEF Turns, UsersOf
<1>8. Seen = Shared("exposures") /\ exposed = Shared("exposures") /\ engaged = Shared("actions")
      /\ Acted = engaged
  BY <1>2, <1>3, <1>7 DEF Once, Seen, Acted
<1>9. /\ Last(records).exposed = Cardinality(exposed) /\ Last(records).engaged = Cardinality(engaged)
      /\ Total("newExposed") = Cardinality(exposed) - Cardinality(seeds)
      /\ Total("newEngaged") = Cardinality(engaged)
  BY <1>2, <1>3, <1>6, <1>8 DEF AddUp
<1>10. Cardinality(Over("exposures")) = Cardinality(exposed)
  <2>1. UsersOf(Over("exposures")) = exposed
    BY <1>8 DEF Shared, UsersOf
  <2>2. Distinct(Over("exposures")) /\ IsFiniteSet(exposed)
    BY <1>2, <1>3, CountsAreFinite DEF Once
  <2> QED
    BY <2>1, <2>2, EachOnce
<1>11. IsFiniteSet(Over("actions")) /\ Cardinality(Over("actions")) = Cardinality(engaged)
  <2>1. UsersOf(Over("actions")) = engaged
    BY <1>8 DEF Shared, UsersOf
  <2>2. Distinct(Over("actions")) /\ IsFiniteSet(engaged)
    BY <1>2, <1>3, CountsAreFinite DEF Once
  <2> QED
    BY <2>1, <2>2, EachOnce
<1>12. Cardinality(engaged) = Cardinality(Did("like")) + Cardinality(Did("comment"))
                                + Cardinality(Did("share"))
  BY <1>3, <1>11, ActionsByKind
<1>13. result'.influencers \subseteq engaged
  BY <1>2, <1>4 DEF Once
<1>14. \A i \in DOMAIN records' :
         /\ records'[i].events.decisions = (SeenBy(i)' \cup seeds') \ ActedBy(i)'
         /\ \A e \in records'[i].events.exposures : e.depth <= i
  BY <1>2, <1>5 DEF RecordsTell
<1>15. SummaryTellsEvents'
  BY <1>1, <1>4, <1>5, <1>9, <1>10, <1>12, <1>13, <1>14 DEF SummaryTellsEvents, SeenBy, ActedBy
<1> QED
  BY <1>1, <1>15 DEF Tally

\* Nothing is told anew by a step that leaves everything as it is, or by one that ends the
\* run without a summary.
LEMMA TallyStutter == ASSUME Tally, UNCHANGED vars PROVE Tally'
<1>1. /\ UNCHANGED <<records, seeds, step, pc, turn, before, events, exposed, engaged, result>>
  BY DEF vars
<1>2. /\ \A f : Over(f)' = Over(f)
      /\ \A f : Shared(f)' = Shared(f)
      /\ Seen' = Seen /\ Acted' = Acted /\ RecordsTell' = RecordsTell
  BY <1>1, RecordsStay
<1>3. AddUp' = AddUp
  BY <1>1, AddUpStays
<1>4. Turns' = Turns
  BY <1>1, <1>2 DEF Turns
<1>5. Once' = Once
  BY <1>1, <1>2 DEF Once
<1>6. SummaryTellsEvents' = SummaryTellsEvents
  <2>1. \A i : SeenBy(i)' = SeenBy(i) /\ ActedBy(i)' = ActedBy(i)
    BY <1>1 DEF SeenBy, ActedBy
  <2> QED
    BY <1>1, <1>2, <2>1 DEF SummaryTellsEvents, SeenBy, ActedBy, Goto
<1> QED
  BY <1>1, <1>2, <1>3, <1>4, <1>5, <1>6 DEF Tally

\* A run that was ended has no summary.
LEMMA TallyRaise == ASSUME Raise PROVE Tally'
BY DEF Raise, Tally, SummaryTellsEvents, Goto

-----------------------------------------------------------------------------
\* With the invariant of the waves this one is inductive.
LEMMA NextTally == IInv /\ Tally /\ [Next]_vars => Tally'
BY TallySeeds, TallyBegin, TallyPass, TallyAgent, TallyExposure, TallyRecord, TallySummary,
   TallyStutter, TallyRaise DEF Next

\* In every reachable state the records tell the turns and add up to the network.
THEOREM TallyHolds == Spec => []Tally
BY InvariantHolds, TallyInit, NextTally, PTL DEF Spec

\* The summary of a run tells what its events say and what the network is in the end: for
\* every network, population, horizon and set of seeds, whatever the agents decide.
THEOREM SummaryIsTrue == Spec => []SummaryTellsEvents
<1>1. Tally => SummaryTellsEvents
  BY DEF Tally
<1> QED
  BY <1>1, TallyHolds, PTL

-----------------------------------------------------------------------------
\* The subscription client.

Ids    == 1 .. Len(sent)
Lines  == [id : Nat, says : Responses \cup {"ready", "noise"}]
Stages == {"idle", "ask", "ensure", "hello", "send", "read"}

AdapterTyped ==
  /\ clientPc \in Stages /\ decision \in 0 .. DecisionCount /\ attempt \in 0 .. MaxRetries
  /\ outcome \in [Decisions -> {"none", "answered", "failed", "unknown", "interrupted"}]
  /\ answer \in [Decisions -> Nat] /\ invocations \in [Decisions -> Nat]
  /\ (decision = 0 => clientPc = "idle")

SentTyped ==
  /\ sent \in Seq({Status} \cup Decisions) /\ sent # <<>>
  /\ total \in Nat \cup {Null} /\ read \in SUBSET Ids /\ calls \in SUBSET Ids

PipesTyped ==
  /\ inbox \in Seq(Nat) /\ outbox \in Seq(Lines) /\ busy \in Nat
  /\ \A j \in DOMAIN inbox : inbox[j] \in Ids
  /\ (busy # NoId => busy \in Ids)
  /\ begun \in {"no", "pipe", "taken"}

ClientTyped == AdapterTyped /\ SentTyped /\ PipesTyped

\* The commands sent for a decision, and what the worker has still to answer.
SentFor(d) == {i \in Ids : sent[i] = d}
Awaited    == {inbox[j] : j \in DOMAIN inbox} \cup ({busy} \ {NoId})

\* An attempt that will send its command has been counted.
ToBeSent(d) == IF d = decision /\ clientPc \in {"ensure", "hello", "send"} THEN 1 ELSE 0

\* What is in the pipes: nothing twice, nothing that was answered, nothing that
\* looks like the answer to a call which was never made.
PipesInOrder ==
  /\ \A j, k \in DOMAIN inbox : inbox[j] = inbox[k] => j = k
  /\ \A j \in DOMAIN inbox : inbox[j] # busy
  /\ Awaited \cap read = {}
  /\ \A j \in DOMAIN outbox :
       /\ outbox[j].id \notin Awaited
       /\ outbox[j].id <= Len(sent)
       /\ outbox[j].says \in {"decision", "unpriced", "unparsed", "crossed"} =>
            outbox[j].id \in calls
  /\ \A i \in calls : sent[i] \in Decisions
  /\ busy # NoId => busy \in calls

\* What became of the commands of each decision.
CommandsTracked ==
  /\ \A d \in Decisions :
       /\ Cardinality(SentFor(d)) + ToBeSent(d) <= invocations[d]
       /\ invocations[d] <= MaxRetries + 1
       /\ d > decision => invocations[d] = 0 /\ SentFor(d) = {}
       /\ (d = decision /\ clientPc # "idle") => outcome[d] = "none"
       /\ d > decision => outcome[d] = "none"
       /\ outcome[d] = "answered" => answer[d] \in CallsOf(d)
       /\ outcome[d] \in {"answered", "failed"} => SentFor(d) \subseteq read
       /\ \E i \in Nat : SentFor(d) \ read \subseteq {i}
  /\ clientPc # "idle" => invocations[decision] <= attempt + (IF clientPc = "ask" THEN 0 ELSE 1)
  /\ clientPc \in {"ask", "ensure", "hello", "send"} => SentFor(decision) \subseteq read
  /\ clientPc = "read" => /\ sent[Len(sent)] = decision /\ Len(sent) \notin read
                          /\ SentFor(decision) \subseteq read \cup {Len(sent)}

\* The total covers what was read of the calls; what was not was interrupted.
TotalCovers ==
  total # Null =>
    /\ total = Cardinality(calls \cap read)
    /\ \A i \in Ids \ read :
         sent[i] \in Decisions => outcome[sent[i]] = "interrupted" \/ (clientPc = "read" /\ i = Len(sent))

ClientInv == ClientTyped /\ PipesInOrder /\ CommandsTracked /\ TotalCovers

-----------------------------------------------------------------------------
\* A command is written behind the ones before it.
LEMMA SentAppend ==
  ASSUME ClientTyped, NEW x \in {Status} \cup Decisions, sent' = Append(sent, x)
  PROVE  /\ sent' \in Seq({Status} \cup Decisions) /\ sent' # <<>> /\ sent' # <<>> /\ Len(sent') = Len(sent) + 1
         /\ sent'[Len(sent) + 1] = x /\ \A i \in Ids : sent'[i] = sent[i]
         /\ Ids' = Ids \cup {Len(sent) + 1} /\ Len(sent) + 1 \notin Ids /\ Len(sent) \in Nat
         /\ \A d \in Decisions :
              SentFor(d)' = SentFor(d) \cup (IF x = d THEN {Len(sent) + 1} ELSE {})
<1>1. sent \in Seq({Status} \cup Decisions)
  BY DEF ClientTyped, SentTyped
<1>2. /\ sent' \in Seq({Status} \cup Decisions) /\ sent' # <<>> /\ Len(sent') = Len(sent) + 1
      /\ sent'[Len(sent) + 1] = x /\ \A i \in 1 .. Len(sent) : sent'[i] = sent[i]
      /\ Len(sent) \in Nat
  BY <1>1
<1> QED
  BY <1>2 DEF Ids, SentFor

\* Commands are finitely many.
LEMMA SentForFinite ==
  ASSUME ClientTyped, NEW d
  PROVE  IsFiniteSet(SentFor(d)) /\ Cardinality(SentFor(d)) \in Nat
<1>1. Len(sent) \in Nat
  BY DEF ClientTyped, SentTyped
<1>2. IsFiniteSet(Ids)
  BY <1>1, FS_Interval DEF Ids
<1>3. IsFiniteSet(SentFor(d))
  BY <1>2, FS_Subset DEF SentFor
<1> QED
  BY <1>3, FS_CardinalityType

\* A line that matches is one that was written, and bears the last id.
LEMMA LineTaken ==
  ASSUME ClientTyped, Matches
  PROVE  /\ outbox # <<>> /\ Line = outbox[1] /\ 1 \in DOMAIN outbox /\ Line \in Lines
         /\ Line.id = Len(sent) /\ Len(sent) \in Ids /\ Len(sent) \in Nat \ {0}
         /\ Tail(outbox) \in Seq(Lines)
         /\ \A j \in DOMAIN Tail(outbox) : j + 1 \in DOMAIN outbox /\ Tail(outbox)[j] = outbox[j + 1]
<1>1. sent \in Seq({Status} \cup Decisions) /\ sent # <<>> /\ outbox \in Seq(Lines)
  BY DEF ClientTyped, SentTyped, PipesTyped
<1>2. Len(sent) \in Nat \ {0} /\ Len(sent) \in Ids
  BY <1>1 DEF Ids
<1>3. outbox # <<>>
  BY <1>2 DEF Matches, Line, Id, NoId
<1>4. Line = outbox[1] /\ 1 \in DOMAIN outbox /\ Line.id = Len(sent)
  BY <1>1, <1>3 DEF Line, Matches, Id
<1> QED
  BY <1>1, <1>2, <1>3, <1>4

\* Where the client and its worker start.
LEMMA ClientInitTyped == ClientInit => ClientTyped
<1> SUFFICES ASSUME ClientInit PROVE ClientTyped
  OBVIOUS
<1>1. sent = <<Status>> /\ sent \in Seq({Status} \cup Decisions) /\ Len(sent) = 1 /\ sent # <<>>
  BY DEF ClientInit
<1> QED
  BY <1>1, ClientAssumption DEF ClientInit, ClientTyped, AdapterTyped, SentTyped, PipesTyped, Stages, Ids, Lines, Decisions, NoId, Null

\* A failed attempt leaves the adapter typed.
LEMMA FailTyped ==
  ASSUME ClientTyped, Fail, clientPc # "idle"
  PROVE  AdapterTyped'
<1> USE ClientAssumption DEF ClientTyped, AdapterTyped, Stages, Decisions
<1>1. answer' = answer /\ UNCHANGED <<decision, invocations>>
  BY DEF Fail, End
<1>2. CASE attempt < MaxRetries
  <2>1. clientPc' = "ask" /\ attempt' = attempt + 1 /\ outcome' = outcome
    BY <1>2 DEF Fail
  <2>2. attempt + 1 \in 0 .. MaxRetries
    BY <1>2
  <2> QED
    BY <1>1, <2>1, <2>2
<1>3. CASE ~(attempt < MaxRetries)
  <2>1. clientPc' = "idle" /\ attempt' = attempt /\ outcome' = [outcome EXCEPT ![decision] = "failed"]
    BY <1>3 DEF Fail, End
  <2> QED
    BY <1>1, <2>1
<1> QED
  BY <1>2, <1>3

\* The command the worker takes is one that was sent.
LEMMA HeadTaken ==
  ASSUME ClientTyped, inbox # <<>>
  PROVE  /\ Head(inbox) \in Ids /\ Tail(inbox) \in Seq(Nat)
         /\ \A j \in DOMAIN Tail(inbox) : Tail(inbox)[j] \in Ids
<1>1. inbox \in Seq(Nat) /\ \A j \in DOMAIN inbox : inbox[j] \in Ids
  BY DEF ClientTyped, PipesTyped
<1>2. 1 \in DOMAIN inbox /\ Head(inbox) = inbox[1] /\ Tail(inbox) \in Seq(Nat)
  BY <1>1
<1>3. \A j \in DOMAIN Tail(inbox) : j + 1 \in DOMAIN inbox /\ Tail(inbox)[j] = inbox[j + 1]
  BY <1>1
<1> QED
  BY <1>1, <1>2, <1>3

\* The line the worker writes is a line, also when it ends what was begun.
LEMMA LineWritten ==
  ASSUME ClientTyped, NEW i \in Nat, NEW says \in Responses \cup {"ready", "noise"}, Emit(i, says)
  PROVE  outbox' \in Seq(Lines) /\ begun' = "no"
<1>1. outbox \in Seq(Lines) /\ [id |-> i, says |-> says] \in Lines /\ Noise \in Lines
  BY DEF ClientTyped, PipesTyped, Lines, Noise, NoId
<1>2. outbox' = Append(outbox, [id |-> i, says |-> says]) \/ outbox' = Append(outbox, Noise)
  BY DEF Emit
<1> QED
  BY <1>1, <1>2 DEF Emit

\* What the client may leave of a line that is begun.
LEMMA KeptTyped == ClientTyped => Kept \subseteq {"no", "pipe", "taken"}
BY DEF ClientTyped, PipesTyped, Kept

\* Every step keeps the types of the adapter.
LEMMA AdapterTypedStep == ASSUME ClientTyped, [ClientNext]_clientVars PROVE AdapterTyped'
<1> USE ClientAssumption DEF ClientTyped, AdapterTyped, Stages, Decisions
<1>0. CASE UNCHANGED clientVars
  BY <1>0 DEF clientVars, adapter, client, worker, bounds
<1>1. CASE Decide
  BY <1>1 DEF Decide, At, adapter, client, worker, bounds
<1>2. CASE Ask
  <2>1. decision \in Decisions /\ invocations[decision] + 1 \in Nat
    BY <1>2 DEF Ask, At
  <2>2. invocations' \in [Decisions -> Nat]
    BY <1>2, <2>1 DEF Ask
  <2> QED
    BY <1>2, <2>2 DEF Ask, At
<1>3. CASE HasWorker
  BY <1>3 DEF HasWorker, At, adapter, client, worker, bounds
<1>4. CASE StartWorker
  BY <1>4 DEF StartWorker, At, Id, adapter, client, worker, bounds
<1>5. CASE CannotStart
  BY <1>5, FailTyped DEF CannotStart, At
<1>6. CASE Hello
  BY <1>6 DEF Hello, At, adapter, client, worker, bounds
<1>7. CASE NotReady
  BY <1>7, FailTyped DEF NotReady, At
<1>8. CASE NotRunning
  BY <1>8, FailTyped DEF NotRunning, At
<1>9. CASE Send
  BY <1>9 DEF Send, At, Id, adapter, client, worker, bounds
<1>10. CASE BreakPipe
  BY <1>10 DEF BreakPipe, At, Lose, End, adapter, client, worker, bounds
<1>11. CASE ReadResponse
  <2>1. decision \in Decisions /\ Line.id \in Nat
    BY <1>11, LineTaken DEF ReadResponse, At, Lines
  <2>2. answer' \in [Decisions -> Nat]
    BY <1>11, <2>1 DEF ReadResponse, Fail
  <2>3. CASE Fail
    BY <2>1, <2>2, <2>3 DEF Fail, End
  <2>4. CASE End("answered")
    BY <2>1, <2>2, <2>4 DEF End
  <2> QED
    BY <1>11, <2>3, <2>4 DEF ReadResponse
<1>12. CASE ReadNothing
  BY <1>12 DEF ReadNothing, At, Discard, Lose, End, adapter, client, worker, bounds
<1>13. CASE Close
  BY <1>13 DEF Close, Discard, adapter, client, worker, bounds
<1>14. CASE Interrupt
  BY <1>14 DEF Interrupt, Discard, End, adapter, client, worker, bounds
<1>15. CASE ReportStatus
  BY <1>15 DEF ReportStatus, Idle, Emit, adapter, client, worker, bounds
<1>16. CASE Request
  BY <1>16 DEF Request, Idle, adapter, client, worker, bounds
<1>17. CASE Refuse
  BY <1>17 DEF Refuse, Idle, Emit, adapter, client, worker, bounds
<1>18. CASE Respond
  BY <1>18 DEF Respond, Emit, adapter, client, worker, bounds
<1>19. CASE Chatter
  BY <1>19 DEF Chatter, Emit, adapter, client, worker, bounds
<1>20. CASE Die
  BY <1>20 DEF Die, adapter, client, worker, bounds
<1>21. CASE Begin
  BY <1>21 DEF Begin, adapter, client, bounds
<1> QED
  BY <1>0, <1>1, <1>2, <1>3, <1>4, <1>5, <1>6, <1>7, <1>8, <1>9, <1>10, <1>11, <1>12, <1>13, <1>14, <1>15, <1>16, <1>17, <1>18, <1>19, <1>20, <1>21 DEF ClientNext, Client, Worker

\* Every step keeps the types of the commands and calls.
LEMMA SentTypedStep == ASSUME ClientTyped, [ClientNext]_clientVars PROVE SentTyped'
<1> USE ClientAssumption DEF ClientTyped, SentTyped, PipesTyped, Ids, Decisions, Null, Status
<1>0. CASE UNCHANGED clientVars
  BY <1>0 DEF clientVars, adapter, client, worker, bounds
<1>1. CASE Decide
  BY <1>1 DEF Decide, At, adapter, client, worker, bounds
<1>2. CASE Ask
  BY <1>2 DEF Ask, At, adapter, client, worker, bounds
<1>3. CASE HasWorker
  BY <1>3 DEF HasWorker, At, adapter, client, worker, bounds
<1>4. CASE StartWorker
  BY <1>4 DEF StartWorker, At, Id, adapter, client, worker, bounds
<1>5. CASE CannotStart
  BY <1>5 DEF CannotStart, At, Discard, Fail, End, adapter, client, worker, bounds
<1>6. CASE Hello
  BY <1>6 DEF Hello, At, adapter, client, worker, bounds
<1>7. CASE NotReady
  BY <1>7 DEF NotReady, At, Discard, Fail, End, adapter, client, worker, bounds
<1>8. CASE NotRunning
  BY <1>8 DEF NotRunning, At, Fail, End, adapter, client, worker, bounds
<1>9. CASE Send
  <2>1. decision \in {Status} \cup Decisions /\ sent' = Append(sent, decision)
    BY <1>9 DEF Send, AdapterTyped
  <2> QED
    BY <1>9, <2>1, SentAppend DEF Send
<1>10. CASE BreakPipe
  <2>1. decision \in {Status} \cup Decisions /\ sent' = Append(sent, decision)
    BY <1>10 DEF BreakPipe, AdapterTyped
  <2> QED
    BY <1>10, <2>1, SentAppend DEF BreakPipe
<1>11. CASE ReadResponse
  <2>1. Line.id \in Ids
    BY <1>11, LineTaken DEF ReadResponse
  <2>2. total' \in Nat \cup {Null}
    BY <1>11 DEF ReadResponse
  <2> QED
    BY <1>11, <2>1, <2>2 DEF ReadResponse
<1>12. CASE ReadNothing
  BY <1>12 DEF ReadNothing, At, Discard, Lose, End, adapter, client, worker, bounds
<1>13. CASE Close
  <2>1. sent' = sent \/ sent' = Append(sent, Status)
    BY <1>13 DEF Close
  <2> QED
    BY <1>13, <2>1, SentAppend DEF Close
<1>14. CASE Interrupt
  BY <1>14 DEF Interrupt, Discard, End, adapter, client, worker, bounds
<1>15. CASE ReportStatus
  BY <1>15 DEF ReportStatus, Idle, Emit, adapter, client, worker, bounds
<1>16. CASE Request
  <2>1. 1 \in DOMAIN inbox /\ Head(inbox) = inbox[1]
    BY <1>16 DEF Request, Idle
  <2> QED
    BY <1>16, <2>1 DEF Request, client
<1>17. CASE Refuse
  BY <1>17 DEF Refuse, Idle, Emit, adapter, client, worker, bounds
<1>18. CASE Respond
  BY <1>18 DEF Respond, Emit, adapter, client, worker, bounds
<1>19. CASE Chatter
  BY <1>19 DEF Chatter, Emit, adapter, client, worker, bounds
<1>20. CASE Die
  BY <1>20 DEF Die, adapter, client, worker, bounds
<1>21. CASE Begin
  BY <1>21 DEF Begin, adapter, client, bounds
<1> QED
  BY <1>0, <1>1, <1>2, <1>3, <1>4, <1>5, <1>6, <1>7, <1>8, <1>9, <1>10, <1>11, <1>12, <1>13, <1>14, <1>15, <1>16, <1>17, <1>18, <1>19, <1>20, <1>21 DEF ClientNext, Client, Worker

\* Every step keeps the types of the pipes.
LEMMA PipesTypedStep == ASSUME ClientTyped, [ClientNext]_clientVars PROVE PipesTyped'
<1> USE ClientAssumption DEF ClientTyped, SentTyped, PipesTyped, Ids, Lines, NoId, Decisions, Responses
<1>0. CASE UNCHANGED clientVars
  BY <1>0 DEF clientVars, adapter, client, worker, bounds
<1>1. CASE Decide
  BY <1>1 DEF Decide, At, adapter, client, worker, bounds
<1>2. CASE Ask
  BY <1>2 DEF Ask, At, adapter, client, worker, bounds
<1>3. CASE HasWorker
  BY <1>3 DEF HasWorker, At, adapter, client, worker, bounds
<1>4. CASE StartWorker
  BY <1>4 DEF StartWorker, At, Id, adapter, client, worker, bounds
<1>5. CASE CannotStart
  BY <1>5 DEF CannotStart, At, Discard, Fail, End, adapter, client, worker, bounds
<1>6. CASE Hello
  BY <1>6, LineTaken, KeptTyped DEF Hello, TakeLine
<1>7. CASE NotReady
  BY <1>7 DEF NotReady, At, Discard, Fail, End, adapter, client, worker, bounds
<1>8. CASE NotRunning
  BY <1>8 DEF NotRunning, At, Fail, End, adapter, client, worker, bounds
<1>9. CASE Send
  <2>1. /\ decision \in {Status} \cup Decisions /\ sent' = Append(sent, decision)
        /\ inbox' = Append(inbox, Len(sent) + 1) /\ UNCHANGED <<outbox, begun, busy>>
    <3>1. decision \in Decisions
      BY <1>9 DEF Send, At, AdapterTyped
    <3> QED
      BY <1>9, <3>1 DEF Send, Id, bounds
  <2>2. Len(sent') = Len(sent) + 1 /\ Len(sent) \in Nat
    BY <2>1, SentAppend
  <2>3. inbox' \in Seq(Nat) /\ \A j \in DOMAIN inbox' : inbox'[j] \in 1 .. (Len(sent) + 1)
    <3>1. inbox \in Seq(Nat) /\ Len(sent) + 1 \in Nat /\ \A j \in DOMAIN inbox : inbox[j] \in 1 .. (Len(sent) + 1)
      BY <2>2
    <3>2. \A j \in DOMAIN inbox' : inbox'[j] = Len(sent) + 1 \/ (j \in DOMAIN inbox /\ inbox'[j] = inbox[j])
      BY <2>1, <3>1
    <3>3. inbox' \in Seq(Nat)
      BY <2>1, <3>1
    <3>4. Len(sent) + 1 \in 1 .. (Len(sent) + 1)
      BY <2>2
    <3>5. ASSUME NEW j \in DOMAIN inbox' PROVE inbox'[j] \in 1 .. (Len(sent) + 1)
      BY <3>1, <3>2, <3>4, Zenon
    <3> QED
      BY <3>3, <3>5
  <2> QED
    BY <2>1, <2>2, <2>3
<1>10. CASE BreakPipe
  BY <1>10 DEF BreakPipe, At, Lose, End, adapter, client, worker, bounds
<1>11. CASE ReadResponse
  BY <1>11, LineTaken, KeptTyped DEF ReadResponse, TakeLine
<1>12. CASE ReadNothing
  BY <1>12 DEF ReadNothing, At, Discard, Lose, End, adapter, client, worker, bounds
<1>13. CASE Close
  BY <1>13 DEF Close, Discard, adapter, client, worker, bounds
<1>14. CASE Interrupt
  <2>1. CASE Discard
    BY <1>14, <2>1 DEF Interrupt, Discard
  <2>2. CASE UNCHANGED <<process, ready, alive, inbox, outbox, busy>> /\ begun' \in Kept \cup {begun}
    BY <1>14, <2>2, KeptTyped DEF Interrupt
  <2> QED
    BY <1>14, <2>1, <2>2 DEF Interrupt
<1>15. CASE ReportStatus
  <2>1. inbox # <<>> /\ inbox' = Tail(inbox) /\ UNCHANGED <<sent, busy>>
    BY <1>15 DEF ReportStatus, Idle, client
  <2>2. PICK says \in {"ready", "refused"} : Emit(Head(inbox), says)
    BY <1>15 DEF ReportStatus
  <2>3. Head(inbox) \in Ids /\ Head(inbox) \in Nat
    BY <2>1, HeadTaken
  <2>4. outbox' \in Seq(Lines) /\ begun' = "no"
    BY <2>2, <2>3, LineWritten
  <2> QED
    BY <2>1, <2>4, HeadTaken
<1>16. CASE Request
  <2>1. inbox # <<>> /\ inbox' = Tail(inbox) /\ busy' = Head(inbox) /\ UNCHANGED <<sent, outbox, begun>>
    BY <1>16 DEF Request, Idle, client
  <2> QED
    BY <2>1, HeadTaken
<1>17. CASE Refuse
  <2>1. inbox # <<>> /\ inbox' = Tail(inbox) /\ Emit(Head(inbox), "refused") /\ UNCHANGED <<sent, busy>>
    BY <1>17 DEF Refuse, Idle, client
  <2>2. Head(inbox) \in Ids /\ Head(inbox) \in Nat
    BY <2>1, HeadTaken
  <2>3. outbox' \in Seq(Lines) /\ begun' = "no"
    BY <2>1, <2>2, LineWritten
  <2> QED
    BY <2>1, <2>3, HeadTaken
<1>18. CASE Respond
  <2>1. PICK says \in Responses : Emit(busy, says)
    BY <1>18 DEF Respond
  <2>2. busy' = NoId /\ UNCHANGED <<sent, inbox>>
    BY <1>18 DEF Respond, client
  <2>3. outbox' \in Seq(Lines) /\ begun' = "no"
    BY <2>1, LineWritten
  <2> QED
    BY <2>2, <2>3
<1>19. CASE Chatter
  <2>1. Emit(NoId, "noise") /\ UNCHANGED <<sent, inbox, busy>>
    BY <1>19 DEF Chatter, Noise, client
  <2>2. outbox' \in Seq(Lines) /\ begun' = "no"
    BY <2>1, LineWritten
  <2> QED
    BY <2>1, <2>2
<1>20. CASE Die
  BY <1>20 DEF Die, adapter, client, worker, bounds
<1>21. CASE Begin
  BY <1>21 DEF Begin, adapter, client, bounds
<1> QED
  BY <1>0, <1>1, <1>2, <1>3, <1>4, <1>5, <1>6, <1>7, <1>8, <1>9, <1>10, <1>11, <1>12, <1>13, <1>14, <1>15, <1>16, <1>17, <1>18, <1>19, <1>20, <1>21 DEF ClientNext, Client, Worker

-----------------------------------------------------------------------------
\* What the worker takes next leaves the rest of its pipe in order.
LEMMA CommandTaken ==
  ASSUME ClientTyped, PipesInOrder, Idle
  PROVE  /\ Head(inbox) = inbox[1] /\ 1 \in DOMAIN inbox /\ Head(inbox) \in Awaited
         /\ Head(inbox) \in Ids /\ Tail(inbox) \in Seq(Nat)
         /\ \A j \in DOMAIN Tail(inbox) :
              /\ j + 1 \in DOMAIN inbox /\ Tail(inbox)[j] = inbox[j + 1]
              /\ Tail(inbox)[j] # Head(inbox)
         /\ \A j, k \in DOMAIN Tail(inbox) : Tail(inbox)[j] = Tail(inbox)[k] => j = k
<1>1. inbox \in Seq(Nat) /\ inbox # <<>> /\ \A j \in DOMAIN inbox : inbox[j] \in Ids
  BY DEF ClientTyped, PipesTyped, Idle
<1>2. Head(inbox) = inbox[1] /\ 1 \in DOMAIN inbox /\ Tail(inbox) \in Seq(Nat)
  BY <1>1
<1>3. \A j \in DOMAIN Tail(inbox) : j + 1 \in DOMAIN inbox /\ j + 1 # 1 /\ j \in Nat
                                      /\ Tail(inbox)[j] = inbox[j + 1]
  BY <1>1
<1>4. \A j, k \in DOMAIN Tail(inbox) : j + 1 = k + 1 => j = k
  BY <1>3
<1>5. \A j, k \in DOMAIN inbox : inbox[j] = inbox[k] => j = k
  BY DEF PipesInOrder
<1> QED
  BY <1>1, <1>2, <1>3, <1>4, <1>5 DEF Awaited

\* Every line bears a number.
LEMMA LineIds == ClientTyped => \A j \in DOMAIN outbox : outbox[j].id \in Nat
<1>1. ClientTyped => \A j \in DOMAIN outbox : outbox[j] \in Lines
  BY DEF ClientTyped, PipesTyped
<1> QED
  BY <1>1 DEF Lines

\* What a command may be for.
LEMMA Deciding == ClientTyped => decision \in {Status} \cup Decisions
BY ClientAssumption DEF ClientTyped, AdapterTyped, Status, Decisions

\* A line is written behind the ones before it.
LEMMA Written ==
  ASSUME ClientTyped, NEW i \in {NoId} \cup Ids, NEW s \in Responses \cup {"ready", "noise"}, Emit(i, s)
  PROVE  \A j \in DOMAIN outbox' :
           \/ j \in DOMAIN outbox /\ outbox'[j] = outbox[j]
           \/ outbox'[j] = [id |-> i, says |-> s]
           \/ outbox'[j] = Noise
<1>1. outbox \in Seq(Lines) /\ [id |-> i, says |-> s] \in Lines /\ Noise \in Lines
  BY DEF ClientTyped, SentTyped, PipesTyped, Lines, NoId, Ids, Noise
<1>2. outbox' = Append(outbox, [id |-> i, says |-> s]) \/ outbox' = Append(outbox, Noise)
  BY DEF Emit
<1> QED
  BY <1>1, <1>2

\* A line that is no response is not awaited.
LEMMA NoiseAwaited == ClientTyped => Noise.id = NoId /\ Noise.says = "noise" /\ NoId \notin Awaited /\ NoId <= Len(sent)
BY DEF Noise, Awaited, ClientTyped, SentTyped, PipesTyped, Ids, NoId

\* A worker that is given up leaves nothing in its pipes.
LEMMA DiscardedPipes ==
  ASSUME ClientTyped, PipesInOrder, inbox' = <<>>, outbox' = <<>>, busy' = NoId,
         read' = read, calls' = calls, \A i \in Ids : sent'[i] = sent[i]
  PROVE  PipesInOrder'
BY DEF PipesInOrder, Awaited, ClientTyped, SentTyped, Ids

\* Every step keeps the pipes in order.
LEMMA PipesStep == ASSUME ClientTyped, PipesInOrder, [ClientNext]_clientVars PROVE PipesInOrder'
<1> DEFINE same == UNCHANGED <<sent, read, calls, inbox, outbox, busy>>
<1>0. CASE same
  BY <1>0 DEF PipesInOrder, Awaited
<1>1. CASE Decide \/ Ask \/ HasWorker \/ NotRunning \/ Begin \/ UNCHANGED clientVars
  <2>1. same
    BY <1>1 DEF Decide, Ask, HasWorker, NotRunning, Begin, client, worker, clientVars
  <2> QED
    BY <1>0, <2>1
<1>2. CASE StartWorker
  <2>1. /\ sent' = Append(sent, Status) /\ Id = Len(sent) /\ inbox' = <<Id + 1>> /\ outbox' = <<>>
        /\ busy' = NoId /\ read' = read /\ calls' = calls
    BY <1>2 DEF StartWorker, Id
  <2>2. \A i \in Ids : sent'[i] = sent[i]
    BY <2>1, SentAppend
  <2>3. Len(sent) + 1 \notin Ids /\ Len(sent) \in Nat
    BY <2>1, SentAppend
  <2>4. DOMAIN inbox' = {1} /\ inbox'[1] = Len(sent) + 1 /\ DOMAIN outbox' = {} /\ Len(sent) + 1 # NoId
    BY <2>1, <2>3 DEF NoId
  <2>5. Awaited' = {Len(sent) + 1}
    BY <2>1, <2>4 DEF Awaited
  <2>6. Len(sent) + 1 \notin read /\ calls \subseteq Ids
    BY <2>3 DEF ClientTyped, SentTyped
  <2> QED
    BY <2>1, <2>2, <2>4, <2>5, <2>6 DEF PipesInOrder
<1>3. CASE CannotStart \/ NotReady \/ ReadNothing
  BY <1>3, DiscardedPipes DEF CannotStart, NotReady, ReadNothing, Discard
<1>4. CASE Close
  <2>1. \A i \in Ids : sent'[i] = sent[i]
    BY <1>4, SentAppend DEF Close
  <2> QED
    BY <1>4, <2>1, DiscardedPipes DEF Close, Discard
<1>5. CASE Hello
  <2>1. UNCHANGED <<sent, read, calls, inbox, busy>> /\ outbox' = Tail(outbox) /\ Matches
    BY <1>5 DEF Hello, TakeLine
  <2> QED
    BY <2>1, LineTaken DEF PipesInOrder, Awaited
<1>6. CASE ReadResponse
  <2>1. /\ UNCHANGED <<sent, calls, inbox, busy>> /\ outbox' = Tail(outbox) /\ Matches
        /\ read' = read \cup {Line.id}
    BY <1>6 DEF ReadResponse, TakeLine
  <2>2. Line.id \notin Awaited
    BY <2>1, LineTaken DEF PipesInOrder
  <2> QED
    BY <2>1, <2>2, LineTaken DEF PipesInOrder, Awaited
<1>7. CASE Send
  <2>1. /\ sent' = Append(sent, decision) /\ decision \in {Status} \cup Decisions /\ Id = Len(sent)
        /\ inbox' = Append(inbox, Id + 1) /\ UNCHANGED <<read, calls, outbox, busy>>
    BY <1>7, Deciding DEF Send, Id
  <2>2. /\ \A i \in Ids : sent'[i] = sent[i]
        /\ Len(sent) + 1 \notin Ids /\ Len(sent) \in Nat /\ Len(sent') = Len(sent) + 1
    BY <2>1, SentAppend
  <2>3. inbox \in Seq(Nat) /\ \A j \in DOMAIN inbox : inbox[j] \in Ids
    BY DEF ClientTyped, PipesTyped
  <2>4. \A j \in DOMAIN inbox' : \/ j \in DOMAIN inbox /\ inbox'[j] = inbox[j]
                                 \/ j = Len(inbox) + 1 /\ inbox'[j] = Len(sent) + 1
    BY <2>1, <2>2, <2>3
  <2>5. busy # Len(sent) + 1 /\ \A j \in DOMAIN outbox : outbox[j].id # Len(sent) + 1
    BY <2>2 DEF PipesInOrder, ClientTyped, SentTyped, PipesTyped, NoId, Lines
  <2>6. Awaited' \subseteq Awaited \cup {Len(sent) + 1}
    BY <2>1, <2>4 DEF Awaited
  <2>7. Awaited' \cap read' = {}
    BY <2>1, <2>2, <2>6 DEF PipesInOrder, ClientTyped, SentTyped
  <2>8. \A j, k \in DOMAIN inbox' : inbox'[j] = inbox'[k] => j = k
    BY <2>2, <2>3, <2>4 DEF PipesInOrder
  <2>9. \A j \in DOMAIN outbox' :
           /\ outbox'[j].id \notin Awaited'
           /\ outbox'[j].id <= Len(sent')
           /\ outbox'[j].says \in {"decision", "unpriced", "unparsed", "crossed"} =>
                outbox'[j].id \in calls'
    <3>1. \A j \in DOMAIN outbox : outbox[j].id \in Nat
      BY LineIds
    <3> QED
      BY <2>1, <2>2, <2>5, <2>6, <3>1 DEF PipesInOrder
  <2>10. \A j \in DOMAIN inbox' : inbox'[j] # busy'
    BY <2>1, <2>4, <2>5 DEF PipesInOrder
  <2>11. \A i \in calls' : sent'[i] \in Decisions
    BY <2>1, <2>2 DEF PipesInOrder, ClientTyped, SentTyped
  <2>12. busy' # NoId => busy' \in calls'
    BY <2>1 DEF PipesInOrder
  <2> QED
    BY <2>7, <2>8, <2>9, <2>10, <2>11, <2>12 DEF PipesInOrder
<1>8. CASE BreakPipe
  <2>1. /\ sent' = Append(sent, decision) /\ decision \in {Status} \cup Decisions
        /\ UNCHANGED <<read, calls, inbox, outbox, busy>>
    BY <1>8, Deciding DEF BreakPipe
  <2>2. (\A i \in Ids : sent'[i] = sent[i]) /\ Len(sent') = Len(sent) + 1 /\ Len(sent) \in Nat
    BY <2>1, SentAppend
  <2>3. \A j \in DOMAIN outbox : outbox[j].id \in Nat
    BY LineIds
  <2>4. Awaited' = Awaited
    BY <2>1 DEF Awaited
  <2>5. \A j \in DOMAIN outbox' :
           /\ outbox'[j].id \notin Awaited'
           /\ outbox'[j].id <= Len(sent')
           /\ outbox'[j].says \in {"decision", "unpriced", "unparsed", "crossed"} =>
                outbox'[j].id \in calls'
    BY <2>1, <2>2, <2>3, <2>4 DEF PipesInOrder
  <2>6. \A i \in calls' : sent'[i] \in Decisions
    BY <2>1, <2>2 DEF PipesInOrder, ClientTyped, SentTyped
  <2> QED
    BY <2>1, <2>4, <2>5, <2>6 DEF PipesInOrder
<1>9. CASE Interrupt
  <2>1. CASE Discard
    BY <1>9, <2>1, DiscardedPipes DEF Interrupt, Discard
  <2>2. CASE ~Discard
    BY <1>0, <1>9, <2>2 DEF Interrupt
  <2> QED
    BY <2>1, <2>2
<1>10. CASE ReportStatus \/ Refuse
  <2>1. PICK s \in {"ready", "refused"} : Emit(Head(inbox), s)
    BY <1>10 DEF ReportStatus, Refuse
  <2>2. /\ Idle /\ UNCHANGED <<sent, read, calls, busy>> /\ inbox' = Tail(inbox)
    BY <1>10 DEF ReportStatus, Refuse, client
  <2>3. /\ Head(inbox) \in Ids /\ Head(inbox) \in {NoId} \cup Ids
        /\ s \in Responses \cup {"ready", "noise"}
    BY <2>2, CommandTaken DEF Responses
  <2>4. \A j \in DOMAIN outbox' : \/ j \in DOMAIN outbox /\ outbox'[j] = outbox[j]
                                  \/ outbox'[j].id = Head(inbox) /\ outbox'[j].says = s
                                  \/ outbox'[j].id = NoId /\ outbox'[j].says = "noise"
    BY <2>1, <2>3, Written, NoiseAwaited
  <2>5. Awaited' \subseteq Awaited /\ Head(inbox) \notin Awaited'
    BY <2>2, CommandTaken DEF Awaited, PipesInOrder, Idle
  <2>6. Head(inbox) <= Len(sent)
    BY <2>3 DEF Ids
  <2>7. \A j \in DOMAIN outbox' :
           /\ outbox'[j].id \notin Awaited'
           /\ outbox'[j].id <= Len(sent')
           /\ outbox'[j].says \in {"decision", "unpriced", "unparsed", "crossed"} =>
                outbox'[j].id \in calls'
    BY <2>1, <2>2, <2>4, <2>5, <2>6, NoiseAwaited DEF PipesInOrder
  <2> QED
    BY <2>2, <2>5, <2>7, CommandTaken DEF PipesInOrder
<1>11. CASE Request
  <2>1. /\ Idle /\ UNCHANGED <<sent, read, outbox>> /\ inbox' = Tail(inbox)
        /\ busy' = Head(inbox) /\ calls' = calls \cup {Head(inbox)} /\ sent[Head(inbox)] # Status
    BY <1>11 DEF Request, client
  <2>2. Head(inbox) \in Ids /\ Head(inbox) # NoId
    BY <2>1, CommandTaken DEF Ids, NoId
  <2>3. sent[Head(inbox)] \in Decisions
    BY <2>1, <2>2 DEF ClientTyped, SentTyped, Ids
  <2>4. Awaited' \subseteq Awaited
    BY <2>1, CommandTaken DEF Awaited
  <2> QED
    BY <2>1, <2>2, <2>3, <2>4, CommandTaken DEF PipesInOrder
<1>12. CASE Respond
  <2>1. PICK s \in Responses : Emit(busy, s)
    BY <1>12 DEF Respond
  <2>2. busy # NoId /\ busy \in Ids /\ UNCHANGED <<sent, read, calls, inbox>> /\ busy' = NoId
    BY <1>12 DEF Respond, client, ClientTyped, PipesTyped
  <2>3. \A j \in DOMAIN outbox' : \/ j \in DOMAIN outbox /\ outbox'[j] = outbox[j]
                                  \/ outbox'[j].id = busy
                                  \/ outbox'[j].id = NoId /\ outbox'[j].says = "noise"
    BY <2>1, <2>2, Written, NoiseAwaited
  <2>4. Awaited' \subseteq Awaited /\ busy \notin Awaited'
    BY <2>2 DEF Awaited, PipesInOrder
  <2>5. busy <= Len(sent) /\ busy \in calls
    BY <2>2 DEF Ids, PipesInOrder
  <2>6. \A j \in DOMAIN inbox : inbox[j] # NoId
    BY DEF ClientTyped, PipesTyped, Ids, NoId
  <2>7. \A j \in DOMAIN outbox' :
           /\ outbox'[j].id \notin Awaited'
           /\ outbox'[j].id <= Len(sent')
           /\ outbox'[j].says \in {"decision", "unpriced", "unparsed", "crossed"} =>
                outbox'[j].id \in calls'
    BY <2>2, <2>3, <2>4, <2>5, NoiseAwaited DEF PipesInOrder
  <2> QED
    BY <2>2, <2>4, <2>6, <2>7 DEF PipesInOrder
<1>13. CASE Chatter
  <2>1. Emit(NoId, "noise") /\ UNCHANGED <<sent, read, calls, inbox, busy>>
    BY <1>13 DEF Chatter, client, Noise
  <2>2. \A j \in DOMAIN outbox' : \/ j \in DOMAIN outbox /\ outbox'[j] = outbox[j]
                                  \/ outbox'[j].id = NoId /\ outbox'[j].says = "noise"
    BY <2>1, Written, NoiseAwaited
  <2>3. NoId \notin Awaited /\ NoId <= Len(sent)
    BY NoiseAwaited
  <2> QED
    BY <2>1, <2>2, <2>3 DEF PipesInOrder, Awaited
<1>14. CASE Die
  <2>1. UNCHANGED <<sent, read, calls, inbox, outbox>> /\ busy' = NoId
    BY <1>14 DEF Die, client
  <2>2. \A j \in DOMAIN inbox : inbox[j] # NoId
    BY DEF ClientTyped, PipesTyped, Ids, NoId
  <2> QED
    BY <2>1, <2>2 DEF PipesInOrder, Awaited
<1> QED
  BY <1>1, <1>2, <1>3, <1>4, <1>5, <1>6, <1>7, <1>8, <1>9, <1>10, <1>11, <1>12, <1>13, <1>14
  DEF ClientNext, Client, Worker
-----------------------------------------------------------------------------
\* Commands of a decision that are counted no less after a step which sends none.
LEMMA CommandsStay ==
  ASSUME ClientTyped, CommandsTracked, ClientTyped', UNCHANGED <<decision, sent, invocations>>,
         read \subseteq read', calls \subseteq calls',
         \A d \in Decisions : ToBeSent(d)' <= ToBeSent(d)
  PROVE  \A d \in Decisions :
           /\ SentFor(d)' = SentFor(d) /\ CallsOf(d) \subseteq CallsOf(d)'
           /\ Cardinality(SentFor(d)') + ToBeSent(d)' <= invocations'[d]
           /\ invocations'[d] <= MaxRetries + 1
           /\ d > decision' => invocations'[d] = 0 /\ SentFor(d)' = {}
           /\ \E i \in Nat : SentFor(d)' \ read' \subseteq {i}
<1> SUFFICES ASSUME NEW d \in Decisions
             PROVE  /\ SentFor(d)' = SentFor(d) /\ CallsOf(d) \subseteq CallsOf(d)'
                    /\ Cardinality(SentFor(d)') + ToBeSent(d)' <= invocations'[d]
                    /\ invocations'[d] <= MaxRetries + 1
                    /\ d > decision' => invocations'[d] = 0 /\ SentFor(d)' = {}
                    /\ \E i \in Nat : SentFor(d)' \ read' \subseteq {i}
  OBVIOUS
<1>1. SentFor(d)' = SentFor(d) /\ CallsOf(d) \subseteq CallsOf(d)'
  BY DEF SentFor, Ids, CallsOf
<1>2. Cardinality(SentFor(d)) \in Nat /\ invocations[d] \in Nat
  BY SentForFinite DEF ClientTyped, AdapterTyped
<1>3. ToBeSent(d) \in Nat /\ ToBeSent(d)' \in Nat
  BY DEF ToBeSent
<1>4. Cardinality(SentFor(d)') = Cardinality(SentFor(d))
  BY <1>1
<1>5. /\ Cardinality(SentFor(d)) + ToBeSent(d) <= invocations[d]
      /\ invocations[d] <= MaxRetries + 1
      /\ d > decision => invocations[d] = 0 /\ SentFor(d) = {}
      /\ \E i \in Nat : SentFor(d) \ read \subseteq {i}
  BY DEF CommandsTracked
<1>6. Cardinality(SentFor(d)') + ToBeSent(d)' <= invocations'[d]
  BY <1>2, <1>3, <1>4, <1>5
<1>7. \E i \in Nat : SentFor(d)' \ read' \subseteq {i}
  BY <1>1, <1>5
<1> QED
  BY <1>1, <1>5, <1>6, <1>7

\* A step that leaves the adapter where it was.
LEMMA AdapterStays ==
  ASSUME ClientTyped, CommandsTracked, ClientTyped', UNCHANGED <<decision, attempt, sent, read>>,
         UNCHANGED <<outcome, answer, invocations>>, calls \subseteq calls',
         \/ clientPc' = clientPc
         \/ clientPc \in {"ensure", "hello"} /\ clientPc' \in {"ensure", "hello", "send"}
  PROVE  CommandsTracked'
<1>1. \A d \in Decisions : ToBeSent(d)' = ToBeSent(d)
  BY DEF ToBeSent
<1>2. \A d \in Decisions :
        /\ SentFor(d)' = SentFor(d) /\ CallsOf(d) \subseteq CallsOf(d)'
        /\ Cardinality(SentFor(d)') + ToBeSent(d)' <= invocations'[d]
        /\ invocations'[d] <= MaxRetries + 1
        /\ d > decision' => invocations'[d] = 0 /\ SentFor(d)' = {}
        /\ \E i \in Nat : SentFor(d)' \ read' \subseteq {i}
  <2>1. \A d \in Decisions : ToBeSent(d) \in Nat
    BY DEF ToBeSent
  <2> QED
    BY <1>1, <2>1, CommandsStay
<1>3. SentFor(decision)' = SentFor(decision)
  BY DEF SentFor, Ids
<1> QED
  BY <1>2, <1>3 DEF CommandsTracked

\* An attempt that fails, with all that was sent for it read, is over or tried again.
LEMMA FailTracked ==
  ASSUME ClientTyped, CommandsTracked, ClientTyped', Fail, clientPc \in {"ensure", "hello", "send", "read"},
         UNCHANGED <<sent, calls>>, read \subseteq read', SentFor(decision) \subseteq read'
  PROVE  CommandsTracked'
<1>1. \A d \in Decisions : ToBeSent(d)' = 0 /\ ToBeSent(d) \in Nat
  BY DEF ToBeSent, Fail, End
<1>2. UNCHANGED <<decision, invocations, answer>> /\ decision \in Decisions
  BY ClientAssumption DEF Fail, End, ClientTyped, AdapterTyped, Decisions
<1>3. \A d \in Decisions :
        /\ SentFor(d)' = SentFor(d) /\ CallsOf(d) \subseteq CallsOf(d)'
        /\ Cardinality(SentFor(d)') + ToBeSent(d)' <= invocations'[d]
        /\ invocations'[d] <= MaxRetries + 1
        /\ d > decision' => invocations'[d] = 0 /\ SentFor(d)' = {}
        /\ \E i \in Nat : SentFor(d)' \ read' \subseteq {i}
  BY <1>1, <1>2, CommandsStay
<1>4. SentFor(decision') = SentFor(decision)
  BY <1>2
<1>5. SentFor(decision)' = SentFor(decision)
  BY <1>2, <1>3
<1>6. CASE attempt < MaxRetries
  <2>1. clientPc' = "ask" /\ attempt' = attempt + 1 /\ outcome' = outcome
    BY <1>6 DEF Fail
  <2>2. invocations[decision] <= attempt + 1
    BY DEF CommandsTracked
  <2> QED
    BY <1>2, <1>3, <1>5, <2>1, <2>2 DEF CommandsTracked
<1>7. CASE ~(attempt < MaxRetries)
  <2>1. clientPc' = "idle" /\ outcome' = [outcome EXCEPT ![decision] = "failed"]
    BY <1>7 DEF Fail, End
  <2>2. \A d \in Decisions : outcome'[d] = IF d = decision THEN "failed" ELSE outcome[d]
    BY <2>1 DEF ClientTyped, AdapterTyped
  <2>3. \A d \in Decisions :
          /\ d > decision' => outcome'[d] = "none"
          /\ outcome'[d] = "answered" => answer'[d] \in CallsOf(d)'
          /\ outcome'[d] \in {"answered", "failed"} => SentFor(d)' \subseteq read'
    BY <1>2, <1>3, <1>5, <2>2 DEF CommandsTracked, ClientTyped, AdapterTyped, Decisions
  <2> QED
    BY <1>2, <1>3, <2>1, <2>3 DEF CommandsTracked
<1> QED
  BY <1>6, <1>7

\* A decision that ends without a result.
LEMMA LossTracked ==
  ASSUME ClientTyped, CommandsTracked, ClientTyped', clientPc # "idle",
         NEW how \in {"unknown", "interrupted"}, End(how), UNCHANGED <<answer, sent, calls, read>>
  PROVE  CommandsTracked'
<1>1. \A d \in Decisions : ToBeSent(d)' = 0 /\ ToBeSent(d) \in Nat
  BY DEF ToBeSent, End
<1>2. UNCHANGED <<decision, invocations>> /\ decision \in Decisions
  BY ClientAssumption DEF End, ClientTyped, AdapterTyped, Decisions
<1>3. \A d \in Decisions :
        /\ SentFor(d)' = SentFor(d) /\ CallsOf(d) \subseteq CallsOf(d)'
        /\ Cardinality(SentFor(d)') + ToBeSent(d)' <= invocations'[d]
        /\ invocations'[d] <= MaxRetries + 1
        /\ d > decision' => invocations'[d] = 0 /\ SentFor(d)' = {}
        /\ \E i \in Nat : SentFor(d)' \ read' \subseteq {i}
  BY <1>1, <1>2, CommandsStay
<1>4. \A d \in Decisions : outcome'[d] = IF d = decision THEN how ELSE outcome[d]
  BY DEF End, ClientTyped, AdapterTyped
<1>5. clientPc' = "idle"
  BY DEF End
<1>6. \A d \in Decisions :
        /\ d > decision' => outcome'[d] = "none"
        /\ outcome'[d] = "answered" => answer'[d] \in CallsOf(d)'
        /\ outcome'[d] \in {"answered", "failed"} => SentFor(d)' \subseteq read'
  BY <1>2, <1>3, <1>4 DEF CommandsTracked, ClientTyped, AdapterTyped, Decisions
<1> QED
  BY <1>3, <1>5, <1>6 DEF CommandsTracked

\* A command that asks for no decision counts for none.
LEMMA StatusTracked ==
  ASSUME ClientTyped, CommandsTracked, ClientTyped', sent' = Append(sent, Status),
         UNCHANGED <<decision, attempt, outcome, answer, invocations, calls, read>>,
         \/ clientPc = "ensure" /\ clientPc' = "hello"
         \/ clientPc = "idle" /\ clientPc' = "idle"
  PROVE  CommandsTracked'
<1>1. \A d \in Decisions : ToBeSent(d)' = ToBeSent(d)
  BY DEF ToBeSent
<1>2. /\ \A d \in Decisions : SentFor(d)' = SentFor(d)
      /\ \A i \in Ids : sent'[i] = sent[i]
  <2>1. Status \in {Status} \cup Decisions /\ \A d \in Decisions : Status # d
    BY DEF Status, Decisions
  <2>2. /\ \A i \in Ids : sent'[i] = sent[i]
        /\ \A d \in Decisions :
             SentFor(d)' = SentFor(d) \cup (IF Status = d THEN {Len(sent) + 1} ELSE {})
    BY <2>1, SentAppend
  <2> QED
    BY <2>1, <2>2
<1>3. \A d \in Decisions : CallsOf(d)' = CallsOf(d)
  BY <1>2 DEF CallsOf, ClientTyped, SentTyped
<1>4. \A d \in Decisions :
        /\ Cardinality(SentFor(d)') + ToBeSent(d)' <= invocations'[d]
        /\ invocations'[d] <= MaxRetries + 1
        /\ d > decision' => invocations'[d] = 0 /\ SentFor(d)' = {}
        /\ d = decision' /\ clientPc' # "idle" => outcome'[d] = "none"
        /\ d > decision' => outcome'[d] = "none"
        /\ outcome'[d] = "answered" => answer'[d] \in CallsOf(d)'
        /\ outcome'[d] \in {"answered", "failed"} => SentFor(d)' \subseteq read'
        /\ \E i \in Nat : SentFor(d)' \ read' \subseteq {i}
  BY <1>1, <1>2, <1>3 DEF CommandsTracked
<1>5. clientPc = "ensure" => decision \in Decisions
  BY ClientAssumption DEF ClientTyped, AdapterTyped, Decisions
<1>6. clientPc = "ensure" => SentFor(decision)' \subseteq read'
  BY <1>2, <1>5 DEF CommandsTracked
<1> QED
  BY <1>4, <1>6 DEF CommandsTracked

\* A request is the one command of its attempt.
LEMMA RequestSent ==
  ASSUME ClientTyped, CommandsTracked, clientPc = "send", sent' = Append(sent, decision), clientPc' # "send",
         clientPc' \in {"read", "idle"}, UNCHANGED <<decision, invocations, answer, read, calls>>
  PROVE  /\ decision \in Decisions /\ Len(sent') = Len(sent) + 1 /\ Len(sent) \in Nat
         /\ sent'[Len(sent) + 1] = decision
         /\ \A d \in Decisions : CallsOf(d)' = CallsOf(d)
         /\ \A d \in Decisions : SentFor(d)' = SentFor(d) \cup (IF d = decision THEN {Len(sent) + 1} ELSE {})
         /\ \A d \in Decisions :
              /\ Cardinality(SentFor(d)') + ToBeSent(d)' <= invocations'[d]
              /\ invocations'[d] <= MaxRetries + 1
              /\ d > decision' => invocations'[d] = 0 /\ SentFor(d)' = {}
              /\ \E i \in Nat : SentFor(d)' \ read' \subseteq {i}
<1>1. decision \in Decisions /\ decision \in {Status} \cup Decisions
  BY ClientAssumption DEF ClientTyped, AdapterTyped, Decisions
<1>2. /\ Len(sent') = Len(sent) + 1 /\ Len(sent) \in Nat /\ sent'[Len(sent) + 1] = decision
      /\ \A d \in Decisions : SentFor(d)' = SentFor(d) \cup (IF d = decision THEN {Len(sent) + 1} ELSE {})
      /\ \A i \in Ids : sent'[i] = sent[i]
      /\ Len(sent) + 1 \notin Ids
  BY <1>1, SentAppend
<1>3. \A d \in Decisions : CallsOf(d)' = CallsOf(d)
  BY <1>2 DEF CallsOf, ClientTyped, SentTyped
<1>4. \A d \in Decisions : ToBeSent(d)' = 0 /\ ToBeSent(d) = IF d = decision THEN 1 ELSE 0
  BY DEF ToBeSent
<1>5. \A d \in Decisions :
        Cardinality(SentFor(d)') = Cardinality(SentFor(d)) + (IF d = decision THEN 1 ELSE 0)
  <2> SUFFICES ASSUME NEW d \in Decisions
               PROVE  Cardinality(SentFor(d)') = Cardinality(SentFor(d)) + (IF d = decision THEN 1 ELSE 0)
    OBVIOUS
  <2>1. IsFiniteSet(SentFor(d)) /\ Cardinality(SentFor(d)) \in Nat
    BY SentForFinite
  <2>2. CASE d = decision
    <3>1. SentFor(d)' = SentFor(d) \cup {Len(sent) + 1} /\ Len(sent) + 1 \notin SentFor(d)
      BY <1>2, <2>2 DEF SentFor
    <3>2. Cardinality(SentFor(d) \cup {Len(sent) + 1}) = Cardinality(SentFor(d)) + 1
      BY <2>1, <3>1, FS_AddElement
    <3> QED
      BY <2>2, <3>1, <3>2
  <2>3. CASE d # decision
    <3>1. SentFor(d)' = SentFor(d)
      BY <1>2, <2>3
    <3> QED
      BY <2>1, <2>3, <3>1
  <2> QED
    BY <2>2, <2>3
<1>6. \A d \in Decisions :
        /\ Cardinality(SentFor(d)) + ToBeSent(d) <= invocations[d]
        /\ invocations[d] <= MaxRetries + 1
        /\ d > decision => invocations[d] = 0 /\ SentFor(d) = {}
        /\ \E i \in Nat : SentFor(d) \ read \subseteq {i}
  BY DEF CommandsTracked
<1>7. \A d \in Decisions : Cardinality(SentFor(d)') + ToBeSent(d)' <= invocations'[d]
  <2>1. \A d \in Decisions : Cardinality(SentFor(d)) \in Nat
    BY SentForFinite
  <2> QED
    BY <1>4, <1>5, <1>6, <2>1
<1>8. \A d \in Decisions : d > decision' => SentFor(d)' = {}
  BY <1>1, <1>2, <1>6 DEF Decisions
<1>9. \A d \in Decisions : \E i \in Nat : SentFor(d)' \ read' \subseteq {i}
  <2>1. SentFor(decision) \subseteq read
    BY DEF CommandsTracked
  <2>2. SentFor(decision)' \ read' \subseteq {Len(sent) + 1}
    BY <1>1, <1>2, <2>1
  <2> QED
    BY <1>2, <1>6, <2>2
<1> QED
  BY <1>1, <1>2, <1>3, <1>6, <1>7, <1>8, <1>9

\* Every step tracks the commands.
LEMMA CommandsStep ==
  ASSUME ClientTyped, PipesInOrder, CommandsTracked, [ClientNext]_clientVars PROVE CommandsTracked'
<1>0. ClientTyped'
  BY AdapterTypedStep, SentTypedStep, PipesTypedStep DEF ClientTyped
<1>1. CASE UNCHANGED clientVars
  BY <1>0, <1>1, AdapterStays DEF clientVars, adapter, client, worker
<1>2. CASE Worker
  <2>1. UNCHANGED <<decision, attempt, sent, read, outcome, answer, invocations, clientPc>>
        /\ calls \subseteq calls'
    BY <1>2 DEF Worker, Begin, ReportStatus, Request, Refuse, Respond, Chatter, Die, adapter, client
  <2> QED
    BY <1>0, <2>1, AdapterStays
<1>3. CASE HasWorker \/ Hello
  <2>1. /\ UNCHANGED <<decision, attempt, sent, read, outcome, answer, invocations, calls>>
        /\ clientPc \in {"ensure", "hello"} /\ clientPc' = "send"
    BY <1>3 DEF HasWorker, Hello, At, client, worker
  <2> QED
    BY <1>0, <2>1, AdapterStays
<1>4. CASE StartWorker
  BY <1>0, <1>4, StatusTracked DEF StartWorker, At
<1>5. CASE Close
  <2>1. CASE sent' = sent
    BY <1>0, <1>5, <2>1, AdapterStays DEF Close, adapter
  <2>2. CASE sent' = Append(sent, Status)
    BY <1>0, <1>5, <2>2, StatusTracked DEF Close, At, adapter
  <2> QED
    BY <1>5, <2>1, <2>2 DEF Close
<1>6. CASE Decide
  <2>1. /\ UNCHANGED <<sent, read, outcome, answer, invocations, calls>> /\ clientPc = "idle" /\ clientPc' = "ask"
        /\ decision' = decision + 1 /\ attempt' = 0 /\ decision \in Int
    BY <1>6 DEF Decide, At, client, worker, ClientTyped, AdapterTyped
  <2>2. \A d \in Decisions : /\ ToBeSent(d)' = 0 /\ ToBeSent(d) = 0 /\ SentFor(d)' = SentFor(d)
                             /\ CallsOf(d)' = CallsOf(d) /\ (d > decision' => d > decision)
    BY <2>1 DEF ToBeSent, SentFor, Ids, CallsOf, Decisions
  <2>3. decision' \in Decisions /\ decision' > decision
    BY <1>6, <2>1, ClientAssumption DEF Decide, Decisions, ClientTyped, AdapterTyped
  <2>4. invocations[decision'] = 0 /\ SentFor(decision') = {} /\ outcome[decision'] = "none"
    BY <2>3 DEF CommandsTracked
  <2>5. invocations'[decision'] = 0 /\ SentFor(decision)' = {} /\ outcome'[decision'] = "none"
    BY <2>1, <2>3, <2>4 DEF SentFor, Ids
  <2>6. \A d \in Decisions :
          /\ Cardinality(SentFor(d)') + ToBeSent(d)' <= invocations'[d]
          /\ invocations'[d] <= MaxRetries + 1
          /\ d > decision' => invocations'[d] = 0 /\ SentFor(d)' = {}
          /\ d = decision' /\ clientPc' # "idle" => outcome'[d] = "none"
          /\ d > decision' => outcome'[d] = "none"
          /\ outcome'[d] = "answered" => answer'[d] \in CallsOf(d)'
          /\ outcome'[d] \in {"answered", "failed"} => SentFor(d)' \subseteq read'
          /\ \E i \in Nat : SentFor(d)' \ read' \subseteq {i}
    BY <2>1, <2>2, <2>5 DEF CommandsTracked
  <2>7. invocations'[decision'] <= attempt' + (IF clientPc' = "ask" THEN 0 ELSE 1)
    BY <2>1, <2>5
  <2> QED
    BY <2>1, <2>5, <2>6, <2>7 DEF CommandsTracked
<1>7. CASE Ask
  <2>1. /\ UNCHANGED <<sent, read, outcome, answer, calls, decision, attempt>> /\ clientPc = "ask" /\ clientPc' = "ensure"
        /\ invocations' = [invocations EXCEPT ![decision] = @ + 1]
    BY <1>7 DEF Ask, At, client, worker
  <2>2. decision \in Decisions /\ invocations \in [Decisions -> Nat] /\ attempt \in 0 .. MaxRetries
    BY <2>1, ClientAssumption DEF ClientTyped, AdapterTyped, Decisions
  <2>3. \A d \in Decisions : /\ ToBeSent(d)' = (IF d = decision THEN 1 ELSE 0) /\ ToBeSent(d) = 0
                             /\ SentFor(d)' = SentFor(d) /\ CallsOf(d)' = CallsOf(d)
                             /\ Cardinality(SentFor(d)) \in Nat
                             /\ invocations[d] \in Nat
                             /\ invocations'[d] = invocations[d] + ToBeSent(d)'
    <3>1. \A d \in Decisions : invocations'[d] = invocations[d] + (IF d = decision THEN 1 ELSE 0)
      BY <2>1, <2>2
    <3>2. \A d \in Decisions : ToBeSent(d)' = (IF d = decision THEN 1 ELSE 0) /\ ToBeSent(d) = 0
      BY <2>1 DEF ToBeSent
    <3>3. \A d \in Decisions : SentFor(d)' = SentFor(d) /\ CallsOf(d)' = CallsOf(d)
      BY <2>1 DEF SentFor, Ids, CallsOf
    <3> QED
      BY <2>2, <3>1, <3>2, <3>3, SentForFinite
  <2>4. invocations[decision] <= attempt
    BY <2>1, <2>2 DEF CommandsTracked
  <2>5. invocations'[decision] <= attempt + 1 /\ invocations'[decision] <= MaxRetries + 1
    BY <2>2, <2>3, <2>4, ClientAssumption
  <2>6. \A d \in Decisions :
          /\ Cardinality(SentFor(d)') + ToBeSent(d)' <= invocations'[d]
          /\ invocations'[d] <= MaxRetries + 1
          /\ d > decision' => invocations'[d] = 0 /\ SentFor(d)' = {}
    BY <2>1, <2>2, <2>3, <2>5 DEF CommandsTracked, Decisions
  <2>7. \A d \in Decisions :
          /\ d = decision' /\ clientPc' # "idle" => outcome'[d] = "none"
          /\ d > decision' => outcome'[d] = "none"
          /\ outcome'[d] = "answered" => answer'[d] \in CallsOf(d)'
          /\ outcome'[d] \in {"answered", "failed"} => SentFor(d)' \subseteq read'
          /\ \E i \in Nat : SentFor(d)' \ read' \subseteq {i}
    BY <2>1, <2>3 DEF CommandsTracked
  <2>8. SentFor(decision)' \subseteq read'
    BY <2>1, <2>2, <2>3 DEF CommandsTracked
  <2> QED
    BY <2>1, <2>5, <2>6, <2>7, <2>8 DEF CommandsTracked
<1>8. CASE CannotStart \/ NotReady \/ NotRunning
  <2>1. Fail /\ UNCHANGED <<sent, calls, read>> /\ clientPc \in {"ensure", "hello", "send"}
    BY <1>8 DEF CannotStart, NotReady, NotRunning, At, worker
  <2>2. SentFor(decision) \subseteq read
    BY <2>1 DEF CommandsTracked
  <2> QED
    BY <1>0, <2>1, <2>2, FailTracked
<1>9. CASE ReadNothing
  BY <1>0, <1>9, LossTracked DEF ReadNothing, Lose, At
<1>10. CASE Interrupt
  BY <1>0, <1>10, LossTracked DEF Interrupt
<1>11. CASE Send
  <2>1. /\ clientPc = "send" /\ clientPc' = "read" /\ sent' = Append(sent, decision)
        /\ UNCHANGED <<decision, attempt, outcome, invocations, answer, read, calls>>
    BY <1>11 DEF Send, At
  <2>2. SentFor(decision) \subseteq read /\ read \subseteq Ids /\ Len(sent) + 1 \notin Ids
        /\ invocations[decision] <= attempt + 1
    BY <2>1, RequestSent DEF CommandsTracked, ClientTyped, SentTyped, Ids
  <2>3. \A d \in Decisions :
          /\ d = decision' /\ clientPc' # "idle" => outcome'[d] = "none"
          /\ d > decision' => outcome'[d] = "none"
          /\ outcome'[d] = "answered" => answer'[d] \in CallsOf(d)'
          /\ outcome'[d] \in {"answered", "failed"} => SentFor(d)' \subseteq read'
    BY <2>1, RequestSent DEF CommandsTracked
  <2> QED
    BY <2>1, <2>2, <2>3, RequestSent DEF CommandsTracked
<1>12. CASE BreakPipe
  <2>1. /\ clientPc = "send" /\ clientPc' = "idle" /\ sent' = Append(sent, decision)
        /\ UNCHANGED <<decision, attempt, invocations, answer, read, calls>>
        /\ outcome' = [outcome EXCEPT ![decision] = "unknown"]
    BY <1>12 DEF BreakPipe, At, Lose, End
  <2>2. \A d \in Decisions : outcome'[d] = IF d = decision THEN "unknown" ELSE outcome[d]
    BY <2>1 DEF ClientTyped, AdapterTyped
  <2>3. \A d \in Decisions :
          /\ d > decision' => outcome'[d] = "none"
          /\ outcome'[d] = "answered" => answer'[d] \in CallsOf(d)'
          /\ outcome'[d] \in {"answered", "failed"} => SentFor(d)' \subseteq read'
    BY <2>1, <2>2, RequestSent DEF CommandsTracked, Decisions, ClientTyped, AdapterTyped
  <2> QED
    BY <2>1, <2>3, RequestSent DEF CommandsTracked
<1>13. CASE ReadResponse
  <2>1. /\ clientPc = "read" /\ UNCHANGED <<sent, calls>> /\ read' = read \cup {Line.id} /\ Matches
    BY <1>13 DEF ReadResponse, At
  <2>2. Line.id = Len(sent) /\ SentFor(decision) \subseteq read' /\ sent[Len(sent)] = decision
    BY <2>1, LineTaken DEF CommandsTracked
  <2>3. CASE Fail
    BY <1>0, <2>1, <2>2, <2>3, FailTracked
  <2>4. CASE /\ Line.says \in {"decision", "unpriced"} /\ End("answered")
             /\ answer' = [answer EXCEPT ![decision] = Line.id]
    <3>1. /\ clientPc' = "idle" /\ UNCHANGED <<decision, attempt, invocations>> /\ decision \in Decisions
      BY <2>1, <2>4, ClientAssumption DEF End, ClientTyped, AdapterTyped, Decisions
    <3>2. /\ \A d \in Decisions : outcome'[d] = IF d = decision THEN "answered" ELSE outcome[d]
          /\ \A d \in Decisions : answer'[d] = IF d = decision THEN Line.id ELSE answer[d]
      BY <2>4 DEF End, ClientTyped, AdapterTyped
    <3>3. Line.id \in calls
      BY <2>1, <2>4, LineTaken DEF PipesInOrder
    <3>4. Line.id \in CallsOf(decision)
      BY <2>2, <3>3 DEF CallsOf
    <3>5. \A d \in Decisions :
            /\ SentFor(d)' = SentFor(d) /\ CallsOf(d)' = CallsOf(d)
            /\ Cardinality(SentFor(d)') + ToBeSent(d)' <= invocations'[d]
            /\ invocations'[d] <= MaxRetries + 1
            /\ d > decision' => invocations'[d] = 0 /\ SentFor(d)' = {}
            /\ \E i \in Nat : SentFor(d)' \ read' \subseteq {i}
      <4>1. \A d \in Decisions : ToBeSent(d)' <= ToBeSent(d)
        BY <2>1, <3>1 DEF ToBeSent
      <4>2. \A d \in Decisions : SentFor(d)' = SentFor(d) /\ CallsOf(d)' = CallsOf(d)
        BY <2>1 DEF CallsOf, SentFor, Ids
      <4> QED
        BY <1>0, <2>1, <3>1, <4>1, <4>2, CommandsStay
    <3>6. \A d \in Decisions :
            /\ d > decision' => outcome'[d] = "none"
            /\ outcome'[d] = "answered" => answer'[d] \in CallsOf(d)'
            /\ outcome'[d] \in {"answered", "failed"} => SentFor(d)' \subseteq read'
      BY <2>1, <2>2, <3>1, <3>2, <3>4, <3>5 DEF CommandsTracked, Decisions
    <3> QED
      BY <3>1, <3>5, <3>6 DEF CommandsTracked
  <2> QED
    BY <1>13, <2>3, <2>4 DEF ReadResponse
<1> QED
  BY <1>1, <1>2, <1>3, <1>4, <1>5, <1>6, <1>7, <1>8, <1>9, <1>10, <1>11, <1>12, <1>13 DEF ClientNext, Client

\* Every step keeps the total over what was read, or gives it up.
LEMMA TotalStep ==
  ASSUME ClientTyped, PipesInOrder, CommandsTracked, TotalCovers, [ClientNext]_clientVars PROVE TotalCovers'
<1> DEFINE covered(i) == outcome[sent[i]] = "interrupted" \/ (clientPc = "read" /\ i = Len(sent))
<1>0. \A i \in Ids : sent[i] \in {Status} \cup Decisions
  BY DEF ClientTyped, SentTyped, Ids
<1>1. CASE total' = Null
  BY <1>1 DEF TotalCovers
<1>2. CASE UNCHANGED <<sent, read, total, calls \cap read>> /\ UNCHANGED outcome /\ (clientPc = "read" => clientPc' = clientPc)
  BY <1>2 DEF TotalCovers, Ids
<1>3. CASE UNCHANGED clientVars
  BY <1>2, <1>3 DEF clientVars, adapter, client, worker
<1>4. CASE Worker
  <2>1. UNCHANGED <<sent, read, total, outcome, clientPc>>
    BY <1>4 DEF Worker, Begin, ReportStatus, Request, Refuse, Respond, Chatter, Die, adapter, client
  <2>2. UNCHANGED (calls \cap read)
    <3>1. CASE Request
      <4>1. Head(inbox) \notin read
        BY <3>1, CommandTaken DEF Request, PipesInOrder
      <4> QED
        BY <2>1, <3>1, <4>1 DEF Request
    <3>2. CASE ~Request
      BY <1>4, <2>1, <3>2 DEF Worker, Begin, ReportStatus, Refuse, Respond, Chatter, Die
    <3> QED
      BY <3>1, <3>2
  <2> QED
    BY <1>2, <2>1, <2>2
<1>5. CASE Decide \/ Ask \/ HasWorker \/ Hello
  <2>1. UNCHANGED <<sent, read, total, outcome, calls>> /\ clientPc # "read"
    BY <1>5 DEF Decide, Ask, HasWorker, Hello, At, client, worker
  <2> QED
    BY <1>2, <2>1
<1>6. CASE NotRunning \/ BreakPipe \/ ReadNothing
  BY <1>1, <1>6 DEF NotRunning, BreakPipe, ReadNothing
<1>7. CASE StartWorker \/ Close
  <2>1. UNCHANGED <<read, total, outcome, calls>> /\ (sent' = sent \/ sent' = Append(sent, Status)) /\ clientPc # "read"
    BY <1>7 DEF StartWorker, Close, At, adapter
  <2>2. CASE sent' = sent
    BY <1>2, <2>1, <2>2
  <2>3. CASE sent' = Append(sent, Status)
    <3>1. Status \in {Status} \cup Decisions /\ Status \notin Decisions
      BY DEF Status, Decisions
    <3>2. \A i \in Ids' : (i \in Ids /\ sent'[i] = sent[i]) \/ sent'[i] = Status
      BY <2>3, <3>1, SentAppend
    <3> QED
      BY <2>1, <3>1, <3>2 DEF TotalCovers
  <2> QED
    BY <2>1, <2>2, <2>3
<1>8. CASE Send
  <2>1. UNCHANGED <<read, total, outcome, calls>> /\ sent' = Append(sent, decision) /\ clientPc = "send" /\ clientPc' = "read"
    BY <1>8 DEF Send, At
  <2>2. /\ \A i \in Ids' : (i \in Ids /\ sent'[i] = sent[i]) \/ i = Len(sent')
        /\ Len(sent') = Len(sent) + 1
    BY <2>1, Deciding, SentAppend
  <2> QED
    BY <2>1, <2>2 DEF TotalCovers
<1>9. CASE CannotStart \/ NotReady
  <2>1. UNCHANGED <<read, total, calls, sent>> /\ clientPc \in {"ensure", "hello"} /\ Fail
    BY <1>9 DEF CannotStart, NotReady, At
  <2>2. decision \in Decisions /\ outcome[decision] = "none"
    BY <2>1, ClientAssumption DEF ClientTyped, AdapterTyped, CommandsTracked, Decisions
  <2>3. \A d \in Decisions : outcome[d] = "interrupted" => outcome'[d] = outcome[d]
    BY <2>1, <2>2 DEF Fail, End, ClientTyped, AdapterTyped
  <2> QED
    BY <2>1, <2>3 DEF TotalCovers, Ids
<1>10. CASE Interrupt
  <2>1. /\ UNCHANGED <<read, total, calls, sent>> /\ clientPc # "idle"
        /\ outcome' = [outcome EXCEPT ![decision] = "interrupted"]
    BY <1>10 DEF Interrupt, End
  <2>2. decision \in Decisions /\ (clientPc = "read" => sent[Len(sent)] = decision)
    BY <2>1, ClientAssumption DEF ClientTyped, AdapterTyped, CommandsTracked, Decisions
  <2>3. /\ \A d \in Decisions : outcome[d] = "interrupted" => outcome'[d] = "interrupted"
        /\ outcome'[decision] = "interrupted"
    BY <2>1, <2>2 DEF ClientTyped, AdapterTyped
  <2> QED
    BY <2>1, <2>2, <2>3 DEF TotalCovers, Ids
<1>11. CASE ReadResponse
  <2>1. /\ UNCHANGED <<calls, sent>> /\ clientPc = "read" /\ Matches /\ read' = read \cup {Line.id}
        /\ Fail \/ End("answered")
        /\ total' = IF total = Null \/ Line.says \notin {"decision", "unparsed"} THEN Null ELSE total + 1
    BY <1>11 DEF ReadResponse, At
  <2>2. decision \in Decisions /\ outcome[decision] = "none" /\ Len(sent) \notin read
    BY <2>1, ClientAssumption DEF ClientTyped, AdapterTyped, CommandsTracked, Decisions
  <2>3. \A d \in Decisions : outcome[d] = "interrupted" => outcome'[d] = outcome[d]
    BY <2>1, <2>2 DEF Fail, End, ClientTyped, AdapterTyped
  <2>4. Line.id = Len(sent)
    BY <2>1, LineTaken
  <2>5. CASE total # Null /\ Line.says \in {"decision", "unparsed"}
    <3>1. Len(sent) \in calls
      BY <2>1, <2>4, <2>5, LineTaken DEF PipesInOrder
    <3>2. calls \cap read' = (calls \cap read) \cup {Len(sent)} /\ Len(sent) \notin calls \cap read
      BY <2>1, <2>2, <2>4, <3>1
    <3>3. IsFiniteSet(calls \cap read)
      <4>1. Len(sent) \in Nat /\ calls \cap read \subseteq Ids
        BY DEF ClientTyped, SentTyped
      <4>2. IsFiniteSet(Ids)
        BY <4>1, FS_Interval DEF Ids
      <4> QED
        BY <4>1, <4>2, FS_Subset
    <3>4. Cardinality((calls \cap read) \cup {Len(sent)}) = Cardinality(calls \cap read) + 1
      BY <3>2, <3>3, FS_AddElement
    <3>5. total = Cardinality(calls \cap read)
      BY <2>5 DEF TotalCovers
    <3>6. total' = Cardinality(calls' \cap read')
      BY <2>1, <2>5, <3>2, <3>4, <3>5
    <3>7. \A i \in Ids' \ read' : sent'[i] \in Decisions => outcome'[sent'[i]] = "interrupted"
      BY <2>1, <2>3, <2>4, <2>5 DEF TotalCovers, Ids
    <3> QED
      BY <3>6, <3>7 DEF TotalCovers
  <2> QED
    BY <1>1, <2>1, <2>5
<1> QED
  BY <1>3, <1>4, <1>5, <1>6, <1>7, <1>8, <1>9, <1>10, <1>11 DEF ClientNext, Client

\* The four hold from the first state on.
THEOREM ClientInductive == ClientSpec => []ClientInv
<1>1. ClientInit => ClientInv
  <2> SUFFICES ASSUME ClientInit PROVE ClientInv
    OBVIOUS
  <2>1. ClientTyped
    BY ClientInitTyped
  <2>2. /\ sent = <<Status>> /\ Ids = {1} /\ sent[1] = Status /\ calls = {} /\ read = {} /\ busy = NoId
        /\ DOMAIN inbox = {} /\ DOMAIN outbox = {} /\ Status \notin Decisions
    BY DEF ClientInit, Ids, Status, Decisions
  <2>3. \A d \in Decisions : SentFor(d) = {} /\ CallsOf(d) = {} /\ ToBeSent(d) = 0
    BY <2>2 DEF SentFor, CallsOf, ToBeSent, ClientInit
  <2>4. PipesInOrder
    BY <2>2 DEF PipesInOrder, Awaited
  <2>5. CommandsTracked
    <3>1. \A d \in Decisions :
            /\ outcome[d] = "none" /\ invocations[d] = 0 /\ d > decision
            /\ Cardinality(SentFor(d)) = 0 /\ SentFor(d) \ read \subseteq {0}
      <4>1. \A d \in Decisions : outcome[d] = "none" /\ invocations[d] = 0 /\ d > decision
        BY ClientAssumption DEF ClientInit, Decisions
      <4>2. Cardinality({}) = 0
        BY FS_EmptySet
      <4>3. \A d \in Decisions : Cardinality(SentFor(d)) = 0
        BY <2>3, <4>2, Zenon
      <4> QED
        BY <2>3, <4>1, <4>3
    <3>2. clientPc = "idle" /\ 0 <= MaxRetries + 1
      BY ClientAssumption DEF ClientInit
    <3> QED
      BY <2>3, <3>1, <3>2 DEF CommandsTracked
  <2>6. TotalCovers
    <3>1. calls \cap read = {} /\ total = 0
      BY <2>2 DEF ClientInit
    <3> QED
      BY <2>2, <3>1, FS_EmptySet DEF TotalCovers
  <2> QED
    BY <2>1, <2>4, <2>5, <2>6 DEF ClientInv
<1>2. ClientInv /\ [ClientNext]_clientVars => ClientInv'
  <2> SUFFICES ASSUME ClientInv, [ClientNext]_clientVars PROVE ClientInv'
    OBVIOUS
  <2>1. ClientTyped /\ PipesInOrder /\ CommandsTracked /\ TotalCovers
    BY DEF ClientInv
  <2>2. ClientTyped'
    BY <2>1, AdapterTypedStep, SentTypedStep, PipesTypedStep DEF ClientTyped
  <2> QED
    BY <2>1, <2>2, PipesStep, CommandsStep, TotalStep DEF ClientInv
<1> QED
  BY <1>1, <1>2, PTL DEF ClientSpec

\* Of the invariant that the calls of a decision, those that were read, and the total
\* agree.
LEMMA CallsAreAccounted == ClientInv => CallsAccounted
<1> SUFFICES ASSUME ClientTyped, PipesInOrder, CommandsTracked, TotalCovers PROVE CallsAccounted
  BY DEF ClientInv
<1>1. \A d \in Decisions : CallsOf(d) \subseteq SentFor(d)
  BY DEF CallsOf, SentFor, ClientTyped, SentTyped
<1>2. ASSUME NEW d \in Decisions
      PROVE  /\ outcome[d] = "answered" => answer[d] \in CallsOf(d)
             /\ Cardinality(CallsOf(d)) <= invocations[d] /\ invocations[d] <= MaxRetries + 1
             /\ outcome[d] \in {"answered", "failed"} => CallsOf(d) \subseteq read
             /\ Cardinality(CallsOf(d) \ read) <= 1
  <2>1. IsFiniteSet(SentFor(d)) /\ Cardinality(SentFor(d)) \in Nat
    BY SentForFinite
  <2>2. Cardinality(CallsOf(d)) <= Cardinality(SentFor(d)) /\ Cardinality(CallsOf(d)) \in Nat
    <3>1. IsFiniteSet(CallsOf(d)) /\ Cardinality(CallsOf(d)) <= Cardinality(SentFor(d))
      BY <1>1, <2>1, FS_Subset
    <3> QED
      BY <3>1, FS_CardinalityType
  <2>3. ToBeSent(d) \in Nat /\ invocations[d] \in Nat
    BY DEF ToBeSent, ClientTyped, AdapterTyped
  <2>4. Cardinality(SentFor(d)) + ToBeSent(d) <= invocations[d]
    BY DEF CommandsTracked
  <2>5. Cardinality(CallsOf(d)) <= invocations[d]
    BY <2>1, <2>2, <2>3, <2>4
  <2>6. PICK i \in Nat : SentFor(d) \ read \subseteq {i}
    BY DEF CommandsTracked
  <2>7. CallsOf(d) \ read \subseteq {i}
    BY <1>1, <2>6
  <2>8. IsFiniteSet({i}) /\ Cardinality({i}) = 1
    BY FS_Singleton
  <2>9. Cardinality(CallsOf(d) \ read) <= Cardinality({i})
    BY <2>7, <2>8, FS_Subset
  <2>10. Cardinality(CallsOf(d) \ read) <= 1
    BY <2>8, <2>9
  <2> QED
    BY <1>1, <2>5, <2>10 DEF CommandsTracked
<1>3. At("idle") /\ total # Null =>
       /\ total = Cardinality(calls \cap read)
       /\ \A i \in calls \ read : outcome[sent[i]] = "interrupted"
  BY DEF At, TotalCovers, PipesInOrder, ClientTyped, SentTyped
<1> QED
  BY <1>2, <1>3 DEF CallsAccounted

\* However workers die, hang, chatter or answer late, every call of a decision is
\* accounted for.
THEOREM CallsAlwaysAccounted == ClientSpec => []CallsAccounted
BY ClientInductive, CallsAreAccounted, PTL

=============================================================================
