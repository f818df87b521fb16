------------------------------- MODULE Simulation -------------------------------
(***************************************************************************)
(* The agent-based simulation: a post is shown to the seeds, then in every *)
(* time step each exposed agent that has not engaged yet is asked, one     *)
(* after the other in the order of their ids, what it does, its action is  *)
(* seen by those asked after it, and when all were asked the post reaches  *)
(* some neighbours of the engaged.  A step ends with its record; a run     *)
(* ends with the summary of all records, or with none when a decision      *)
(* cannot be had.                                                          *)
(* Source: model.py, environment.py, agent.py, metrics.py.                 *)
(*                                                                         *)
(* Left out: scores and probabilities - any action can be chosen, and any  *)
(* candidate reached or not -, the peer context they are computed from,    *)
(* the traces and the decision cache, whose key has the time step and the  *)
(* user, so that within a run it never hits.                               *)
(***************************************************************************)
EXTENDS SequencesExt, FiniteSetsExt, SumOver

CONSTANTS
  Population,   \* how many agents; each has a node of the graph
  Horizon,      \* config.horizon
  Directed      \* dataset.directed

ASSUME SimulationAssumption ==
  Population \in Nat \ {0} /\ Horizon \in Nat \ {0} /\ Directed \in BOOLEAN

Users   == 1 .. Population      \* in the order of their ids
Actions == {"like", "comment", "share"}
Nobody  == 0

\* (A loop would show the post to someone who has seen it.)
Networks ==
  {g \in [Users -> SUBSET Users] :
     \A u, v \in Users : v \in g[u] => u # v /\ (Directed \/ u \in g[v])}

VARIABLES
  graph, seeds,    \* the dataset
  pc, step, turn,
  \* --- the environment ---
  exposed,         \* exposed_users
  engaged,         \* engaged_users
  traces,          \* interaction_traces: of each user the action, or "none"
  depths,          \* exposure_depths; -1 of a user who is not exposed
  \* --- the agents ---
  asking,          \* agent.exposed
  settled,         \* agent.engaged
  \* --- the step and its records ---
  before,          \* previous_exposed, previous_engaged
  events,          \* the events of the step
  records,         \* step_records
  result           \* metrics_summary

vars == <<graph, seeds, pc, step, turn, exposed, engaged, traces, depths, asking, settled,
          before, events, records, result>>

None     == "none"
NoEvents == [exposures |-> {}, decisions |-> {}, actions |-> {}]

Init ==
  /\ graph \in Networks /\ seeds \in SUBSET Users
  /\ pc = "seed" /\ step = 0 /\ turn = 1
  /\ exposed = {} /\ engaged = {}
  /\ traces = [u \in Users |-> None] /\ depths = [u \in Users |-> -1]
  /\ asking = {} /\ settled = {}
  /\ before = <<0, 0>> /\ events = NoEvents /\ records = <<>> /\ result = <<>>

Goto(l) == pc = l

\* seed_exposure, and run up to its loop; the seeds are events of the first step.
Exposure(u, source, d) == [user |-> u, source |-> source, depth |-> d]

SeedExposure ==
  /\ Goto("seed")
  /\ exposed' = seeds /\ asking' = seeds
  /\ depths' = [u \in Users |-> IF u \in seeds THEN 0 ELSE -1]
  /\ events' = [NoEvents EXCEPT !.exposures = {Exposure(u, Nobody, 0) : u \in seeds}]
  /\ pc' = "begin"
  /\ UNCHANGED <<graph, seeds, step, turn, engaged, traces, settled, before, records, result>>

Counts == <<Cardinality(exposed), Cardinality(engaged)>>

BeginStep ==
  /\ Goto("begin") /\ step < Horizon
  /\ before' = Counts /\ turn' = 1
  /\ pc' = "agents"
  /\ UNCHANGED <<graph, seeds, step, exposed, engaged, traces, depths, asking, settled, events,
                 records, result>>

-----------------------------------------------------------------------------
\* SocialUserAgent.step for the agent whose turn it is.

Asked(u) == u \in asking /\ u \notin settled

PassOver ==
  /\ Goto("agents") /\ turn \in Users /\ ~Asked(turn)
  /\ turn' = turn + 1
  /\ UNCHANGED <<graph, seeds, pc, step, exposed, engaged, traces, depths, asking, settled,
                 before, events, records, result>>

\* A user who ignores the post is asked again in the next step.
Ignore ==
  /\ Goto("agents") /\ turn \in Users /\ Asked(turn)
  /\ events' = [events EXCEPT !.decisions = @ \cup {turn}]
  /\ traces' = [traces EXCEPT ![turn] = "ignore"]
  /\ turn' = turn + 1
  /\ UNCHANGED <<graph, seeds, pc, step, exposed, engaged, depths, asking, settled, before,
                 records, result>>

Engage(action) ==
  /\ Goto("agents") /\ turn \in Users /\ Asked(turn)
  /\ engaged' = engaged \cup {turn} /\ settled' = settled \cup {turn}
  /\ traces' = [traces EXCEPT ![turn] = action]
  /\ events' = [events EXCEPT
       !.decisions = @ \cup {turn},
       !.actions   = @ \cup {[user |-> turn, action |-> action, depth |-> depths[turn]]}]
  /\ turn' = turn + 1
  /\ UNCHANGED <<graph, seeds, pc, step, exposed, depths, asking, before, records, result>>

\* A decision adapter that raises ends the run, which then leaves nothing.
Raise ==
  /\ Goto("agents") /\ turn \in Users /\ Asked(turn)
  /\ pc' = "aborted"
  /\ UNCHANGED <<graph, seeds, step, turn, exposed, engaged, traces, depths, asking, settled,
                 before, events, records, result>>

-----------------------------------------------------------------------------
\* update_exposure: who could see the post, and through whom.

\* (Mutant: whoever has seen the post passes it on.)
EveryExposed == exposed
Sources      == engaged \cup {u \in Users : traces[u] = "share"}

Shown(u)   == {s \in Sources : u \in graph[s]}
Candidates == {u \in Users \ exposed : Shown(u) # {}}
Reached(u) == Exposure(u, Min(Shown(u)), depths[Min(Shown(u))] + 1)

UpdateExposure ==
  /\ Goto("agents") /\ turn \notin Users
  /\ \E drawn \in SUBSET Candidates :
       /\ exposed' = exposed \cup drawn /\ asking' = asking \cup drawn
       /\ depths' = [u \in Users |-> IF u \in drawn THEN Reached(u).depth ELSE depths[u]]
       /\ events' = [events EXCEPT !.exposures = @ \cup {Reached(u) : u \in drawn}]
  /\ pc' = "record"
  /\ UNCHANGED <<graph, seeds, step, turn, engaged, traces, settled, before, records, result>>

\* MetricsCollector.record.  (Mutant: what is new is counted from the last record.)
SinceRecord == IF records = <<>> THEN <<0, 0>> ELSE <<Last(records).exposed, Last(records).engaged>>
Previous    == before

Record ==
  /\ Goto("record")
  /\ records' = Append(records,
       [exposed |-> Counts[1], engaged |-> Counts[2],
        newExposed |-> Counts[1] - Previous[1], newEngaged |-> Counts[2] - Previous[2],
        events |-> events])
  /\ events' = NoEvents
  /\ step' = step + 1 /\ pc' = "begin"
  /\ UNCHANGED <<graph, seeds, turn, exposed, engaged, traces, depths, asking, settled, before,
                 result>>

Over(f)   == UNION {records[i].events[f] : i \in DOMAIN records}
Did(a)    == {e \in Over("actions") : e.action = a}
Deepest   == Max({0} \cup {e.depth : e \in Over("exposures")})
Total(f)  == Sum([i \in DOMAIN records |-> records[i][f]], DOMAIN records)

\* MetricsCollector.summary.
Summarise ==
  /\ Goto("begin") /\ step = Horizon
  /\ result' = [exposed |-> Last(records).exposed, engaged |-> Last(records).engaged,
                spread |-> Total("newExposed"), converted |-> Total("newEngaged"),
                depth |-> Deepest,
                likes |-> Cardinality(Did("like")), comments |-> Cardinality(Did("comment")),
                shares |-> Cardinality(Did("share")),
                influencers |-> {e.source : e \in Over("exposures")} \ {Nobody}]
  /\ pc' = "done"
  /\ UNCHANGED <<graph, seeds, step, turn, exposed, engaged, traces, depths, asking, settled,
                 before, events, records>>

Next ==
  \/ SeedExposure \/ BeginStep \/ PassOver \/ Ignore \/ (\E a \in Actions : Engage(a)) \/ Raise
  \/ UpdateExposure \/ Record \/ Summarise

Spec == Init /\ [][Next]_vars

-----------------------------------------------------------------------------
\* The summary of a run tells what its events say, and they tell the same as the
\* network in the end: each user but the seeds came to the post in one recorded wave, the
\* spread leaves out the seeds and nothing else, each engaged user acted once and after
\* having been shown the post, no hop was taken faster than one per step, whoever
\* influenced someone had engaged, and nobody exposed and not engaged was left unasked.
SummaryTellsEvents ==
  Goto("done") =>
    /\ result.exposed = Cardinality(exposed) /\ result.spread = result.exposed - Cardinality(seeds)
    /\ result.engaged = Cardinality(engaged)
    /\ result.engaged = result.converted
    /\ result.engaged = result.likes + result.comments + result.shares
    /\ Cardinality(Over("exposures")) = result.exposed
    /\ result.influencers \subseteq engaged
    /\ \A i \in DOMAIN records :
         LET seen  == {e.user : e \in UNION {records[j].events.exposures : j \in 1 .. i - 1}}
             acted == {e.user : e \in UNION {records[j].events.actions : j \in 1 .. i - 1}}
         IN  /\ records[i].events.decisions = (seen \cup seeds) \ acted
             /\ \A e \in records[i].events.exposures : e.depth <= i

\* The turns of a step make one wave: with the network as the last record leaves it,
\* whatever was decided in whatever order, the diffusion goes as DiffusionWaves says.
Shared(f)   == {e.user : e \in Over(f)}
DepthIn(u)  == IF u \in seeds THEN 0
               ELSE IF u \in Shared("exposures")
                    THEN (CHOOSE e \in Over("exposures") : e.user = u).depth
                    ELSE -1
Waves == INSTANCE DiffusionWaves WITH
  time       <- Len(records),
  exposed    <- seeds \cup Shared("exposures"),
  engaged    <- Shared("actions"),
  depth      <- [u \in Users |-> DepthIn(u)]
GoesInWaves == Waves!Spec
=============================================================================
