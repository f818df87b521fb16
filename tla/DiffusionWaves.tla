---------------------------- MODULE DiffusionWaves ----------------------------
(***************************************************************************)
(* What the agent-based simulation promises of a post's diffusion: it goes *)
(* in waves.  In each step some of the users who saw the post before that  *)
(* step engage with it, and some of the neighbours of everyone engaged see *)
(* it for the first time, one hop further than the neighbour who showed it *)
(* to them, to decide from the next step on.                               *)
(* Source: what run and step of model.py do in one time step.              *)
(***************************************************************************)
EXTENDS Integers

CONSTANTS
  Users,
  Horizon      \* config.horizon

VARIABLES
  graph,       \* of each user, those who see what it engages with
  time,        \* steps that are over
  exposed,     \* who has seen the post
  engaged,     \* who has engaged with it
  depth        \* hops between a user and the seeds; -1 of one who has not seen it

vars == <<graph, time, exposed, engaged, depth>>

Init ==
  /\ graph \in [Users -> SUBSET Users]
  /\ time = 0 /\ engaged = {}
  /\ exposed \in SUBSET Users
  /\ depth = [u \in Users |-> IF u \in exposed THEN 0 ELSE -1]

Wave ==
  /\ time < Horizon
  /\ time' = time + 1 /\ graph' = graph
  /\ \E acting \in SUBSET (exposed \ engaged) : engaged' = engaged \cup acting
  /\ exposed \subseteq exposed'
  /\ \A u \in exposed' \ exposed :
       \E s \in engaged' : u \in graph[s] /\ depth'[u] = depth[s] + 1
  /\ depth' \in [Users -> -1 .. Horizon]
  /\ \A u \in Users : u \in exposed \/ u \notin exposed' => depth'[u] = depth[u]

Next == Wave

Spec == Init /\ [][Next]_vars
=============================================================================
