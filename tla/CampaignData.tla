---------------------------- MODULE CampaignData ----------------------------
(***************************************************************************)
(* The data of a concurrent message campaign, shared by its promise        *)
(* (CampaignFeedback) and by the durable runtime that keeps it             *)
(* (ConcurrentRuntime): the pairs a batch delivers, the outcomes of a      *)
(* pair's decision variants and the users whose Primary answer is          *)
(* positive.  No state.                                                    *)
(***************************************************************************)
EXTENDS Integers, Sequences, FiniteSets

CONSTANTS
  Users,          \* the prepared research cohort
  MessageCount,   \* messages compete in this many lanes, in configured order
  Capacity,       \* delivery_capacity: deliveries per message and batch
  Horizon,        \* number of batches
  Variants,       \* terminal contract: <<"primary", "shadow">> or <<"primary">>
  Outcomes        \* what a decision variant can end in, "positive" among them

ASSUME UsersAssumption    == IsFiniteSet(Users)
ASSUME CountsAssumption   == MessageCount \in Nat /\ Capacity \in Nat
ASSUME HorizonAssumption  == Horizon \in Nat \ {0}
ASSUME VariantsAssumption == Variants \in {<<"primary", "shadow">>, <<"primary">>}
ASSUME OutcomesAssumption == "positive" \in Outcomes

Messages == 1 .. MessageCount
Pairs    == Messages \X Users
User(p)  == p[2]

\* the pairs a plan, a sequence of pairs, delivers
Delivered(plan) == {plan[i] : i \in 1 .. Len(plan)}

\* The users of message m who have not seen it yet.
Eligible(m, exposed) == {u \in Users : <<m, u>> \notin exposed}

Fewest(a, b) == IF a <= b THEN a ELSE b

\* Every plan a batch may have when the pairs in exposed have been delivered:
\* message by message, nobody twice, each message filled up to its capacity.
\* The order inside a message is the ranking's, left open here.
Plans(exposed) ==
  {plan \in UNION {[1 .. n -> Pairs] : n \in 0 .. MessageCount * Capacity} :
     /\ \A i, j \in DOMAIN plan : i < j => /\ plan[i] # plan[j]
                                           /\ plan[i][1] <= plan[j][1]
     /\ Delivered(plan) \cap exposed = {}
     /\ \A m \in Messages :
          Cardinality({i \in DOMAIN plan : plan[i][1] = m})
            = Fewest(Capacity, Cardinality(Eligible(m, exposed)))}

\* One outcome per decision variant, in the contract's order.
Answers == [1 .. Len(Variants) -> Outcomes]

\* The users a batch adds to the campaign feedback: those whose *Primary*
\* terminal, the first of the contract, is a positive action.
Positives(plan, results) ==
  {User(plan[i]) : i \in {j \in 1 .. Len(results) : results[j][1] = "positive"}}
=============================================================================
