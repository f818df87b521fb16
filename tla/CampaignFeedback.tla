-------------------------- MODULE CampaignFeedback --------------------------
(***************************************************************************)
(* What a concurrent message campaign promises, with no journal, no files  *)
(* and no crash: batch after batch takes effect as a whole, each computed  *)
(* from the feedback of the batches before it and of no other, and the     *)
(* result is published once, after the last batch.                         *)
(***************************************************************************)
EXTENDS CampaignData

VARIABLES
  batches,     \* the set of batches that took effect
  published    \* whether the campaign's output has been published

vars == <<batches, published>>

Engaged(bs)  == UNION {b.committed : b \in bs}
Exposed(bs)  == UNION {Delivered(b.plan) : b \in bs}
TimeSteps(bs) == {b.t : b \in bs}

\* Every batch that may follow the batches bs.
NextBatches(bs) ==
  UNION {{[t         |-> t,
           frozen    |-> Engaged(bs),
           plan      |-> plan,
           results   |-> results,
           committed |-> Positives(plan, results)] :
             results \in [1 .. Len(plan) -> Answers]} :
         t \in {s \in 0 .. Horizon - 1 : TimeSteps(bs) = 0 .. s - 1},
         plan \in Plans(Exposed(bs))}

Init ==
  /\ batches = {}
  /\ published = FALSE

CommitBatch ==
  /\ ~published
  /\ \E b \in NextBatches(batches) : batches' = batches \cup {b}
  /\ UNCHANGED published

Publish ==
  /\ TimeSteps(batches) = 0 .. Horizon - 1
  /\ published' = TRUE
  /\ UNCHANGED batches

Next == CommitBatch \/ Publish

Spec == Init /\ [][Next]_vars
=============================================================================
