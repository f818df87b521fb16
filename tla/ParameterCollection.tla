------------------------- MODULE ParameterCollection -------------------------
(***************************************************************************)
(* The fixed judgment bank of the parameter study: up to five transports   *)
(* collect the missing pairs in parallel, one writer appends an intent     *)
(* before each call and a settlement after it, the closed bank and its     *)
(* closure are published, and the paths and the report are built over      *)
(* them.  A process may be killed between any two writes; the next one     *)
(* reads the ledger back.                                                  *)
(* Source: _parameter_collection.py, and the entries of _parameter_        *)
(* judgment_bank.py, _parameter_study.py and _parameter_evidence.py.       *)
(*                                                                         *)
(* Left out: hashes and identities, costs, what a path computes, and the   *)
(* single-writer lock, for which one process at a time stands.             *)
(***************************************************************************)
EXTENDS Integers, SequencesExt, FiniteSetsExt, SumOver, InOrder

CONSTANTS
  Missing,         \* how many pairs the prepared bank misses (1200)
  Transports,      \* maximum_concurrency of the authorization (5)
  GlobalRetries,   \* caps['global_retries'] (60)
  PairAttempts,    \* caps['pair_retries'] and the first attempt (3)
  PathCount,       \* configurations times seeds (2100)
  MaxKills,        \* bound: kills in one behaviour
  MaxReruns        \* bound: collections and paths run again, and partial path runs

ASSUME CollectionAssumption ==
  /\ {Missing, Transports, PairAttempts, PathCount} \subseteq Nat \ {0}
  /\ {GlobalRetries, MaxKills, MaxReruns} \subseteq Nat

BankPairs      == 1 .. Missing
Qualification  == 0              \* the self-check, which is nobody's pair
Attempted      == BankPairs \cup {Qualification}
Qualifications == 2
PhysicalCap    == Missing + GlobalRetries + Qualifications

VARIABLES
  \* --- on disk ---
  prepared,      \* the prepared bank
  authorized,    \* concurrency-authorization.json
  attemptLedger, \* attempts.jsonl
  ledgerText,    \* "whole", "bare" (its last newline is missing) or "corrupt" (a line does not parse)
  bank,          \* closed-bank.jsonl: of each pair, the settlement it comes from
  closure,       \* closure.json
  study,         \* study.json: the closure the paths are drawn from
  paths,         \* how many paths are published
  report,        \* "none", "paths" (path-manifest.json), "partial" or "complete"
  \* --- in the process ---
  collectionPc,
  clients,       \* transports it was given
  queue,
  jobs,          \* of each intent in flight: "submitted", or how its call ended
  done,          \* completions observed by the last wait
  retry,         \* retry_rows
  failure,
  attempts,      \* attempts_by_pair, and the qualifications among the intents
  retries,
  \* --- in the world, and bounds ---
  callsMade,
  kills,
  reruns

disk           == <<prepared, authorized, attemptLedger, ledgerText, bank, closure, study, paths, report>>
memory         == <<clients, queue, jobs, done, retry, failure, attempts, retries>>
collectionVars == <<disk, collectionPc, memory, callsMade, kills, reruns>>

None == [status |-> "none"]

Outcomes(p) == {"succeeded", "nonretryable_failure", "unknown"}
                 \cup (IF p = Qualification THEN {} ELSE {"retryable_failure"})

-----------------------------------------------------------------------------
\* The ledger is kept as what its reader makes of it: _state, with the in-flight
\* count of validate_collection.  Settlements of an intent that is not pending,
\* intents of a pair that is in flight or accepted, and any after a stop do not read.

Empty ==
  [events |-> 0, pending |-> {}, attempts |-> [p \in Attempted |-> 0],
   settled |-> [p \in Attempted |-> 0], source |-> [p \in BankPairs |-> 0],
   qualified |-> FALSE, stopped |-> FALSE, reads |-> TRUE, bounded |-> TRUE]

Accepted == {p \in BankPairs : attemptLedger.source[p] > 0}

AppendIntent(p) ==
  LET pending == attemptLedger.pending \cup {[intent |-> attemptLedger.events + 1, pair |-> p]}
  IN  attemptLedger' = [attemptLedger EXCEPT
        !.events = @ + 1, !.pending = pending, !.attempts[p] = @ + 1,
        !.reads = @ /\ ~attemptLedger.stopped /\ p \notin Accepted
                    /\ \A x \in attemptLedger.pending : x.pair # p,
        !.bounded = @ /\ Cardinality(pending) <= IF authorized THEN Transports ELSE 1]

AppendSettled(i, p, outcome) ==
  attemptLedger' = [attemptLedger EXCEPT
    !.events = @ + 1, !.settled[p] = @ + 1,
    !.pending = {x \in @ : x.intent # i},
    !.reads = @ /\ (\E x \in attemptLedger.pending : x.intent = i)
                /\ (outcome = "succeeded" => p \notin Accepted),
    !.source = IF outcome = "succeeded" /\ p \in BankPairs
               THEN [@ EXCEPT ![p] = attemptLedger.events + 1] ELSE @,
    !.qualified = @ \/ (outcome = "succeeded" /\ p = Qualification),
    !.stopped = @ \/ outcome \in {"nonretryable_failure", "unknown"}]

\* (Mutant: an intent without its settlement is taken for one that was not sent.)
OpenDespitePending == ledgerText # "corrupt" /\ attemptLedger.reads /\ ~attemptLedger.stopped
Readable ==
  /\ ledgerText # "corrupt"
  /\ attemptLedger.reads /\ attemptLedger.pending = {} /\ ~attemptLedger.stopped

Retried(n) == Sum([p \in BankPairs |-> IF n[p] > 1 THEN n[p] - 1 ELSE 0], BankPairs)
Total(n)   == Sum(n, Attempted)

\* validate_collection: what a closure has to be, recomputed from the ledger and from
\* the authorization there is by now.
EvidenceAccepts ==
  /\ Readable /\ attemptLedger.bounded /\ attemptLedger.qualified /\ Accepted = BankPairs
  /\ Total(attemptLedger.attempts) <= PhysicalCap
  /\ attemptLedger.attempts[Qualification] <= Qualifications
  /\ Retried(attemptLedger.attempts) <= GlobalRetries
  /\ \A p \in BankPairs : attemptLedger.attempts[p] <= PairAttempts
  /\ bank = attemptLedger.source
  /\ closure = [status |-> "complete", bank |-> bank, events |-> attemptLedger.events,
                physical |-> Total(attemptLedger.attempts), retries |-> Retried(attemptLedger.attempts),
                qualifications |-> attemptLedger.attempts[Qualification],
                authorization |-> authorized]

\* The closure is one made under the authorization there is.
ClosedAsAuthorized == closure # None /\ closure.authorization = authorized

-----------------------------------------------------------------------------
CollectionInit ==
  /\ prepared = FALSE /\ authorized = FALSE
  /\ attemptLedger = Empty /\ ledgerText = "whole" /\ bank = [p \in BankPairs |-> 0] /\ closure = None
  /\ study = None /\ paths = 0 /\ report = "none"
  /\ collectionPc = "down" /\ clients = 1 /\ queue = <<>> /\ jobs = <<>> /\ done = {} /\ retry = <<>>
  /\ failure = FALSE /\ attempts = [p \in Attempted |-> 0] /\ retries = 0
  /\ callsMade = [p \in Attempted |-> 0] /\ kills = 0 /\ reruns = 0

MoveTo(l) == collectionPc' = l
World     == UNCHANGED <<callsMade, kills, reruns>>

\* Staged aside and renamed.
PrepareBank ==
  /\ collectionPc = "down" /\ ~prepared
  /\ prepared' = TRUE
  /\ UNCHANGED <<authorized, attemptLedger, ledgerText, bank, closure, study, paths, report,
                 collectionPc, memory>>
  /\ World

\* The operator writes the authorization, whether a process runs or not, and be the
\* collection closed already.
Authorize ==
  /\ prepared /\ ~authorized
  /\ authorized' = TRUE
  /\ UNCHANGED <<prepared, attemptLedger, ledgerText, bank, closure, study, paths, report,
                 collectionPc, memory>>
  /\ World

\* The counters of a new process are those of the ledger.  A closure made before the
\* authorization can be made again.  (Mutant: the counters start at zero.)
StartedAtZero == [p \in Attempted |-> 0]
Rebuilt       == attemptLedger.attempts

Collect ==
  /\ collectionPc = "down" /\ prepared /\ Readable
  /\ ClosedAsAuthorized => reruns < MaxReruns
  /\ reruns' = reruns + (IF ClosedAsAuthorized THEN 1 ELSE 0)
  /\ clients' \in 1 .. (IF authorized THEN Transports ELSE 1)
  /\ queue' = InOrder(BankPairs \ Accepted)
  /\ jobs' = <<>> /\ done' = {} /\ retry' = <<>> /\ failure' = FALSE
  /\ attempts' = Rebuilt /\ retries' = Retried(Rebuilt)
  /\ MoveTo(IF attemptLedger.qualified THEN "fill" ELSE "qualify")
  /\ UNCHANGED <<disk, callsMade, kills>>

-----------------------------------------------------------------------------
\* One attempt: reserve, execute, settle.

CapReached(p) ==
  \/ Total(attempts) >= PhysicalCap
  \/ p = Qualification /\ attempts[p] >= Qualifications
  \/ p \in BankPairs /\ (attempts[p] >= PairAttempts \/ (attempts[p] > 0 /\ retries >= GlobalRetries))

\* A line appended to one without its newline is glued to it.
Glued           == ledgerText' = IF ledgerText = "whole" THEN "whole" ELSE "corrupt"
OthersUnchanged == UNCHANGED <<prepared, authorized, bank, closure, study, paths, report>>

ReserveIntent(p) ==
  /\ AppendIntent(p) /\ Glued /\ OthersUnchanged
  /\ jobs' = [i \in DOMAIN jobs \cup {attemptLedger.events + 1} |->
                IF i \in DOMAIN jobs THEN jobs[i] ELSE [pair |-> p, status |-> "submitted"]]
  /\ attempts' = [attempts EXCEPT ![p] = @ + 1]
  /\ retries' = retries + (IF p \in BankPairs /\ attempts[p] > 0 THEN 1 ELSE 0)

\* execute, in the thread of its transport.
Execute(i) ==
  /\ collectionPc # "down" /\ jobs[i].status = "submitted"
  /\ \E outcome \in Outcomes(jobs[i].pair) : jobs' = [jobs EXCEPT ![i].status = outcome]
  /\ callsMade' = [callsMade EXCEPT ![jobs[i].pair] = @ + 1]
  /\ UNCHANGED <<disk, collectionPc, clients, queue, done, retry, failure, attempts, retries,
                 kills, reruns>>

Settled(i) ==
  /\ AppendSettled(i, jobs[i].pair, jobs[i].status) /\ Glued /\ OthersUnchanged
  /\ jobs' = [j \in DOMAIN jobs \ {i} |-> jobs[j]]

\* The qualification is alone, and anything but its success ends the process.
Qualify ==
  /\ collectionPc = "qualify"
  /\ IF CapReached(Qualification)
       THEN MoveTo("down") /\ UNCHANGED <<disk, jobs, attempts, retries>>
       ELSE MoveTo("qualifying") /\ ReserveIntent(Qualification)
  /\ UNCHANGED <<clients, queue, done, retry, failure>> /\ World

SettleQualification ==
  /\ collectionPc = "qualifying"
  /\ \E i \in DOMAIN jobs :
       /\ jobs[i].status # "submitted"
       /\ Settled(i)
       /\ MoveTo(IF jobs[i].status = "succeeded" THEN "fill" ELSE "down")
  /\ UNCHANGED <<clients, queue, done, retry, failure, attempts, retries>> /\ World

-----------------------------------------------------------------------------
\* The loop over the queue.  A cap that is reached is a failure like the others:
\* nothing more is reserved, what is in flight is drained.

CanReserve == queue # <<>> /\ Cardinality(DOMAIN jobs) < clients /\ ~failure

Fill ==
  /\ collectionPc = "fill" /\ CanReserve
  /\ queue' = Tail(queue)
  /\ IF CapReached(Head(queue))
       THEN failure' = TRUE /\ UNCHANGED <<disk, jobs, attempts, retries>>
       ELSE ReserveIntent(Head(queue)) /\ UNCHANGED failure
  /\ UNCHANGED <<collectionPc, clients, done, retry>> /\ World

Wait ==
  /\ collectionPc = "fill" /\ ~CanReserve
  /\ done' = {i \in DOMAIN jobs : jobs[i].status # "submitted"} /\ done' # {}
  /\ MoveTo("settle")
  /\ UNCHANGED <<disk, clients, queue, jobs, retry, failure, attempts, retries>> /\ World

\* Completions in the order of their intents.
SettleIntent ==
  /\ collectionPc = "settle" /\ done # {}
  /\ LET i == Min(done)
     IN  /\ Settled(i)
         /\ done' = done \ {i}
         /\ retry' = IF jobs[i].status = "retryable_failure" THEN Append(retry, jobs[i].pair) ELSE retry
         /\ failure' = (failure \/ jobs[i].status \in {"nonretryable_failure", "unknown"})
  /\ UNCHANGED <<collectionPc, clients, queue, attempts, retries>> /\ World

\* Back off, and put each pair to be retried in front.
Requeue ==
  /\ collectionPc = "settle" /\ done = {}
  /\ queue' = IF failure THEN queue ELSE Reverse(retry) \o queue
  /\ retry' = <<>>
  /\ MoveTo("fill")
  /\ UNCHANGED <<disk, clients, jobs, done, failure, attempts, retries>> /\ World

\* Nothing is active, and nothing can be made active.  (Mutant: the queue must be
\* empty.)
DrainedQueue == queue = <<>> /\ DOMAIN jobs = {}
Drained      == DOMAIN jobs = {}

EndLoop ==
  /\ collectionPc = "fill" /\ ~CanReserve /\ Drained
  /\ MoveTo(IF ~failure /\ Accepted = BankPairs THEN "publish" ELSE "down")
  /\ UNCHANGED <<disk, memory>> /\ World

PublishBank ==
  /\ collectionPc = "publish"
  /\ bank' = attemptLedger.source
  /\ MoveTo("close")
  /\ UNCHANGED <<prepared, authorized, attemptLedger, ledgerText, closure, study, paths, report,
                 memory>>
  /\ World

PublishClosure ==
  /\ collectionPc = "close"
  /\ closure' = [status |-> "complete", bank |-> bank, events |-> attemptLedger.events,
                 physical |-> Total(attempts), retries |-> retries,
                 qualifications |-> attempts[Qualification],
                 authorization |-> authorized]
  /\ MoveTo("down")
  /\ UNCHANGED <<prepared, authorized, attemptLedger, ledgerText, bank, study, paths, report, memory>>
  /\ World

-----------------------------------------------------------------------------
\* The paths over the closed bank, each published whole, and the report.

\* A path run binds itself to the closure, or to the one it was started with.
StartPaths ==
  /\ collectionPc = "down" /\ closure # None /\ EvidenceAccepts /\ study \in {None, closure}
  /\ report # "none" => reruns < MaxReruns
  /\ reruns' = reruns + (IF report # "none" THEN 1 ELSE 0)
  /\ study' = closure
  /\ MoveTo("paths")
  /\ UNCHANGED <<prepared, authorized, attemptLedger, ledgerText, bank, closure, paths, report,
                 memory,
                 callsMade, kills>>

PublishPath ==
  /\ collectionPc = "paths" /\ paths < PathCount
  /\ paths' = paths + 1
  /\ UNCHANGED <<prepared, authorized, attemptLedger, ledgerText, bank, closure, study, report,
                 collectionPc, memory>>
  /\ World

\* maximum_paths of this invocation is reached.
StopPaths ==
  /\ collectionPc = "paths" /\ paths < PathCount /\ reruns < MaxReruns
  /\ reruns' = reruns + 1
  /\ MoveTo("down")
  /\ UNCHANGED <<disk, memory, callsMade, kills>>

Publishes(from, r, next) ==
  /\ collectionPc = from /\ report' = r /\ MoveTo(next)
  /\ UNCHANGED <<prepared, authorized, attemptLedger, ledgerText, bank, closure, study, paths,
                 memory>>
  /\ World

ClosePaths  == paths = PathCount
                 /\ Publishes("paths", IF report = "none" THEN "paths" ELSE report, "down")
OpenReport  == report = "paths" /\ study = closure /\ EvidenceAccepts
                 /\ Publishes("down", "partial", "report")
CloseReport == Publishes("report", "complete", "down")

-----------------------------------------------------------------------------
\* The append a process is about to make, or is in.
Appending ==
  \/ collectionPc = "qualify" /\ ~CapReached(Qualification)
  \/ collectionPc = "qualifying" /\ \A i \in DOMAIN jobs : jobs[i].status # "submitted"
  \/ collectionPc = "fill" /\ CanReserve /\ ~CapReached(Head(queue))
  \/ collectionPc = "settle" /\ done # {}

DueAppend ==
  \/ collectionPc = "qualify" /\ AppendIntent(Qualification)
  \/ collectionPc = "fill" /\ AppendIntent(Head(queue))
  \/ /\ collectionPc \in {"qualifying", "settle"}
     /\ \E i \in IF collectionPc = "settle" THEN {Min(done)} ELSE DOMAIN jobs :
          AppendSettled(i, jobs[i].pair, jobs[i].status)

\* A kill inside an append may leave a part of the line, or all of it but the newline;
\* other files are renamed.
Kill ==
  /\ collectionPc # "down" /\ kills < MaxKills
  /\ kills' = kills + 1
  /\ \/ UNCHANGED <<attemptLedger, ledgerText>>
     \/ Appending /\ ledgerText' = "corrupt" /\ UNCHANGED attemptLedger
     \/ Appending /\ ledgerText = "whole" /\ ledgerText' = "bare" /\ DueAppend
  /\ MoveTo("down")
  /\ clients' = 1 /\ queue' = <<>> /\ jobs' = <<>> /\ done' = {} /\ retry' = <<>>
  /\ failure' = FALSE /\ attempts' = [p \in Attempted |-> 0] /\ retries' = 0
  /\ UNCHANGED <<prepared, authorized, bank, closure, study, paths, report, callsMade, reruns>>

Stage ==
  \/ PrepareBank \/ Collect \/ Qualify \/ SettleQualification
  \/ Fill \/ Wait \/ SettleIntent \/ Requeue \/ EndLoop \/ PublishBank \/ PublishClosure
  \/ StartPaths \/ PublishPath \/ StopPaths \/ ClosePaths \/ OpenReport \/ CloseReport

Worker == \E i \in DOMAIN jobs : Execute(i)

CollectionNext == Stage \/ Worker \/ Authorize \/ Kill

CollectionSpec == CollectionInit /\ [][CollectionNext]_collectionVars

\* The operator starts the next stage, and calls end: no worker of a transport is
\* stuck as in Blocked of SubscriptionClient.
CollectionFairSpec == CollectionSpec /\ WF_collectionVars(Stage) /\ WF_collectionVars(Worker)

-----------------------------------------------------------------------------
\* Whatever the transports answer, in whatever order, over any kills and restarts:
\* a ledger whose lines parse is one that its own reader takes; the closure over it is
\* one that the evidence recomputes - every budget kept, no more requests in flight
\* than were authorized - unless the authorization was written after it was made; and
\* the closure the paths were drawn from differs from it in no more than that.
LedgerHolds ==
  /\ ledgerText # "corrupt" => attemptLedger.reads
  /\ ClosedAsAuthorized /\ ledgerText # "corrupt" => EvidenceAccepts
  /\ study # None => study = [closure EXCEPT !.authorization = study.authorization]

\* The collection keeps the promise of an attempt ledger: a pair is not sent again
\* while an attempt of it is unresolved or after it succeeded.
Promise == INSTANCE AttemptLedger WITH
  Pairs       <- Attempted,
  MaxAttempts <- PairAttempts,
  charged     <- attemptLedger.attempts,
  called      <- callsMade,
  settled     <- attemptLedger.settled,
  succeeded   <- Accepted \cup (IF attemptLedger.qualified THEN {Qualification} ELSE {})
KeepsCollectionPromise == Promise!Spec

\* A pair, or the study, that has used up its retries stops every later collection.
Exhausted ==
  \E p \in BankPairs \ Accepted :
    \/ attemptLedger.attempts[p] = PairAttempts
    \/ attemptLedger.attempts[p] > 0 /\ Retried(attemptLedger.attempts) = GlobalRetries

\* The paths were begun over a closure made before the authorization: that closure is
\* not accepted any more, and one that is made again crosses their manifest.
Superseded == study # None /\ study.authorization # authorized

\* However it is killed, a study that is started again comes to rest with its
\* report, or refused: for a lost or fatal answer, a ledger that does not parse, retries
\* that are used up, an authorization that came after its paths were begun, or a report
\* that was begun and not finished.
StudyRests ==
  <>(collectionPc = "down" /\ (~Readable \/ Exhausted \/ Superseded \/ report \in {"partial", "complete"}))
=============================================================================
