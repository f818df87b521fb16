--------------------------- MODULE SubscriptionClient ---------------------------
(***************************************************************************)
(* The subscription transport: an adapter that asks for one decision after *)
(* the other with a bounded number of attempts, the client it calls, and   *)
(* the worker process the client talks to over a pair of pipes.  The       *)
(* worker may hang, also in the middle of a line, die, or write a line     *)
(* that is no response; the operator may interrupt the client while it     *)
(* waits; the client discards a worker whose pipe it can no longer account *)
(* for and starts another.                                                 *)
(* Source: providers/pi_subscription.py, scripts/pi_subscription_provider_ *)
(* worker.mjs, and decide in providers/openai_compatible.py.               *)
(*                                                                         *)
(* A client has one caller: lanes that run in parallel have one each.      *)
(* Left out: what is asked and answered, token counts, waits, the          *)
(* processes and pipes of discarded workers, which are closed and dead,    *)
(* and a pipe that is full, which would block its writer.                  *)
(***************************************************************************)
EXTENDS Integers, Sequences, FiniteSets

CONSTANTS
  DecisionCount,  \* how many decisions are asked for
  MaxRetries,     \* config.max_retries
  MaxWorkers,     \* bound: worker processes that can be started
  MaxFaults,      \* bound: workers that die and lines that are no response
  MaxInterrupts   \* bound: KeyboardInterrupt

ASSUME ClientAssumption ==
  /\ {DecisionCount, MaxWorkers} \subseteq Nat \ {0}
  /\ {MaxRetries, MaxFaults, MaxInterrupts} \subseteq Nat

Decisions == 1 .. DecisionCount
Status    == 0                  \* what a command that asks for no decision is for
Null      == -1                 \* a total that is not known any more
NoId      == 0

\* How a call ends, as the worker reports it and the client and adapter take it:
\* a decision, one without its cost, a text that is no decision, evidence that
\* does not fit the request, or a failure the worker knows.
Responses == {"decision", "unpriced", "unparsed", "crossed", "refused"}

VARIABLES
  \* --- the adapter ---
  clientPc, decision, attempt,
  outcome,       \* of each decision
  answer,        \* the id of the response it was read from
  invocations,   \* external_request_invocations, of each decision
  \* --- the client ---
  process,       \* _process is not None
  ready,         \* _ready
  sent,          \* of each id up to _sequence, the decision its command is for
  total,         \* subscription_nominal_cost_usd_total, in priced calls
  read,          \* the ids of the calls whose response it took
  \* --- the worker and its pipes ---
  alive, inbox, outbox,
  begun,         \* of a line without its end: "no", "pipe" when the client has not
                 \* taken all that is there of it, "taken" when it has
  busy,          \* the id of the call it awaits
  calls,         \* the ids it called the provider for
  \* --- bounds ---
  workers, faults, interrupts

adapter    == <<clientPc, decision, attempt, outcome, answer, invocations>>
client     == <<process, ready, sent, total, read>>
worker     == <<alive, inbox, outbox, begun, busy, calls>>
bounds     == <<workers, faults, interrupts>>
clientVars == <<adapter, client, worker, bounds>>

\* The client is built with its first worker started and ready.
ClientInit ==
  /\ clientPc = "idle" /\ decision = 0 /\ attempt = 0
  /\ outcome = [d \in Decisions |-> "none"]
  /\ answer = [d \in Decisions |-> NoId]
  /\ invocations = [d \in Decisions |-> 0]
  /\ process = TRUE /\ ready = TRUE /\ sent = <<Status>> /\ total = 0 /\ read = {}
  /\ alive = TRUE /\ inbox = <<>> /\ outbox = <<>> /\ begun = "no"
  /\ busy = NoId /\ calls = {} /\ workers = 1 /\ faults = 0 /\ interrupts = 0

At(l) == clientPc = l
Id    == Len(sent)
Ready == process /\ alive /\ ready      \* the property of that name

-----------------------------------------------------------------------------
\* The adapter.

End(how) ==
  /\ clientPc' = "idle"
  /\ outcome' = [outcome EXCEPT ![decision] = how]
  /\ UNCHANGED <<decision, attempt, invocations>>

\* Any exception but an unknown provenance is tried again, then fails closed.
Fail ==
  /\ answer' = answer
  /\ IF attempt < MaxRetries
       THEN /\ clientPc' = "ask" /\ attempt' = attempt + 1
            /\ UNCHANGED <<decision, outcome, invocations>>
       ELSE End("failed")

Lose == End("unknown") /\ answer' = answer

\* The caller asks for the next decision, whatever became of the last one.
Decide ==
  /\ At("idle") /\ decision < DecisionCount
  /\ clientPc' = "ask" /\ decision' = decision + 1 /\ attempt' = 0
  /\ UNCHANGED <<outcome, answer, invocations, client, worker, bounds>>

Ask ==
  /\ At("ask")
  /\ clientPc' = "ensure"
  /\ invocations' = [invocations EXCEPT ![decision] = @ + 1]
  /\ UNCHANGED <<decision, attempt, outcome, answer, client, worker, bounds>>

-----------------------------------------------------------------------------
\* The client: create_response, _start, _rpc.

\* A worker that is given up is terminated or killed and waited for, its pipes closed.
Discard ==
  /\ process' = FALSE /\ ready' = FALSE
  /\ alive' = FALSE /\ inbox' = <<>> /\ outbox' = <<>> /\ begun' = "no" /\ busy' = NoId

HasWorker ==
  /\ At("ensure") /\ Ready
  /\ clientPc' = "send"
  /\ UNCHANGED <<decision, attempt, outcome, answer, invocations, client, worker, bounds>>

\* close, then a new process and its status command.
StartWorker ==
  /\ At("ensure") /\ ~Ready /\ workers < MaxWorkers
  /\ process' = TRUE /\ ready' = FALSE /\ alive' = TRUE
  /\ sent' = Append(sent, Status)
  /\ inbox' = <<Id + 1>> /\ outbox' = <<>> /\ begun' = "no" /\ busy' = NoId
  /\ workers' = workers + 1
  /\ clientPc' = "hello"
  /\ UNCHANGED <<decision, attempt, outcome, answer, invocations, total, read, calls,
                 faults, interrupts>>

CannotStart ==
  /\ At("ensure") /\ ~Ready
  /\ Discard /\ Fail
  /\ UNCHANGED <<sent, total, read, calls, bounds>>

\* The line _readline_with_timeout returns, if there is one.  A whole line that lies in
\* the client's buffer already, where select does not see it, is from before the
\* command: a wait that misses it ends as one that reads it.
Line == IF outbox = <<>> THEN [id |-> NoId, says |-> "nothing"] ELSE Head(outbox)

\* What is left of a line that is begun when the client reads: it takes what is there
\* or leaves it, and the part it took is not what select waits for any more.
Kept == IF begun = "pipe" THEN {"pipe", "taken"} ELSE {begun}

TakeLine == outbox' = Tail(outbox) /\ begun' \in Kept

\* The end of the pipe and the time running out are one to the client.  Its timer is
\* that of select alone: once there is a byte to read, readline waits for the rest of
\* the line, for as long as the worker lives.
\* (Mutant: the client waits for as long as the worker lives, whatever is in the pipe.)
EndOfPipe == outbox = <<>> /\ ~alive
TimedOut  == outbox = <<>> /\ (~alive \/ begun # "pipe")

\* (Mutant: the id of a response is not compared.)
AnyId   == Line.id # NoId
Matches == Line.id = Id

Nothing == TimedOut \/ (outbox # <<>> /\ ~Matches)

Hello ==
  /\ At("hello") /\ Matches /\ Line.says = "ready"
  /\ ready' = TRUE /\ TakeLine
  /\ clientPc' = "send"
  /\ UNCHANGED <<decision, attempt, outcome, answer, invocations, process, sent, total, read,
                 alive, inbox, busy, calls, bounds>>

NotReady ==
  /\ At("hello")
  /\ Nothing \/ (Matches /\ Line.says # "ready")
  /\ Discard /\ Fail
  /\ UNCHANGED <<sent, total, read, calls, bounds>>

\* _rpc of a request.  A worker found dead was sent nothing: that is a failure like
\* any other.  One that dies under the write leaves the request unknown.
NotRunning ==
  /\ At("send") /\ ~alive
  /\ total' = Null
  /\ Fail
  /\ UNCHANGED <<process, ready, sent, read, worker, bounds>>

Send ==
  /\ At("send") /\ alive
  /\ sent' = Append(sent, decision) /\ inbox' = Append(inbox, Id + 1)
  /\ clientPc' = "read"
  /\ UNCHANGED <<decision, attempt, outcome, answer, invocations, process, ready, total, read,
                 alive, outbox, begun, busy, calls, bounds>>

BreakPipe ==
  /\ At("send") /\ alive /\ faults < MaxFaults
  /\ sent' = Append(sent, decision) /\ total' = Null
  /\ alive' = FALSE /\ begun' = "no" /\ faults' = faults + 1
  /\ Lose
  /\ UNCHANGED <<process, ready, read, inbox, outbox, busy, calls, workers, interrupts>>

\* The response to this request, and what create_response and decide make of it.
ReadResponse ==
  /\ At("read") /\ Matches
  /\ TakeLine
  /\ read' = read \cup {Line.id}
  /\ total' = IF total = Null \/ Line.says \notin {"decision", "unparsed"} THEN Null ELSE total + 1
  /\ IF Line.says \in {"decision", "unpriced"}
       THEN End("answered") /\ answer' = [answer EXCEPT ![decision] = Line.id]
       ELSE Fail
  /\ UNCHANGED <<process, ready, sent, alive, inbox, busy, calls, bounds>>

\* Nothing to read in time, the end of the pipe, no JSON, or the response to another
\* request.
ReadNothing ==
  /\ At("read")
  /\ Nothing
  /\ total' = Null
  /\ Discard /\ Lose
  /\ UNCHANGED <<sent, read, calls, bounds>>

\* close by the caller between two decisions; the command takes an id of its own.
Close ==
  /\ At("idle") /\ process /\ decision \in 1 .. DecisionCount - 1
  /\ sent' = IF alive THEN Append(sent, Status) ELSE sent
  /\ Discard
  /\ UNCHANGED <<adapter, total, read, calls, bounds>>

\* An interrupt leaves _rpc with the worker as it is, and _start with it closed.
Interrupt ==
  /\ interrupts < MaxInterrupts /\ clientPc \in {"ask", "hello", "read"}
  /\ interrupts' = interrupts + 1
  /\ End("interrupted") /\ answer' = answer
  /\ IF clientPc = "hello"
       THEN Discard
       ELSE /\ begun' \in IF clientPc = "read" THEN Kept ELSE {begun}
            /\ UNCHANGED <<process, ready, alive, inbox, outbox, busy>>
  /\ UNCHANGED <<sent, total, read, calls, workers, faults>>

-----------------------------------------------------------------------------
\* The worker handles one command after the other, and writes a line for each.

Noise == [id |-> NoId, says |-> "noise"]

\* The end of a line.  If one was begun this ends that one, and what was begun may be
\* something else's output, or be lost to an interrupted read: then it is no response.
Emit(i, says) ==
  /\ begun' = "no"
  /\ \E line \in {[id |-> i, says |-> says]} \cup (IF begun = "no" THEN {} ELSE {Noise}) :
       outbox' = Append(outbox, line)

\* Part of a line is written, by the worker or by something else in its process.
Begin ==
  /\ alive /\ begun # "pipe"
  /\ begun' = "pipe"
  /\ UNCHANGED <<adapter, client, alive, inbox, outbox, busy, calls, bounds>>

Idle == alive /\ busy = NoId /\ inbox # <<>>

ReportStatus ==
  /\ Idle /\ sent[Head(inbox)] = Status
  /\ inbox' = Tail(inbox)
  /\ \E says \in {"ready", "refused"} : Emit(Head(inbox), says)
  /\ UNCHANGED <<adapter, client, alive, busy, calls, bounds>>

Request ==
  /\ Idle /\ sent[Head(inbox)] # Status
  /\ inbox' = Tail(inbox)
  /\ busy' = Head(inbox) /\ calls' = calls \cup {Head(inbox)}
  /\ UNCHANGED <<adapter, client, alive, outbox, begun, bounds>>

\* A request that is not valid is refused without a call.
Refuse ==
  /\ Idle /\ sent[Head(inbox)] # Status
  /\ inbox' = Tail(inbox)
  /\ Emit(Head(inbox), "refused")
  /\ UNCHANGED <<adapter, client, alive, busy, calls, bounds>>

Respond ==
  /\ alive /\ busy # NoId
  /\ \E says \in Responses : Emit(busy, says)
  /\ busy' = NoId
  /\ UNCHANGED <<adapter, client, alive, inbox, calls, bounds>>

\* Something else prints a line, or the process goes away.
Chatter ==
  /\ alive /\ faults < MaxFaults
  /\ faults' = faults + 1
  /\ Emit(Noise.id, Noise.says)
  /\ UNCHANGED <<adapter, client, alive, inbox, busy, calls, workers, interrupts>>

Die ==
  /\ alive /\ faults < MaxFaults
  /\ faults' = faults + 1
  /\ alive' = FALSE /\ begun' = "no" /\ busy' = NoId
  /\ UNCHANGED <<adapter, client, inbox, outbox, calls, workers, interrupts>>

-----------------------------------------------------------------------------
Client ==
  \/ Decide \/ Ask \/ HasWorker \/ StartWorker \/ CannotStart \/ Hello \/ NotReady
  \/ NotRunning \/ Send \/ BreakPipe \/ ReadResponse \/ ReadNothing

Worker == Begin \/ ReportStatus \/ Request \/ Refuse \/ Respond \/ Chatter \/ Die

ClientNext == Client \/ Worker \/ Close \/ Interrupt

ClientSpec == ClientInit /\ [][ClientNext]_clientVars

\* The client runs, and the timer of select fires; nothing is assumed of the worker.
ClientFairSpec == ClientSpec /\ WF_clientVars(Client)

-----------------------------------------------------------------------------
CallsOf(d) == {i \in calls : sent[i] = d}
Decided(d) == outcome[d] # "none"

\* However workers die, hang, chatter or answer late, and whenever the client is
\* interrupted: a decision is read from a response to a call made for it, no attempt
\* makes two calls, a decision that ends with a result has had every one of its
\* calls accounted for, one that does not has lost at most its last, and a nominal
\* cost that is still given covers every call but those lost to an interrupt.
CallsAccounted ==
  /\ \A d \in Decisions :
       /\ outcome[d] = "answered" => answer[d] \in CallsOf(d)
       /\ Cardinality(CallsOf(d)) <= invocations[d] /\ invocations[d] <= MaxRetries + 1
       /\ outcome[d] \in {"answered", "failed"} => CallsOf(d) \subseteq read
       /\ Cardinality(CallsOf(d) \ read) <= 1
  /\ At("idle") /\ total # Null =>
       /\ total = Cardinality(calls \cap read)
       /\ \A i \in calls \ read : outcome[sent[i]] = "interrupted"

\* The client waits in readline for the rest of a line, without a limit of time.
Blocked == clientPc \in {"hello", "read"} /\ outbox = <<>> /\ alive /\ begun = "pipe"

\* Every decision that is asked for ends, whether workers hang, die, chatter or answer
\* late: unless one that lives has begun a line and never ends it, for which
\* _readline_with_timeout waits for ever.
DecisionsEnd == <>(\A d \in Decisions : Decided(d)) \/ <>[]Blocked
=============================================================================
