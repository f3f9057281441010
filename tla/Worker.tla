------------------------------- MODULE Worker -------------------------------
(***************************************************************************)
(* The consumer loop of webhook-worker/worker.py: the processes of the     *)
(* group payment_workers on the one partition of the topic, the Redis keys *)
(* consumer:<idempotency key>, and the offset the group has committed.     *)
(*                                                                         *)
(* settle_payment is taken as SettleOnce promises it: one atomic step per  *)
(* idempotency key, or an exception that leaves the caller not knowing     *)
(* whether it committed.  Which verdict it reaches is left open here.      *)
(*                                                                         *)
(* A worker that loses the partition while it handles a message goes on    *)
(* with it, next to the worker that got the partition.                     *)
(***************************************************************************)
EXTENDS Integers, Sequences

CONSTANTS
    Workers,            \* the processes of the consumer group
    Keys,               \* idempotency keys
    Poison,             \* keys of messages settle_payment can only raise on
    CanFail,            \* may Redis, Postgres or the offset commit fail?
    CanHint,            \* may the cached balance look insufficient?
    MaxLog,             \* bound: messages produced
    MaxInterruptions,   \* bound: crashes and revocations
    None                \* no status, no settlement, no owner

ASSUME WorkerAssumption ==
    /\ Poison \subseteq Keys
    /\ CanFail \in BOOLEAN
    /\ CanHint \in BOOLEAN
    /\ MaxLog \in Nat
    /\ MaxInterruptions \in Nat
    /\ None \notin Workers
    /\ None \notin {"approved", "rejected", "duplicate", "processing", "processed"}

VARIABLES
    log,            \* the partition: the keys of the messages, in offset order
    committed,      \* how many messages the group's committed offset has passed
    owner,          \* the worker the partition is assigned to, or None
    position,       \* how many messages each worker has polled or skipped over
    step,           \* what each worker does next
    outcome,        \* what settle_payment returned to it
    consumer,       \* the status in Redis under consumer:<key>, or None
    settled,        \* the verdict in Postgres per key, or None
    failures,       \* messages a "Critical failure" or "Error" line was logged for
    hintSkips,      \* messages skipped while their status was "processing"
    interruptions   \* crashes and revocations so far

vars == <<log, committed, owner, position, step, outcome, consumer, settled,
          failures, hintSkips, interruptions>>

Verdicts == {"approved", "rejected"}

Steps == {"down", "poll", "exists", "precheck", "settle", "record", "commit"}

TypeOK ==
    /\ log \in Seq(Keys)
    /\ committed \in 0..Len(log)
    /\ owner \in Workers \cup {None}
    /\ position \in [Workers -> Nat]
    /\ step \in [Workers -> Steps]
    /\ \A w \in Workers :
          /\ position[w] <= Len(log)
          /\ step[w] \notin {"down", "poll"} => position[w] > 0
    /\ outcome \in [Workers -> Verdicts \cup {"duplicate", None}]
    /\ consumer \in [Keys -> Verdicts \cup {"processing", "processed", None}]
    /\ settled \in [Keys -> Verdicts \cup {None}]
    /\ failures \subseteq 1..Len(log)
    /\ hintSkips \subseteq 1..Len(log)
    /\ interruptions \in 0..MaxInterruptions

\* The idempotency key of the message w polled last.
Key(w) == log[position[w]]

GoTo(w, next) == step' = [step EXCEPT ![w] = next]

-----------------------------------------------------------------------------
(* Around the workers: the gateway's producer, the broker, Redis.          *)

\* The gateway appends a message; a retry of its producer, or a new request
\* under a key that has expired there, repeats a key.
Produce(k) ==
    /\ Len(log) < MaxLog
    /\ log' = Append(log, k)
    /\ UNCHANGED <<committed, owner, position, step, outcome, consumer, settled,
                   failures, hintSkips, interruptions>>

\* Variant: auto.offset.reset latest, without a committed offset.
AssignAtEnd(w) ==
    /\ owner = None
    /\ step[w] = "poll"
    /\ owner' = w
    /\ position' = [position EXCEPT ![w] = Len(log)]
    /\ UNCHANGED <<log, committed, step, outcome, consumer, settled, failures,
                   hintSkips, interruptions>>

\* The broker assigns the partition to a worker, inside its poll(); the worker
\* starts at the committed offset.
Assign(w) ==
    /\ owner = None
    /\ step[w] = "poll"
    /\ owner' = w
    /\ position' = [position EXCEPT ![w] = committed]
    /\ UNCHANGED <<log, committed, step, outcome, consumer, settled, failures,
                   hintSkips, interruptions>>

\* It takes the partition away, whatever the worker is doing: a rebalance, a
\* missed heartbeat, or max.poll.interval.ms gone by.
Revoke(w) ==
    /\ owner = w
    /\ interruptions < MaxInterruptions
    /\ interruptions' = interruptions + 1
    /\ owner' = None
    /\ UNCHANGED <<log, committed, position, step, outcome, consumer, settled,
                   failures, hintSkips>>

\* A consumer key reaches its hour, or Redis restarts empty or evicts it.
Expire(k) ==
    /\ consumer[k] # None
    /\ consumer' = [consumer EXCEPT ![k] = None]
    /\ UNCHANGED <<log, committed, owner, position, step, outcome, settled,
                   failures, hintSkips, interruptions>>

-----------------------------------------------------------------------------
(* The loop of main and process_payment.                                   *)

\* Variant: the end of the log is not seen.
PollBeyondEnd(w) ==
    /\ owner = w
    /\ step[w] = "poll"
    /\ position[w] <= Len(log)
    /\ position' = [position EXCEPT ![w] = @ + 1]
    /\ GoTo(w, "exists")
    /\ UNCHANGED <<log, committed, owner, outcome, consumer, settled, failures,
                   hintSkips, interruptions>>

\* Variant: enable.auto.commit.
PollAutoCommit(w) ==
    /\ owner = w
    /\ step[w] = "poll"
    /\ position[w] < Len(log)
    /\ position' = [position EXCEPT ![w] = @ + 1]
    /\ committed' = position[w] + 1
    /\ GoTo(w, "exists")
    /\ UNCHANGED <<log, owner, outcome, consumer, settled, failures, hintSkips,
                   interruptions>>

Poll(w) ==
    /\ owner = w
    /\ step[w] = "poll"
    /\ position[w] < Len(log)
    /\ position' = [position EXCEPT ![w] = @ + 1]
    /\ GoTo(w, "exists")
    /\ UNCHANGED <<log, committed, owner, outcome, consumer, settled, failures,
                   hintSkips, interruptions>>

\* poll() returns no message, or one that only carries an error.
PollNothing(w) ==
    /\ step[w] = "poll"
    /\ owner # w \/ position[w] = Len(log)
    /\ UNCHANGED vars

\* redis_client.exists: any status under the key is taken for a processed
\* message.
SkipKnown(w) ==
    /\ step[w] = "exists"
    /\ consumer[Key(w)] # None
    /\ hintSkips' = hintSkips \cup (IF consumer[Key(w)] = "processing" THEN {position[w]} ELSE {})
    /\ GoTo(w, "commit")
    /\ UNCHANGED <<log, committed, owner, position, outcome, consumer, settled,
                   failures, interruptions>>

\* Variant: the key is claimed before the payment is settled.
TakeNewClaiming(w) ==
    /\ step[w] = "exists"
    /\ consumer[Key(w)] = None
    /\ consumer' = [consumer EXCEPT ![Key(w)] = "processing"]
    /\ GoTo(w, "precheck")
    /\ UNCHANGED <<log, committed, owner, position, outcome, settled, failures,
                   hintSkips, interruptions>>

TakeNew(w) ==
    /\ step[w] = "exists"
    /\ consumer[Key(w)] = None
    /\ GoTo(w, "precheck")
    /\ UNCHANGED <<log, committed, owner, position, outcome, consumer, settled,
                   failures, hintSkips, interruptions>>

\* Variant: the preliminary status is a verdict.
PrecheckRejecting(w) ==
    /\ step[w] = "precheck"
    /\ \/ consumer' = consumer
       \/ CanHint /\ consumer' = [consumer EXCEPT ![Key(w)] = "rejected"]
    /\ GoTo(w, "settle")
    /\ UNCHANGED <<log, committed, owner, position, outcome, settled, failures,
                   hintSkips, interruptions>>

\* precheck_cached_balance, and the preliminary status when it gives a reason.
Precheck(w) ==
    /\ step[w] = "precheck"
    /\ \/ consumer' = consumer
       \/ CanHint /\ consumer' = [consumer EXCEPT ![Key(w)] = "processing"]
    /\ GoTo(w, "settle")
    /\ UNCHANGED <<log, committed, owner, position, outcome, settled, failures,
                   hintSkips, interruptions>>

\* settle_payment commits a verdict for a new key, with result what it returns.
SettleNew(w, verdict) ==
    /\ step[w] = "settle"
    /\ Key(w) \notin Poison
    /\ settled[Key(w)] = None
    /\ settled' = [settled EXCEPT ![Key(w)] = verdict]

Settle(w) ==
    /\ \E verdict \in Verdicts :
          /\ SettleNew(w, verdict)
          /\ outcome' = [outcome EXCEPT ![w] = verdict]
    /\ GoTo(w, "record")
    /\ UNCHANGED <<log, committed, owner, position, consumer, failures, hintSkips,
                   interruptions>>

FindDuplicate(w) ==
    /\ step[w] = "settle"
    /\ settled[Key(w)] # None
    /\ outcome' = [outcome EXCEPT ![w] = "duplicate"]
    /\ GoTo(w, "record")
    /\ UNCHANGED <<log, committed, owner, position, consumer, settled, failures,
                   hintSkips, interruptions>>

\* Variant: a duplicate is taken for an approved payment.
RecordApproving(w) ==
    /\ step[w] = "record"
    /\ consumer' = [consumer EXCEPT ![Key(w)] =
                       IF outcome[w] = "duplicate" THEN "approved" ELSE outcome[w]]
    /\ outcome' = [outcome EXCEPT ![w] = None]
    /\ GoTo(w, "commit")
    /\ UNCHANGED <<log, committed, owner, position, settled, failures, hintSkips,
                   interruptions>>

\* The final status: a duplicate is only "processed", whatever its verdict was.
Record(w) ==
    /\ step[w] = "record"
    /\ consumer' = [consumer EXCEPT ![Key(w)] =
                       IF outcome[w] = "duplicate" THEN "processed" ELSE outcome[w]]
    /\ outcome' = [outcome EXCEPT ![w] = None]
    /\ GoTo(w, "commit")
    /\ UNCHANGED <<log, committed, owner, position, settled, failures, hintSkips,
                   interruptions>>

\* consumer.commit() commits the worker's position, and fails for a worker the
\* partition is no longer assigned to.
Commit(w) ==
    /\ step[w] = "commit"
    /\ owner = w
    /\ committed' = position[w]
    /\ GoTo(w, "poll")
    /\ UNCHANGED <<log, owner, position, outcome, consumer, settled, failures,
                   hintSkips, interruptions>>

CommitFails(w) ==
    /\ step[w] = "commit"
    /\ owner # w \/ CanFail
    /\ GoTo(w, "poll")
    /\ UNCHANGED <<log, committed, owner, position, outcome, consumer, settled,
                   failures, hintSkips, interruptions>>

\* Variant: a failed message is polled again.
LogFailureAndRetry(w) ==
    /\ failures' = failures \cup {position[w]}
    /\ outcome' = [outcome EXCEPT ![w] = None]
    /\ position' = [position EXCEPT ![w] = @ - 1]
    /\ GoTo(w, "poll")
    /\ UNCHANGED <<log, committed, owner, consumer, hintSkips, interruptions>>

\* An exception before the commit of the offset: it is logged, and the loop
\* goes on to the next message.
LogFailure(w) ==
    /\ failures' = failures \cup {position[w]}
    /\ outcome' = [outcome EXCEPT ![w] = None]
    /\ GoTo(w, "poll")
    /\ UNCHANGED <<log, committed, owner, position, consumer, hintSkips, interruptions>>

\* Redis or Postgres fails, or the message is one that cannot be settled.
Fail(w) ==
    /\ \/ CanFail /\ step[w] \in {"exists", "precheck", "settle", "record"}
       \/ step[w] = "settle" /\ Key(w) \in Poison
    /\ LogFailure(w)
    /\ UNCHANGED settled

\* settle_payment commits, and raises all the same: the connection is lost
\* before the answer.
FailAfterSettling(w) ==
    /\ CanFail
    /\ \E verdict \in Verdicts : SettleNew(w, verdict)
    /\ LogFailure(w)

\* The process dies; with restart: unless-stopped it is started again.
Crash(w) ==
    /\ step[w] # "down"
    /\ interruptions < MaxInterruptions
    /\ interruptions' = interruptions + 1
    /\ GoTo(w, "down")
    /\ owner' = IF owner = w THEN None ELSE owner
    /\ position' = [position EXCEPT ![w] = 0]
    /\ outcome' = [outcome EXCEPT ![w] = None]
    /\ UNCHANGED <<log, committed, consumer, settled, failures, hintSkips>>

Restart(w) ==
    /\ step[w] = "down"
    /\ GoTo(w, "poll")
    /\ UNCHANGED <<log, committed, owner, position, outcome, consumer, settled,
                   failures, hintSkips, interruptions>>

-----------------------------------------------------------------------------
Init ==
    /\ log = <<>>
    /\ committed = 0
    /\ owner = None
    /\ position = [w \in Workers |-> 0]
    /\ step = [w \in Workers |-> "poll"]
    /\ outcome = [w \in Workers |-> None]
    /\ consumer = [k \in Keys |-> None]
    /\ settled = [k \in Keys |-> None]
    /\ failures = {}
    /\ hintSkips = {}
    /\ interruptions = 0

\* What a running worker does by itself.
Work(w) ==
    \/ Poll(w) \/ SkipKnown(w) \/ TakeNew(w) \/ Precheck(w)
    \/ Settle(w) \/ FindDuplicate(w) \/ Record(w) \/ Commit(w) \/ CommitFails(w)
    \/ Fail(w) \/ FailAfterSettling(w)

Next ==
    \/ \E k \in Keys : Produce(k) \/ Expire(k)
    \/ \E w \in Workers : Work(w) \/ PollNothing(w) \/ Crash(w) \/ Restart(w)
    \/ \E w \in Workers : Assign(w) \/ Revoke(w)

Spec == Init /\ [][Next]_vars

\* A running worker keeps running, a dead one is restarted, and the broker does
\* not leave the partition unassigned.
FairSpec ==
    /\ Spec
    /\ \A w \in Workers : WF_vars(Work(w)) /\ WF_vars(Restart(w))
    /\ WF_vars(\E w \in Workers : Assign(w))

-----------------------------------------------------------------------------
(* Properties.                                                             *)

IsSettled(i) == settled[log[i]] # None

\* A message that is behind the committed offset, and so will not be delivered
\* again, is settled, or its loss can be explained: an error was logged for it,
\* or a preliminary status made a worker skip it.
Accounted(i) == IsSettled(i) \/ i \in failures \cup hintSkips

NoSilentLoss == \A i \in 1..committed : Accounted(i)

\* The status a client reads is never a wrong verdict, and "processed" never
\* stands for a payment Postgres does not know.
StatusIsTrue ==
    \A k \in Keys :
        /\ consumer[k] \in Verdicts => settled[k] = consumer[k]
        /\ consumer[k] = "processed" => settled[k] # None

\* Whatever a worker has gone past is accounted for, even if the partition is no
\* longer its own; past settle_payment the message at hand is settled, and the
\* outcome the worker is about to record is the one in Postgres.
Hand(w) ==
    /\ step[w] = "down" => position[w] = 0
    /\ \A i \in 1..(position[w] - 1) : Accounted(i)
    /\ step[w] \in {"poll", "commit"} /\ position[w] > 0 => Accounted(position[w])
    /\ step[w] = "record" =>
          /\ IsSettled(position[w])
          /\ outcome[w] = "duplicate" \/ outcome[w] = settled[Key(w)]

HandInv == \A w \in Workers : Hand(w)

\* Payments are settled in the order of the log, although several workers may
\* be at it: when a key is settled, everything before one of its messages is
\* accounted for.
SettlesInOrder ==
    [][\A k \in Keys :
          settled'[k] # settled[k] =>
              \E i \in 1..Len(log) : log[i] = k /\ \A j \in 1..(i - 1) : Accounted(j)]_vars

\* The consumer loop asks of settle_payment what SettleOnce promises, which
\* Ledger keeps, and nothing else.
Register == INSTANCE SettleOnce
UsesRegister == Register!Spec

\* Every message that can be settled is settled in the end, crashes, lost
\* partitions and messages that cannot be settled notwithstanding.
EventuallySettled ==
    \A i \in 1..MaxLog :
        i <= Len(log) /\ log[i] \notin Poison ~> i <= Len(log) /\ IsSettled(i)

\* "commit offset only after success": a message behind the committed offset is
\* settled.
CommitsOnlySuccess == \A i \in 1..committed : IsSettled(i)

\* "This never skips settle_payment": a message is skipped only when its payment
\* is settled already.
SkipsOnlySettled == [][\A w \in Workers : SkipKnown(w) => settled[Key(w)] # None]_vars
=============================================================================
