# SafePay Notifier: specification and verification

TLA+ modules of the payment pipeline in `src/`, the TLC configurations that
model-check them on small instances, and theorems that TLAPS proves for every
value of the constants. `PROJECT.json` maps each definition to the lines it
models and lists the runs, the mutants, the hazards and the theorems. Paths below
are relative to `src/`.

## 1. The system

A bank posts payments to an HTTP gateway, which claims an idempotency key in
Redis and produces the payment to Kafka; a worker consumes it and settles it in a
double-entry ledger in Postgres, keeping a cache of the balances in Redis.

    bank-simulator --HTTP--> payment-gateway --Kafka--> webhook-worker --SQL--> Postgres
                                   |                        |   |                  ^
                              producer:<key>        consumer:<key>  balance:<a>:<c>|
                                   +--------- Redis ---------+---+                 |
                                                             ^---- reconciler -----+

### Components, their state and their operations

| component | state | operations |
|---|---|---|
| Ledger schema, `postgres/init/001_schema.sql` | tables `accounts`, `transactions` (UNIQUE `idempotency_key`, CHECKs), `ledger_entries`; view `account_balances` | the constraints and foreign-key locks of each statement |
| Settlement, `webhook-worker/ledger.py` | one Postgres session per message | `settle_payment`, `_ensure_account`, `_seed_opening_balance`, `_get_balance_cents` |
| Consumer loop, `webhook-worker/worker.py` | the consumer's position, the group's committed offset, Redis `consumer:<key>` (1 h) | `main`, `process_payment`, `set_final_status`, `precheck_cached_balance` |
| Balance cache, `webhook-worker/balance_cache.py` | Redis `balance:<account>:<currency>` (1 h) | `debit` (SET), `credit` (INCRBY, EXPIRE), `get_cached_balance` |
| Reconciler, `webhook-worker/reconcile_balances.py` | the rows it has read | `reconcile_once`, in an endless loop |
| Gateway, `payment-gateway/app/main.py` | Redis `producer:<key>` (3 h), the producer's queue | `POST /pay`, `GET /status`, `GET /balance` |
| Gateway start-up, `redis_service.py`, `db.py` | the attempts made | `ping_redis` with backoff, `get_connection` |
| Bank simulator, `bank-simulator/simulator` | clock, the day's figures, stop flag | hourly batch, `advance`, day summary, signals |
| Operations scripts, `scripts/start.sh`, `scripts/reset-storage.sh` | how far a script has got | start the stack, wipe Postgres and Redis |
| Load test, AWS scripts, infrastructure, logging | none of their own | send payments, deploy, look at the stack |

### How they interact, and what is hard about it

* The gateway is one uvicorn process. `POST /pay` is an `async def` that never
  awaits, so requests are handled one at a time and `flush()` stalls all others.
  What interleaves with it is Redis (keys expire, calls fail), the broker, and a
  second gateway process where there is one. The producer is not idempotent
  (`kafka_config.py:15-24`), so its retries may append a message twice; its
  message timeout may give up on a message the broker has.
* The topic has one partition (`scripts/reset-storage.sh:82`). One worker of the
  group owns it; after a rebalance the old owner still finishes the message in
  its hands. Offsets are committed by hand, as *the position of the consumer*.
* Several sessions settle at once in Postgres at READ COMMITTED: each statement
  sees what is committed at its start. FOR UPDATE, the UNIQUE constraint and the
  KEY SHARE locks of the foreign keys make sessions wait for each other, and
  sometimes in a circle.
* The balance cache is written before Postgres commits, and not undone.
* Everything may be restarted; Redis may come back empty.
* `GET /status` makes two calls to Redis, for the worker's status and then for the
  gateway's, whose keys live one and three hours.
* `start.sh --fresh` empties Postgres and then Redis under the services that run;
  `reset-storage.sh` stops the gateway and the worker first. Neither stops the reconciler.

`PROJECT.json` lists under `hazards` each of the places where this can go wrong,
with its line and the properties that watch it.

### What makes each component correct

* Settlement: no account is overdrawn; a key is settled at most once; the books
  balance; concurrent settlements add up to atomic ones; every session ends.
* Consumer loop: a message is not passed over unsettled without a trace; the
  status a client reads is not a wrong verdict; payments are settled in log order;
  every message that can be settled is settled in the end.
* Cache: a plain SET is safe next to INCRBY; whatever puts it wrong, the
  reconciler puts it right.
* Gateway: one transaction per key however often it is repeated; "queued" means
  produced; statuses only move forward, and an outcome told to one client is told to all; a process serves in the end, with
  or without Redis.
* The whole: a client is told only what is so; what was answered "queued" is settled,
  under the transaction id it was given; an outcome once seen stays.
* Wipes: no settlement straddles one; nothing of what was wiped comes back.
* Simulator: the figures count each payment once and in its day; it stops when
  its days are over and when it is told to.

## 2. The modules

    Schema            tables, constraints, what one settlement writes
      |- Settlement   abstract: a settlement is one atomic step
      `- Ledger       settle_payment, statement by statement   (implements Settlement and SettleOnce)
           |- LedgerInv     its inductive invariant   <- LedgerProofs, SumProofs
           |- MCLedger      instances for TLC
           `- BalanceCache  Ledger + Redis balances + reconciler   <- BalanceCacheProofs, MCBalanceCache
                `- Reset    and the scripts that wipe the stores   <- ResetProofs, MCReset
    SettleOnce        abstract: settle_payment to its caller, one verdict per key
    Payments          abstract: what a client may be told, and is promised
    SafePay           Gateway + broker + Worker + GET /status   (implements Payments)  <- SafePayProofs, MCSafePay
      |- Gateway      POST /pay                             <- GatewayProofs, MCGateway
      `- Worker       the consumer loop on one partition, on top of SettleOnce   <- WorkerProofs, MCWorker
    Simulator         the bank simulator's loop and clock   <- SimulatorProofs, MCSimulator

`SafePayProofs` takes the lemmas of `GatewayProofs` and `WorkerProofs` through instances with the
substitutions of `SafePay`, `BalanceCacheProofs` extends `LedgerProofs`, and `ResetProofs` extends that.
`SumProofs` is about sums of integers over finite sets, and knows nothing of the system.
The inductive invariants are defined next to the properties they are for, in the modules themselves
(for `Ledger` in `LedgerInv`), so that the runs check them too. Each starts with the
type invariant, which the runs `ledger_settlement`, `status` and `simulator` check as a part of it.

**Schema, Settlement, Ledger.** The unit of interleaving is one SQL statement,
because at READ COMMITTED each takes its own snapshot. `pc[w]` is the statement the
session of worker `w` runs next; uncommitted rows are held in `created` (account
rows), `opened` (the opening transaction with its entries), `verdict` and the
position of `pc` (the transaction row). `Commit` makes them visible at once
(`Schema!Write`), `Rollback` drops them. `WaitsFor(w, v)` is derived from `pc` and
says which statement waits for which session: an `INSERT` for an uncommitted row
of the same unique key, an `INSERT` with foreign keys for FOR UPDATE on the rows
it names, FOR UPDATE for KEY SHARE and FOR UPDATE. `Violates` is the constraints.
The status update, and the double entry after it, touch rows that only the session
can see, so they are one step with the balance check. `Settlement` has no sessions:
its `Settle` reads the tables and writes them in one step. `SettleOnce` is what is left of that for the
caller, who sees no tables: `StatusOf` is the verdict under each key, which is set once (`VerdictsAreFinal`).

**BalanceCache** extends `Ledger`: `DebitCache` and `CreditCache` are the two
places of `settle_payment` that call the cache. `Debit` joins the first with its SET;
`Increment` and `SetExpiry` are the INCRBY and the EXPIRE of the second, which are two calls.
`lasting` is the keys without a time to live, which never expire: INCRBY makes one when there is
no key, and a session that dies before EXPIRE leaves it. `IncrementAgain` is an INCRBY that the client library of Redis repeats
because its reply was lost, `RestartRedis` a Redis that comes back empty, keys without a time to live included.
`ReadBalances` and `WriteBalance` are the reconciler: one query,
then one SET per row, with settlements in between. `ServedBalance` is what
`GET /balance` answers. `Repairing` says how far a pass has put it right: what is still to be written is
true, and the rest is exact.

**Reset** extends `BalanceCache` by the wiping part of the two scripts. `script` is what
the running script does next. Every session has read `transactions`, so `TRUNCATE` waits until
none is open (`Truncate`), after it has locked `ledger_entries` (`LockEntries`). In between
a session that comes to read `ledger_entries` waits for `TRUNCATE` and `TRUNCATE` for it, and
Postgres aborts one of them (`Collide`); the same can happen with the query of the
reconciler, which locks `accounts` first (`CollideWithQuery`). `Kill` is `docker compose stop`. Messages may come at any time, so what
becomes of the topic needs no state.

**Worker** takes `settle_payment` as `SettleOnce` promises it: one step per key,
leaving the verdict open, or an exception after which the caller does not know
whether it committed (`Fail`, `FailAfterSettling`). The actions are the calls
`process_payment` makes: `exists` (`SkipKnown`, `TakeNew`), the pre-check
(`Precheck`), settlement (`Settle`, `FindDuplicate`), the final status (`Record`),
the offset (`Commit`, `CommitFails`), the broker's assignments (`Assign`, `Revoke`),
and crash and restart. `failures` and `hintSkips` are history: the messages an
error line was logged for, and those skipped while the status was only
`"processing"`.

**Gateway** takes `POST /pay` apart at its calls to Redis and Kafka: `SET NX`
(`Claim`, `FindClaimed`, and `ClaimUnheard` where the client library repeats a SET NX that was carried out), `GET` (`AnswerDuplicate`, `LoseDuplicate`), `produce`,
`flush` (`Delivered`, `Undelivered`), the second `SET` with the answer
(`ReportQueued`, `ReportFailed`); any call may raise (`Raise`), even when it was
carried out, and the process may die (`Crash`). `expired` is history. The same module
covers one process and several. A process that starts, at first or after a crash, pings Redis up to
three times and then serves, whatever the answer (`PingRedis`); that an idle process or one still
starting dies is the same as a longer start, and is left out.

**SafePay** has no copy of the gateway or the worker: `G` and `W` are instances of
`Gateway` and `Worker` over shared state, and each of its actions is an action of one of them with the rest
unchanged, or of both (`Forward`: what the broker appends for the gateway is the log the worker reads).
Its own are the two calls of `GET /status`: `AskWorker` or `MissWorker`, then `AskGateway`. A process that is
between them (`asked`) takes no other request, as the handlers never await. `seen` is the last answer
about a key, `lapsed` and `booked` are history.

**Payments** is what a client needs to know, with none of that: a payment is sent,
forwarded, promised, booked, and `Look` may tell the client only what is true at that moment
(`Truths`). `SafePay!Honest` says that `SafePay` implements it, where "forwarded" is on the topic, "promised" is
answered "queued" and "booked" is settled in Postgres.

**Simulator** is `SimulationEngine.run` on `SimClock`: who may act in the hour (`Actors`), the
hour's batch, its tally, midnight, the limit of days as `MAX_SIM_DAYS` and `--max-days` give it, signals. `actual` and `passed` are history that the
properties compare the program's own figures with.

## 3. The runs

The passing runs ask whether what the code means to do holds; the four others show
a disagreement between the code and what its comments or documentation say.

| run | instance | what it shows |
|---|---|---|
| `ledger_settlement` | 3 sessions, 8 messages over 5 keys, 6 accounts, 3 currencies, faults anywhere | no overdraft, no second settlement, SET is safe, books balance, the inductive invariant of the proofs holds, and `Ledger` implements `Settlement` and `SettleOnce` |
| `cache_repair` | 2 sessions, payments in opposite directions, a fault or an INCRBY sent twice, expiry, restarts of Redis, the reconciler | drift is repaired once things are quiet, a key without time to live included, and stays repaired; every session ends although deadlocks occur |
| `cold_credit` (violation) | no fault, no expiry | INCRBY on a missing key leaves the balance wrong |
| `wiped_stores` | as `cache_repair`, and both scripts; two wipes or faults | no settlement straddles a wipe; a debit is not overwritten by another session |
| `ghost_balances` (violation) | `start.sh --fresh`, no fault, no expiry | the balance of a wiped account comes back |
| `worker_faults` | 2 workers, 3 messages over 2 keys, 2 interruptions, Redis and Postgres failing, expiry, hints | nothing is lost silently, statuses are true, order of the log |
| `worker_delivery` | 2 workers, 3 messages, one key that cannot be settled, 2 interruptions | every other message is settled in the end; skips are harmless as long as no hint is written |
| `commit_after_failure` (violation) | 1 worker, 2 messages | the offset of a failed message is committed by the next success |
| `skip_after_hint` (violation) | 2 workers, 1 interruption | a payment skipped because of the preliminary status though never settled |
| `gateway_pay` | 2 processes, a payment sent twice, failures, expiry, 2 copies | one transaction per key, "queued" is produced, statuses forward, an outcome told to one is told to all, handlers and start-ups end; `GatewayIInv` |
| `status` | 1 gateway process, 1 worker, a payment sent twice, status queries, failing gateway calls, 1 interruption, expiry | `SafePay` implements `Payments`; ids agree; an outcome stays; "queued" payments are settled; `SafePayIInv`, `OutcomeInv` |
| `simulator` | limits from -2 to 2, days of four hours, 2 users who act always, never or sometimes | figures, limit of days, signals, hours take their time; `SimulatorIInv` |

### Bounds, and why they are enough

* Sessions: 3 in `ledger_settlement`, since one session can wait for a second that
  is resolved by a third; 2 where expiry or faults multiply the states. The opening
  balance is 3 cents and the amounts 1 to 5, so that one payment is rejected at once, leaving
  an opened account and its rows, and of two others either is covered but not both.
  `MaxAmount` = 8 is never exceeded by a balance.
* `Payments` repeats `k4` with two bodies (the key does not cover the body), has a
  payment to oneself, one of 0, one in a currency without an equity row and one in a
  code the CHECK refuses.
* `MaxLog` = 3 is a failed or skipped message, a success behind it and a repeated key;
  `MaxInterruptions` = 2 lets the partition move there and back, or a worker die
  while the other holds the message. `MaxFaults` = 1 is one settlement broken off,
  at any statement, or one INCRBY sent twice. `MaxTroubles` = 2 is a wipe after or before one of these, or two wipes; that run has only the
  accounts and the currency its payments name.
* Two requests with one key are what idempotency is about; two processes contain
  the single process of the deployment. `MaxCopies` = 2 is one retry.
* `status` has the one gateway process of the deployment, on which `OutcomeStays` depends (section 5), and one worker,
  which may crash or lose the partition once and so read messages again; two workers are in the `worker_` runs. A message that
  the producer sends twice is left to `gateway_pay`, a status from the pre-check to `worker_faults`, a payment that cannot be settled
  to `worker_delivery`. So `CanHint` is FALSE and the third part of `OutcomeInv`, about preliminary statuses, is there for the proof and says
  nothing in this run; with them a crash makes a promised payment be skipped (`skip_after_hint`), and `PromisesKept` fails.
* `LastHour` = 3, `DayStartHour` = 1 and `DayEndHour` = 2 keep a first day that starts late, a night on
  both sides of midnight; the 24 hours of the code are the same steps more often.
* Symmetry (over workers, and over keys where none is special) is used in the
  runs that check only safety.

### Fairness, and why the code justifies it

* `BalanceCache`: weak fairness of `Settling(w)`. A session is a sequential program; Postgres
  grants a lock once it is free and its deadlock detector aborts one session of a
  cycle. Nothing obliges a fault to happen or not. Weak fairness of `Reconcile`, an endless loop that catches
  every exception; `DriftIsRepaired` supposes that passes stop failing.
* `Worker`: weak fairness of each running worker and of `Restart` (the worker of
  `deploy/ec2/compose.worker.yml:13,21` has `restart: unless-stopped`; the local
  compose file has no restart policy, and there `EventuallySettled` needs a second
  worker or an operator), and of the broker's assignment of an unowned partition.
  Redis expiry is not fair: keys may stay. A message with an error that keeps recurring is
  not assumed away: it is `Poison`.
* `Gateway`: weak fairness of the handler (`flush()` returns at the latest with
  librdkafka's message time-out, `ping_redis` after three attempts) and of the broker for a message that reaches it.
  That `flush()` returns is thereby assumed, not shown. Keys need not expire.
* `SafePay`: as in `Worker`, and of the broker for a message that reaches it. The gateway's handler is not assumed to
  go on: `PromisesKept` needs no more of it once it has answered.
* `Simulator`: weak fairness of the loop, strong fairness of `RequestStop`, since
  the event loop is idle only in `send`, and of an hour in which somebody acts: who acts is drawn anew
  each hour, with a probability that is not 0 by day or not 0 at night (`Personas`).

Deadlock is checked everywhere except in `gateway_pay` and `status` (their finite number of
requests is used up) and `simulator` (it stops).

## 4. The proofs

The `*Proofs` modules are checked by TLAPS for every value of the constants that satisfies the named
assumptions in `Schema`, `Ledger`, `BalanceCache`, `Worker`, `Gateway`, `SafePay` and `Simulator`: system accounts are
accounts, equity accounts differ by currency, amounts are integers, an opening balance is positive, no
payment key is an opening key (the gateway does not refuse an account called "opening"; section 5), `None` and `Null` are none of the values they stand for the absence of,
bounds are natural numbers, the requests of `SafePay` are finitely many. TLC evaluates them on each run. Nothing
else is assumed about how many sessions, workers, processes, requests or users there are; the exceptions are hypotheses of the
theorems that need them, named below.

| module | theorems | property |
|---|---|---|
| `LedgerProofs` | `Invariance`, `TypeCorrect`, `NeverOverdrawn`, `AtMostOnce`, `PlainSetIsSafe` | `LedgerIInv`, `TypeOK`, `NoOverdraft`, `SettledOnce`, `DebitRunsAlone` |
| | `Refinement`, `VerdictsNeverChange` | `SettlesAtomically`, `VerdictsAreFinal` |
| | `BooksAlwaysBalance` (finitely many accounts) | `BooksBalance` |
| `BalanceCacheProofs` | `ImplementsLedger`, `CacheTypeCorrect`, `PlainSetStands`, `PassesRepair` | `Spec` of `Ledger`, `CacheTypeOK`, `DebitStands`, `RepairStands` |
| `ResetProofs` | `LedgerSurvives`, `ResetTypeCorrect`, `NeverOverdrawnByWipes`, `PlainSetStandsWipes` | `LedgerIInv`, `ResetTypeOK`, `NoOverdraft`, `DebitStands` |
| | `BooksBalanceAfterWipes` (finitely many accounts) | `BooksBalance` |
| `WorkerProofs` | `Invariance`, `TypeCorrect`, `HandsAreClean`, `NothingLostSilently`, `StatusesAreTrue`, `SettledInOrder` | `TypeOK`, `HandInv`, `NoSilentLoss`, `StatusIsTrue`, `SettlesInOrder` |
| | `SkipsAreSafeWithoutHints` (no hint is written), `CommitsOnlySuccessWhenAllGoesWell` | `SkipsOnlySettled`, what `CommitsOnlySuccess` claims |
| | `RestsOnSettleOnce` | `UsesRegister` |
| `GatewayProofs` | `Invariance`, `TypeCorrect`, `QueuedReachesTopic`, `Idempotence`, `SameAnswers`, `StatusOnlyForward`, `DecisionsAreFinal` | `GatewayIInv`, `TypeOK`, `QueuedIsForwarded`, `OneTransactionPerKey`, `AnswersAgree`, `StatusForward`, `DecisionsStand` |
| `SafePayProofs` | `Invariance`, `TypeCorrect`, `LedgerHasWhatWasTold`, `ImplementsPayments` | `SafePayIInv`, `TypeOK`, `SameTransaction`, `Honest` |
| | `OutcomesHold`, `OutcomesAreKept` (one process, no late hint) | `OutcomeInv`, `OutcomeStays` |
| `SimulatorProofs` | `Invariance`, `TypeCorrect`, `FiguresAddUp`, `EndsWithTheDay`, `HoursTakeTheirTime` | `SimulatorIInv`, `TypeOK`, `FiguresAreRight`, `StopsOnTime`, `HoursLast` |

**Ledger.** The inductive invariant is `LedgerInv!LedgerIInv`, in parts that each say
what one group of statements has secured for the rest of its session: `RowsInv`
(account rows), `KeysInv` (a key inserted and not committed is new and nobody else's),
`OpeningsInv` (an account one pays from has entries, or is being opened by this session and no other),
`EntriesInv` (there are finitely many entries, each of an approved transaction),
`LocksInv` (FOR UPDATE keeps other sessions' locks off the row),
`VerdictInv` (what the balance check found is still true at the commit). None of the
safety properties is inductive without them: that a commit does not overdraw the account
needs `VerdictInv`, which another session's commit preserves only by `LocksInv`, which
an `INSERT` preserves because it waits (`WaitsFor`). From it follow

* `Invariance`, `TypeCorrect`, `NeverOverdrawn`, `AtMostOnce`, `PlainSetIsSafe`
  (Spec => [] of `LedgerIInv`, `TypeOK`, `NoOverdraft`, `SettledOnce`, `DebitRunsAlone`);
* `Refinement`: `Spec => SettlesAtomically`. Every step but `Commit` is a stutter of
  `Settlement`; `Commit` is a `Settle` step, with the verdict by `VerdictInv`;
* `VerdictsNeverChange`: `Spec => VerdictsAreFinal`. A commit sets the verdict of its own key, which
  had none (`KeysInv`), and leaves the others, openings included, as they were;
* `BooksAlwaysBalance`: `Spec => []BooksBalance`. A commit adds at most two pairs of entries to the ledger, all
  of them new by `EntriesInv` and `KeysInv`, and moves `account_balances` by the same amounts.

The sums of `BooksBalance` are folds over sets, of which the theorem modules say nothing. `SumProofs` derives what is
needed: that they are determined by their values at the empty set and at one more element (`SumEmpty`, `SumAt`),
and from this what a sum over a finite set is when the function changes at two points (`SumChange`). The induction is
written out as the search for a smallest finite set without the property (`NoSmallest`). `IsFiniteSet(Accounts)` is
a hypothesis, since a sum over infinitely many accounts is nothing; a table has finitely many rows.

**The seam between Ledger and Worker.** `Worker` has no tables: it sets `settled[k]` in one step. That it may is
in two theorems about one specification: `RestsOnSettleOnce` says that all it does to `settled` is what `SettleOnce`
allows, `VerdictsNeverChange` that the tables, read through `StatusOf`, do nothing else either, with the keys that no valid message has as `Poison`.

**Worker.** `WorkerProofs` strengthens `HandInv` (whatever a worker has gone past is
accounted for, and what it is about to record is the verdict in Postgres) with the
types and with what the offset and the statuses say; from it follow `TypeCorrect`, `NothingLostSilently`,
`StatusesAreTrue`, and the action property `SettledInOrder`.
`CommitsOnlySuccessWhenAllGoesWell` proves the claim that `commit_after_failure`
refutes under the assumptions it lacks: nothing fails, no key is poisoned and no hint is written.
`SkipsAreSafeWithoutHints` is what remains of the claim that `skip_after_hint` refutes: without hints only
settled messages are skipped, whatever else fails.

**Gateway.** That one key gives one transaction is not inductive: it needs what each process knows of
its key. `GatewayIInv` says so in parts: a handler past `SET NX` still has its own claim
under the key, as "accepted", unless the key has expired (`HolderInv`), which others preserve because they find the key there;
what is on the way to the topic or was answered is of the transaction that claimed the key (`SentInv`,
`ToldInv`), so two of a key are the same; a request is with one process at a time, which answers it
last (`ExclusiveInv`, `UnansweredInv`); and a handler about to answer "queued" has its message on the topic
(`DeliveredInv`). `Idempotence`, `SameAnswers` and `QueuedReachesTopic` are immediate then, and
`StatusOnlyForward` follows step by step, since only the holder writes. `DecisionsAreFinal` adds `DecisionsStand` to the
invariant: what is answered as "queued" or "failed" stands under the key, where the holder, the only one who could write, would
have to find its own "accepted" instead.

**SafePay.** A step of the gateway leaves the log of the worker alone or appends to it, a step of the
worker leaves the gateway alone, so the invariants of the two carry over from their own proofs: for the gateway by
`GatewayProofs` with the names of `SafePay`, for the worker likewise, where `Forward` is its `Produce`. What is added is the link:
the ledger has the id of a message on the topic (`BookedInv`), and the worker has a status only for what
is on the topic (`ConsumerInv`). `SameTransaction` follows from `SentInv`, `ToldInv` and `BookedInv`.
`ImplementsPayments` maps every step: `Pay` is a new request, a promise or a stutter (`PayRefines`), `Forward`
puts a payment on the topic (`ForwardRefines`), `Work` books it (`WorkRefines`), an answer
to a query is a `Look`, whose status is one of the `Truths` of that moment (`LookRefines`), and the rest is a
stutter (`OtherRefines`). What may be told only grows, because the two keys are
looked up one after the other and expire apart: "queued" stays true of a payment that is booked.

`OutcomesAreKept` needs `OutcomeInv` and two hypotheses. `OneProcess`: with two, an answer made of older look-ups
can come after the outcome. `NoLateHint`: with two workers and hints, the one that was overtaken
may set "processing" over an outcome. The deployment satisfies both: `docker-compose.yml` and the compose files of
`deploy/ec2` start one uvicorn process and one worker. The run checks it with one worker and no hints.

**BalanceCache and Reset.** Each step of `BalanceCache` is a step of `Ledger` or leaves it alone, so
`CacheSpec => Spec` and every invariant of the ledger is one of `BalanceCache`. `DebitStands` is an action property: if another session
wrote the key a session has just set, it would be past its own FOR UPDATE on the same account, or about to
credit it while it holds the account's row, which `LocksInv` excludes. `RepairStands` is the safety half of
`DriftIsRepaired`: while no session runs, a pass that is not given up keeps `Repairing`, through its own writes, expiry and
the passes that follow, and at its end this is exactness (`RepairedIsExact`). `Reset` is no
refinement of `Ledger`, since `TRUNCATE` is no step of it; its proof shows that `LedgerIInv` is preserved by a step that
rolls back several sessions, and by `Truncate`, which comes only when no session holds anything. That is where a
session which straddled the wipe would overdraw an account. `BooksBalanceAfterWipes` takes `BooksBalance` along: tables that
are emptied together balance.

**Simulator.** `SimulatorIInv` adds to the figures what ends an hour (`HourInv`) and why the loop is stopped (`StopInv`):
without a signal, only by the midnight after the last day, and the clock stands there since.

Only model-checked:

* every liveness property, since fairness and ENABLED are outside the prover: `SessionsComplete`, `DriftIsRepaired`,
  `EventuallySettled`, `RequestsEnd`, `PromisesKept`, `StopsOnSignal`;
* what the four violation runs refute.

## 5. Where the code and its text disagree

With a run:

1. `worker.py:95` promises "commit offset only after success"; `commit()` commits
   the consumer's position, so a message that failed is passed over with the
   next success (`commit_after_failure`).
2. `worker.py` says that the pre-check "never skips settle_payment"; its preliminary
   status makes a redelivered message be skipped if the worker died before it
   settled (`skip_after_hint`). After an hour the key is gone, but the offset has passed.
3. `balance_cache.py` calls INCRBY correct on a cold key; it counts from 0 when
   the account has a balance, as after its opening (`cold_credit`).
4. `start.sh --fresh` says "Postgres + Redis wiped"; the reconciler, which is not stopped, may have read the
   balances before and write them after (`ghost_balances`). With `reset-storage.sh` the same takes a pass that is slower than the script.

Met while modelling, described by hand and without a run of their own:

* The cache is written before the commit and not undone by a rollback, where `reconcile_balances.py:3-4`
  speaks of a crash "between the Postgres commit and the Redis SET"; the reconciler repairs it if the account
  has a row (`DriftIsRepaired`), and otherwise the key stays for its hour, or for good when it has no time to live.
* `_seed_opening_balance` is for new accounts (`ledger.py:50`); an account credited by another
  session between the look-up and the insertion is seeded as well. `Settlement!MayOpen` allows it.
* `TRUNCATE` may be the victim of a deadlock with a session (`Reset!Collide`): psql returns 0, and both scripts report success
  with Postgres as it was and Redis empty.
* After `--fresh` on a running stack, the worker may still write the status of a payment it settled before the `TRUNCATE`.
* When `consumer:<key>` (1 h) expires before `producer:<key>` (3 h), `GET /status` goes back from "approved" to "queued";
  with a second gateway process it could for a moment do so earlier. `OutcomeStays` is what remains.
* A worker that has lost the partition writes its status after the new owner's:
  "approved" can become "processed" (`worker.py:62`); `StatusIsTrue` is what remains true.
* `transactions_currency_match` (`001_schema.sql:38`) checks the form of the
  code, not that it matches the accounts; a payment in another currency than its
  account's reads a balance of 0 but its opening entries count.
* A repeat is answered 200 with "accepted" or "failed" although the first
  request never reached the topic (`main.py:101`), until the key expires.
* The version of the `redis` client is not pinned, and recent ones repeat a call whose reply was lost. A repeated SET NX finds the key it has
  set: the first request is answered 200 "accepted" and nothing is produced until the key expires (`Gateway!ClaimUnheard`). A repeated
  INCRBY counts twice, until the reconciler puts it right (`BalanceCache!IncrementAgain`).
* Nothing refuses an account called "opening". Its payment keys have the form of the keys of opening balances, `opening:<account>`, and the
  UNIQUE index then makes the later of the two count as a duplicate or fail. `KeysAssumption` leaves that name out.
* With nobody acting in an hour, `send_batch` returns without awaiting: the hour takes no real time,
  and a signal waits (`gateway_client.py:52`). With nobody ever acting, the loop spins and no signal stops it.
* `--max-days` takes a negative number, which `MAX_SIM_DAYS` refuses; it is a limit of one day (`StopsOnTime`).

## 6. Abstractions

* Timestamps, uuids, reject reasons, payment types and JSON are left out; ids are
  model values, a request stands for the transaction id drawn for it.
* An `INSERT` takes all its foreign-key locks at once.
* Transaction rows and entries are sets of records: a duplicate row would be
  the same element, so double booking is seen in `account_balances`, which `BooksBalance`
  compares with the entries.
* Times to live are not counted: a key that has one may expire at any moment, which includes the moments the
  clock allows; a key without one is only lost with all others when Redis restarts empty (`BalanceCache!lasting`, `RestartRedis`).
* Of the calls that a client library may repeat, only SET NX and INCRBY have a second effect; the others are modelled once.
* A session that is broken off makes no further calls to Redis; a worker that has lost only its connection
  to Postgres notices at its next statement.
* `GET /balance` is one step, and reads nothing the properties compare across steps.
* At the ledger level a commit whose answer is lost is a `Commit`; the caller's
  uncertainty is `Worker!FailAfterSettling`.
* In `SafePay` a payment is booked under the request that was at the worker's position, since of a message the worker uses the key and
  the ledger keeps the transaction id.
* `sim_day` is counted until the limit is passed, which is all the code compares.

## 7. Not modelled, and why

The load test is a client that sends unrelated payments and prints statistics, and keeps no state between them; what it sends is among the
inputs of `Ledger`. The AWS scripts, compose files, Terraform and logging have no
state of their own; what of them matters (one partition, one gateway process, restart policy, time-outs)
is in the constants and the fairness. Of the operations scripts, waiting for containers and opening browsers is left out.

## 8. Plan

Done: all modules of section 2, each with its instances, and the proofs of section 4.

Next:

1. The safety half of `SessionsComplete`, as `RepairStands` is that of `DriftIsRepaired`: a session in a
   cycle is the only one that waits without end.
2. One module in which `SafePay` runs on `Ledger` itself, in place of the two theorems that meet in `SettleOnce`.

Recursion is avoided; the sums of `BooksBalance` are folds of the community modules.

## 9. Running it

    tlc -workers 2 -config MCLedger_settlement.cfg MCLedger
    tlapm LedgerProofs.tla
