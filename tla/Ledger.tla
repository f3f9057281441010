------------------------------- MODULE Ledger -------------------------------
(***************************************************************************)
(* settle_payment (webhook-worker/ledger.py) as the sequence of SQL        *)
(* statements it is, run by several worker processes at once on Postgres   *)
(* at its default isolation level, READ COMMITTED.                         *)
(*                                                                         *)
(* A step is one statement.  A statement sees the rows committed before it *)
(* starts and the rows its own transaction wrote, and waits where Postgres *)
(* makes it wait: for a uniqueness conflict with a row another transaction *)
(* has inserted but not committed, and for the row locks on accounts.  The *)
(* foreign keys of transactions and ledger_entries take a KEY SHARE lock   *)
(* on each account they name; SELECT ... FOR UPDATE conflicts with it.     *)
(***************************************************************************)
EXTENDS Schema, Relation

CONSTANTS
    Workers,        \* the worker processes, each with one connection at a time
    CanFault        \* may a session break off between two statements?

ASSUME FaultAssumption == CanFault \in BOOLEAN

VARIABLES
    pc,             \* the statement each session runs next
    pay,            \* the payment it settles
    created,        \* account rows it has inserted and not committed
    opened,         \* has it inserted an opening transaction?
    verdict         \* the status its transaction row has now

session == <<pc, pay, created, opened, verdict>>
vars == <<tables, session>>

\* The statements of settle_payment, in order.
Steps == {"idle", "ensure_source", "ensure_destination", "seed", "ensure_equity",
          "open", "insert", "lock", "check", "debit", "credit", "commit"}

\* From the INSERT of the pending row on, and from FOR UPDATE on.
Inserted == {"lock", "check", "debit", "credit", "commit"}
Locked == {"check", "debit", "credit", "commit"}

TypeOK ==
    /\ TablesTypeOK
    /\ pc \in [Workers -> Steps]
    /\ pay \in [Workers -> Payments \cup {Null}]
    /\ \A w \in Workers : pc[w] # "idle" => pay[w] \in Payments
    /\ created \in [Workers -> SUBSET Accounts]
    /\ opened \in [Workers -> BOOLEAN]
    /\ verdict \in [Workers -> {"pending", "approved", "rejected"}]

-----------------------------------------------------------------------------
(* Row locks and waiting.                                                  *)

\* Accounts whose row a session has locked with SELECT ... FOR UPDATE.
ForUpdate(w) == IF pc[w] \in Locked THEN {pay[w].source} ELSE {}

\* Variant: no foreign key on the destination account.
KeyShareOfSource(w) ==
    (IF opened[w] THEN {Equity[pay[w].currency], pay[w].source} ELSE {})
    \cup (IF pc[w] \in Inserted THEN {pay[w].source} ELSE {})

\* Accounts whose row a session has locked through the foreign keys of the
\* transaction rows and ledger entries it inserted.
KeyShare(w) ==
    (IF opened[w] THEN {Equity[pay[w].currency], pay[w].source} ELSE {})
    \cup (IF pc[w] \in Inserted THEN {pay[w].source, pay[w].destination} ELSE {})

\* Variant: the source row is read without FOR UPDATE.
WaitsForKeysOnly(w, v) ==
    \/ pc[w] = "ensure_source" /\ pay[w].source \in created[v]
    \/ pc[w] = "ensure_destination" /\ pay[w].destination \in created[v]
    \/ pc[w] = "ensure_equity" /\ Equity[pay[w].currency] \in created[v]
    \/ pc[w] = "open" /\ opened[v] /\ pay[v].source = pay[w].source
    \/ pc[w] = "insert" /\ pc[v] \in Inserted /\ pay[v].key = pay[w].key

\* Variant: autocommit, where no lock outlives its statement.
WaitsForNobody(w, v) == FALSE

\* Does the statement w runs next have to wait for the session of v to end?
WaitsFor(w, v) ==
    \/ pc[w] = "ensure_source" /\ pay[w].source \in created[v]
    \/ pc[w] = "ensure_destination" /\ pay[w].destination \in created[v]
    \/ pc[w] = "ensure_equity" /\ Equity[pay[w].currency] \in created[v]
    \/ /\ pc[w] = "open"
       /\ \/ opened[v] /\ pay[v].source = pay[w].source
          \/ ForUpdate(v) \cap {Equity[pay[w].currency], pay[w].source} # {}
    \/ /\ pc[w] = "insert"
       /\ \/ pc[v] \in Inserted /\ pay[v].key = pay[w].key
          \/ ForUpdate(v) \cap {pay[w].source, pay[w].destination} # {}
    \/ /\ pc[w] = "lock"
       /\ pay[w].source \in KeyShare(v) \cup ForUpdate(v)

Waiting(w) == \E v \in Workers \ {w} : WaitsFor(w, v)

\* Variant: nobody resolves a deadlock.
DeadlockUnseen(w) == w \notin Workers

\* Postgres finds w, which waits, on a cycle of sessions that wait for each other.
Deadlocked(w) ==
    /\ Waiting(w)
    /\ LET waits == [e \in Workers \X Workers |-> e[1] # e[2] /\ WaitsFor(e[1], e[2])]
       IN  TransitiveClosure(waits, Workers)[<<w, w>>]

\* Variant: no UNIQUE on idempotency_key, only the look-up at the start.
ViolatesRowChecks(w) ==
    \/ pc[w] = "open" /\ ~ValidRow(Opening(pay[w].source, pay[w].currency))
    \/ pc[w] = "insert" /\ ~ValidRow(pay[w])

\* Variant: no CHECK on the rows of transactions.
ViolatesKeysOnly(w) ==
    \/ pc[w] = "open" /\ HasTransaction(OpeningKey(pay[w].source))
    \/ pc[w] = "insert" /\ HasTransaction(pay[w].key)

\* The next statement violates a constraint of the schema.
Violates(w) ==
    \/ /\ pc[w] = "open"
       /\ \/ HasTransaction(OpeningKey(pay[w].source))
          \/ ~ValidRow(Opening(pay[w].source, pay[w].currency))
    \/ pc[w] = "insert" /\ (HasTransaction(pay[w].key) \/ ~ValidRow(pay[w]))

\* w runs statement s to its end and goes on to next.
Statement(w, s, next) ==
    /\ pc[w] = s
    /\ ~Waiting(w)
    /\ ~Violates(w)
    /\ pc' = [pc EXCEPT ![w] = next]

-----------------------------------------------------------------------------
(* The statements.                                                         *)

\* settle_payment(p) ends at once when a required field is missing (an amount of
\* 0 counts as missing) or when the idempotency key has a row: "duplicate".
EndsAtOnce(p) == p.amount = 0 \/ HasTransaction(p.key)

ReturnEarly(w, p) == pc[w] = "idle" /\ EndsAtOnce(p) /\ UNCHANGED vars

Begin(w, p) ==
    /\ pc[w] = "idle"
    /\ ~EndsAtOnce(p)
    /\ pc' = [pc EXCEPT ![w] = "ensure_source"]
    /\ pay' = [pay EXCEPT ![w] = p]
    /\ UNCHANGED <<tables, created, opened, verdict>>

\* _ensure_account: INSERT ... ON CONFLICT (account_id) DO NOTHING.
EnsureAccount(w, a, s, next) ==
    /\ Statement(w, s, next)
    /\ created' = [created EXCEPT ![w] = @ \cup (IF accounts[a] = Null THEN {a} ELSE {})]
    /\ UNCHANGED <<tables, pay, opened, verdict>>

EnsureSource(w) ==
    EnsureAccount(w, pay[w].source, "ensure_source", "ensure_destination")

EnsureDestination(w) ==
    EnsureAccount(w, pay[w].destination, "ensure_destination", "seed")

\* Variant: accounts are not seeded.
CheckSeedNever(w) ==
    /\ Statement(w, "seed", "insert")
    /\ UNCHANGED <<tables, pay, created, opened, verdict>>

\* _seed_opening_balance decides: SELECT 1 FROM ledger_entries.
CheckSeed(w) ==
    /\ Statement(w, "seed",
                 IF NeedsOpening(pay[w].source) THEN "ensure_equity" ELSE "insert")
    /\ UNCHANGED <<tables, pay, created, opened, verdict>>

EnsureEquity(w) ==
    EnsureAccount(w, Equity[pay[w].currency], "ensure_equity", "open")

\* The opening transaction and its two entries.
InsertOpening(w) ==
    /\ Statement(w, "open", "insert")
    /\ opened' = [opened EXCEPT ![w] = TRUE]
    /\ UNCHANGED <<tables, pay, created, verdict>>

\* INSERT INTO transactions ... 'pending'.
InsertPending(w) ==
    /\ Statement(w, "insert", "lock")
    /\ UNCHANGED <<tables, pay, created, opened, verdict>>

\* SELECT 1 FROM accounts ... FOR UPDATE.
LockSource(w) ==
    /\ Statement(w, "lock", "check")
    /\ UNCHANGED <<tables, pay, created, opened, verdict>>

\* Variant: the balance as it was before this session's own opening entries.
AvailableCommitted(w) ==
    BalanceCents(pay[w].source, pay[w].currency,
                 WithAccounts(created[w], pay[w].currency), account_balances)

\* The balance _get_balance_cents returns to the session of w.
Available(w) ==
    BalanceCents(pay[w].source, pay[w].currency,
                 WithAccounts(created[w], pay[w].currency), OwnBalances(pay[w], opened[w]))

\* Variant: the status of the row is not updated.
CheckBalanceOnly(w) ==
    /\ Statement(w, "check", IF Available(w) < pay[w].amount THEN "commit" ELSE "debit")
    /\ UNCHANGED <<tables, pay, created, opened, verdict>>

\* The balance check, then the status update and, when the payment is approved,
\* its double entry.  These later statements touch rows only w can see.
CheckBalance(w) ==
    LET status == IF Available(w) < pay[w].amount THEN "rejected" ELSE "approved"
    IN  /\ Statement(w, "check", IF status = "approved" THEN "debit" ELSE "commit")
        /\ verdict' = [verdict EXCEPT ![w] = status]
        /\ UNCHANGED <<tables, pay, created, opened>>

\* balance_cache.debit and balance_cache.credit run before the commit, with the
\* locks held.  What they do to Redis is modelled in BalanceCache.tla.
DebitCache(w) ==
    /\ Statement(w, "debit", "credit")
    /\ UNCHANGED <<tables, pay, created, opened, verdict>>

CreditCache(w) ==
    /\ Statement(w, "credit", "commit")
    /\ UNCHANGED <<tables, pay, created, opened, verdict>>

\* The session of w ends: its locks and its uncommitted rows are gone.
EndSession(w) ==
    /\ pc' = [pc EXCEPT ![w] = "idle"]
    /\ pay' = [pay EXCEPT ![w] = Null]
    /\ created' = [created EXCEPT ![w] = {}]
    /\ opened' = [opened EXCEPT ![w] = FALSE]
    /\ verdict' = [verdict EXCEPT ![w] = "pending"]

\* Leaving "with conn" commits.
Commit(w) ==
    /\ pc[w] = "commit"
    /\ Write(pay[w], opened[w], verdict[w], created[w])
    /\ EndSession(w)

\* An exception inside "with conn" rolls back, and settle_payment raises.
Rollback(w) == EndSession(w) /\ UNCHANGED tables

\* A CHECK or UNIQUE constraint fails, once there is nothing left to wait for.
ConstraintError(w) == Violates(w) /\ ~Waiting(w) /\ Rollback(w)

\* Postgres ends a deadlock by aborting one of the sessions in it.
DeadlockError(w) == Deadlocked(w) /\ Rollback(w)

\* The connection, Redis or the worker process fails.
Fault(w) == CanFault /\ pc[w] # "idle" /\ Rollback(w)

-----------------------------------------------------------------------------
Init ==
    /\ InitTables
    /\ pc = [w \in Workers |-> "idle"]
    /\ pay = [w \in Workers |-> Null]
    /\ created = [w \in Workers |-> {}]
    /\ opened = [w \in Workers |-> FALSE]
    /\ verdict = [w \in Workers |-> "pending"]

\* The statements of a session that has begun, and how they can fail.
Sql(w) ==
    \/ EnsureSource(w) \/ EnsureDestination(w)
    \/ CheckSeed(w) \/ EnsureEquity(w) \/ InsertOpening(w)
    \/ InsertPending(w) \/ LockSource(w) \/ CheckBalance(w) \/ Commit(w)
    \/ ConstraintError(w) \/ DeadlockError(w)

\* What a session does once it has begun, faults aside.
Run(w) == Sql(w) \/ DebitCache(w) \/ CreditCache(w)

Call(w) == \E p \in Payments : ReturnEarly(w, p) \/ Begin(w, p)

Next == \E w \in Workers : Call(w) \/ Run(w) \/ Fault(w)

Spec == Init /\ [][Next]_vars

-----------------------------------------------------------------------------
(* Properties.                                                             *)

\* No customer or merchant ever owes money: concurrent payments from one
\* account cannot both spend the same cents (FOR UPDATE, then the balance).
NoOverdraft == \A a \in Accounts \ SystemAccounts : account_balances[a] >= 0

\* However often and by whomever a message is processed, its idempotency key
\* is settled at most once, and so is the opening of an account.
SettledOnce == \A r, s \in transactions : r.txn.key = s.txn.key => r = s

\* The books balance: account_balances holds the sums of the entries, which each
\* commit moves along; the entries of one transaction add up to nothing, as
\* enforce_balanced_ledger_entries demands; and so do the balances of all accounts.
BooksBalance ==
    /\ \A a \in Accounts :
          account_balances[a] = SumFunctionOnSet(SignedCents, {e \in ledger : e.account = a})
    /\ \A r \in transactions :
          SumFunctionOnSet(SignedCents, {e \in ledger : e.txn = r.txn}) = 0
    /\ SumFunctionOnSet(account_balances, Accounts) = 0

\* balance_cache.debit may use a plain SET: while a session is about to debit
\* an account in the cache, no other session can be debiting or crediting that
\* account, because its KEY SHARE lock would have kept FOR UPDATE waiting.
DebitRunsAlone ==
    \A w, v \in Workers :
        w # v /\ pc[w] = "debit" /\ pc[v] \in Locked
            => pay[w].source \notin {pay[v].source, pay[v].destination}

\* The statements of concurrent sessions add up to settlements that each
\* happen at once, in the order of the commits.
Atomic == INSTANCE Settlement
SettlesAtomically == Atomic!Spec

\* The payment keys whose messages the schema all refuses.
Refused == {k \in PaymentKeys : \A p \in Payments : p.key = k => ~ValidRow(p)}

\* The status committed under each payment key.
RowOf(k) == CHOOSE r \in transactions : r.txn.key = k
StatusOf == [k \in PaymentKeys |-> IF HasTransaction(k) THEN RowOf(k).status ELSE Null]

\* To its caller settle_payment is a register that is set once: a key gets one
\* verdict, which no later message under it changes, whatever its body, and a key
\* whose messages break a constraint gets none.
Register == INSTANCE SettleOnce
    WITH Keys <- PaymentKeys, Poison <- Refused, None <- Null, settled <- StatusOf
VerdictsAreFinal == Register!Spec
=============================================================================
