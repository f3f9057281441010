---------------------------- MODULE BalanceCache ----------------------------
(***************************************************************************)
(* The Redis keys balance:<account>:<currency>: webhook-worker             *)
(* balance_cache.py as ledger.py calls it, inside the transaction and      *)
(* before its commit, and the reconciler of reconcile_balances.py, which   *)
(* reads all balances at once and writes them back one by one.             *)
(***************************************************************************)
EXTENDS Ledger

CONSTANTS
    CanExpire,      \* may a key expire, or Redis restart empty?
    Reconciles,     \* does the reconciler run?
    MaxFaults       \* bound: sessions that break off, and calls sent twice

\* A balance is not the absence of one.
ASSUME CacheAssumption ==
    /\ CanExpire \in BOOLEAN
    /\ Reconciles \in BOOLEAN
    /\ MaxFaults \in Nat
    /\ Null \notin Int

VARIABLES
    cache,          \* <<account, currency>> -> cents, or Null while there is no key
    lasting,        \* the keys without a time to live
    incremented,    \* sessions between INCRBY and EXPIRE
    rows,           \* the balances the reconciler has read
    todo,           \* the keys it has still to write
    faults          \* how many sessions have broken off, or sent a call twice

reconciler == <<rows, todo>>
redis == <<cache, lasting, incremented>>
cacheVars == <<vars, redis, reconciler, faults>>

CacheTypeOK ==
    /\ TypeOK
    /\ cache \in [Accounts \X Currencies -> Int \cup {Null}]
    /\ lasting \subseteq {k \in Accounts \X Currencies : cache[k] # Null}
    /\ incremented \subseteq {w \in Workers : pc[w] = "credit"}
    /\ rows \in [Accounts -> Int]
    /\ todo \subseteq Accounts \X Currencies
    /\ faults \in 0..MaxFaults

CacheInit ==
    /\ Init
    /\ cache = [k \in Accounts \X Currencies |-> Null]
    /\ lasting = {}
    /\ incremented = {}
    /\ rows = [a \in Accounts |-> 0]
    /\ todo = {}
    /\ faults = 0

-----------------------------------------------------------------------------
(* The worker.                                                             *)

\* SET key value EX: with a time to live.
SetKey(k, cents) ==
    /\ cache' = [cache EXCEPT ![k] = cents]
    /\ lasting' = lasting \ {k}

SourceKey(w) == <<pay[w].source, pay[w].currency>>
DestinationKey(w) == <<pay[w].destination, pay[w].currency>>

\* debit: SET to the balance read under FOR UPDATE, less the amount.
Debit(w) ==
    /\ DebitCache(w)
    /\ SetKey(SourceKey(w), Available(w) - pay[w].amount)
    /\ UNCHANGED <<incremented, reconciler, faults>>

\* INCRBY counts from 0 and sets no time to live when there is no key.
IncrementKey(k, cents) ==
    /\ cache' = [cache EXCEPT ![k] = (IF @ = Null THEN 0 ELSE @) + cents]
    /\ lasting' = lasting \cup (IF cache[k] = Null THEN {k} ELSE {})

\* credit: INCRBY,
Increment(w) ==
    /\ pc[w] = "credit"
    /\ w \notin incremented
    /\ IncrementKey(DestinationKey(w), pay[w].amount)
    /\ incremented' = incremented \cup {w}
    /\ UNCHANGED <<vars, reconciler, faults>>

\* which is carried out twice where the client library of Redis repeats a call
\* whose reply was lost (its version is not pinned),
IncrementAgain(w) ==
    /\ CanFault
    /\ faults < MaxFaults
    /\ faults' = faults + 1
    /\ w \in incremented
    /\ IncrementKey(DestinationKey(w), pay[w].amount)
    /\ UNCHANGED <<vars, incremented, reconciler>>

\* then EXPIRE, which does nothing when there is no key any more.
SetExpiry(w) ==
    /\ w \in incremented
    /\ CreditCache(w)
    /\ lasting' = lasting \ {DestinationKey(w)}
    /\ incremented' = incremented \ {w}
    /\ UNCHANGED <<cache, reconciler, faults>>

\* The SQL of a session does not touch the cache, and nothing undoes in Redis
\* what the session of a fault has written there.
Statements(w) == (Call(w) \/ Sql(w)) /\ UNCHANGED <<redis, reconciler, faults>>

\* What a session does once it has begun.
Settling(w) == (Sql(w) /\ UNCHANGED <<redis, reconciler, faults>>)
                 \/ Debit(w) \/ Increment(w) \/ SetExpiry(w)

BreakOff(w) ==
    /\ faults < MaxFaults
    /\ faults' = faults + 1
    /\ Fault(w)
    /\ incremented' = incremented \ {w}
    /\ UNCHANGED <<cache, lasting, reconciler>>

-----------------------------------------------------------------------------
(* The gateway, Redis and the reconciler.                                  *)

\* GET /balance/<a>?currency=<c>: the cached balance, else the one in Postgres,
\* which is Null (404) for a currency the account is not kept in.
ServedBalance(a, c) ==
    IF cache[<<a, c>>] # Null THEN cache[<<a, c>>]
    ELSE IF accounts[a] = c THEN account_balances[a] ELSE Null

\* A key reaches its hour without being set.
Expire(k) ==
    /\ CanExpire
    /\ cache[k] # Null
    /\ k \notin lasting
    /\ cache' = [cache EXCEPT ![k] = Null]
    /\ UNCHANGED <<vars, lasting, incremented, reconciler, faults>>

\* Redis comes back empty, without the keys that have no time to live as well.
RestartRedis ==
    /\ CanExpire
    /\ cache' = [k \in Accounts \X Currencies |-> Null]
    /\ lasting' = {}
    /\ UNCHANGED <<vars, incremented, reconciler, faults>>

\* SELECT account_id, currency, balance_cents FROM account_balances.
ReadBalances ==
    /\ Reconciles
    /\ todo = {}
    /\ rows' = account_balances
    /\ todo' = {<<a, accounts[a]>> : a \in {b \in Accounts : accounts[b] # Null}}
    /\ UNCHANGED <<vars, redis, faults>>

\* Variant: only a missing key is written.
WriteMissing(k) ==
    /\ k \in todo
    /\ cache' = [cache EXCEPT ![k] = IF @ = Null THEN rows[k[1]] ELSE @]
    /\ todo' = todo \ {k}
    /\ UNCHANGED <<vars, lasting, incremented, rows, faults>>

WriteBalance(k) ==
    /\ k \in todo
    /\ SetKey(k, rows[k[1]])
    /\ todo' = todo \ {k}
    /\ UNCHANGED <<vars, incremented, rows, faults>>

\* A pass fails, or the process is restarted; the next one starts afresh.
AbandonPass ==
    /\ CanFault
    /\ todo # {}
    /\ todo' = {}
    /\ UNCHANGED <<vars, redis, rows, faults>>

Reconcile == ReadBalances \/ \E k \in Accounts \X Currencies : WriteBalance(k)

CacheNext ==
    \/ \E w \in Workers : \/ Statements(w) \/ Debit(w) \/ Increment(w) \/ SetExpiry(w)
                          \/ BreakOff(w) \/ IncrementAgain(w)
    \/ RestartRedis \/ \E k \in Accounts \X Currencies : Expire(k)
    \/ Reconcile
    \/ AbandonPass

CacheSpec == CacheInit /\ [][CacheNext]_cacheVars

\* A session is not left standing at a statement it could run: the worker is a
\* plain sequential program, and Postgres runs its deadlock detector.  The
\* reconciler loops forever, catching every exception.
CacheFairSpec ==
    /\ CacheSpec
    /\ \A w \in Workers : WF_cacheVars(Settling(w))
    /\ WF_cacheVars(Reconcile)

-----------------------------------------------------------------------------
(* Properties.                                                             *)

Quiet == \A w \in Workers : pc[w] = "idle"

\* The owner of a is served the balance that Postgres has, and from a key that will
\* expire.
ExactFor(a) ==
    /\ ServedBalance(a, accounts[a]) = account_balances[a]
    /\ <<a, accounts[a]>> \notin lasting

Exact == \A a \in Accounts : accounts[a] # Null => ExactFor(a)

\* "Safe as a plain SET": from the debit of an account to the end of the session
\* that debits it, no other session debits or credits the same key.
DebitStands ==
    [][\A w, v \in Workers :
          /\ w # v /\ (Debit(v) \/ Increment(v) \/ IncrementAgain(v))
          /\ pc[w] \in {"credit", "commit"} /\ verdict[w] = "approved"
          => cache'[SourceKey(w)] = cache[SourceKey(w)]
      ]_cacheVars

\* "Safety net for drift": once settlement comes to rest and passes no longer
\* fail, the reconciler makes the cache exact for good, whatever had put it
\* wrong, a crash between INCRBY and EXPIRE or an INCRBY sent twice included.
DriftIsRepaired == <>[]Quiet /\ <>[][~AbandonPass]_cacheVars => <>[]Exact

\* The reconciler's pass is going right: what it has still to write is true, and
\* what it has not is exact.  When nothing is left to write, that is Exact.
Repairing ==
    /\ \A k \in todo : rows[k[1]] = account_balances[k[1]]
    /\ \A a \in Accounts : accounts[a] # Null => <<a, accounts[a]>> \in todo \/ ExactFor(a)

\* The safety half of DriftIsRepaired: from the query of a pass on, and between
\* passes, no write, expiry or further query spoils what is repaired, as long as
\* no session runs and the pass is not given up.
RepairStands ==
    [][Quiet /\ Quiet' /\ ~AbandonPass /\ (Repairing \/ ReadBalances) => Repairing']_cacheVars

\* A session ends by commit or rollback: waiting for locks and rows does not
\* hold it for ever, although the foreign keys' locks make deadlocks possible.
SessionsComplete == \A w \in Workers : pc[w] # "idle" ~> pc[w] = "idle"

\* "INCRBY is correct even on a cold/missing key": with no failure, no expiry and
\* no reconciler needed, the cache is exact whenever nothing is in flight.
ExactWhenQuiet == Quiet => Exact
=============================================================================
