------------------------- MODULE BalanceCacheProofs -------------------------
(***************************************************************************)
(* Proofs about BalanceCache.  Redis and the reconciler decide nothing in  *)
(* the ledger, so that what LedgerProofs shows holds of the sessions here; *)
(* and the row locks of the sessions keep the writers of one key apart.    *)
(***************************************************************************)
EXTENDS BalanceCache, LedgerProofs

\* A step is one of the ledger, or the ledger does not see it.
LEMMA LedgerSees ==
    ASSUME [CacheNext]_cacheVars
    PROVE  [Next]_vars
  <1>1. ASSUME NEW w \in Workers,
               \/ Statements(w) \/ Debit(w) \/ Increment(w) \/ SetExpiry(w)
               \/ BreakOff(w) \/ IncrementAgain(w)
        PROVE  Next \/ UNCHANGED vars
    BY <1>1 DEF Statements, Debit, Increment, SetExpiry, BreakOff, IncrementAgain, Next, Run
  <1>2. ASSUME \/ Reconcile \/ AbandonPass \/ RestartRedis
               \/ \E k \in Accounts \X Currencies : Expire(k)
        PROVE  UNCHANGED vars
    BY <1>2 DEF Reconcile, ReadBalances, WriteBalance, AbandonPass, RestartRedis, Expire
  <1>3. CASE UNCHANGED cacheVars
    BY <1>3 DEF cacheVars
  <1> QED
    BY <1>1, <1>2, <1>3 DEF CacheNext

\* The sessions settle payments as Ledger says, whatever Redis holds.
THEOREM ImplementsLedger == CacheSpec => Spec
  <1>1. CacheInit => Init
    BY DEF CacheInit
  <1>2. [CacheNext]_cacheVars => [Next]_vars
    BY LedgerSees
  <1> QED
    BY <1>1, <1>2, PTL DEF CacheSpec, Spec

\* Both keys of a payment are keys of the cache, and what is put there are cents.
LEMMA SessionKeys ==
    ASSUME TypeOK, NEW w \in Workers, pc[w] # "idle"
    PROVE  /\ SourceKey(w) \in Accounts \X Currencies
           /\ DestinationKey(w) \in Accounts \X Currencies
           /\ pay[w].amount \in Int
           /\ pc[w] \in Inserted => Available(w) \in Int
  <1>1. pay[w] \in Payments
    BY DEF TypeOK
  <1>2. /\ pay[w].source \in Accounts /\ pay[w].destination \in Accounts
        /\ pay[w].currency \in Currencies /\ pay[w].amount \in Int
    BY <1>1, PaymentsAssumption
  <1>3. Opening(pay[w].source, pay[w].currency) \in Payments \cup Openings
    BY <1>2 DEF Openings
  <1>4. account_balances \in [Accounts -> Int]
    BY DEF TypeOK, TablesTypeOK
  <1>5. OwnBalances(pay[w], opened[w]) \in [Accounts -> Int]
    BY <1>3, <1>4, MovedType DEF OwnBalances
  <1> QED
    BY <1>2, <1>5 DEF SourceKey, DestinationKey, Available, BalanceCents

\* A session at INCRBY waits for nothing, so that Postgres does not abort it there.
LEMMA StatementsElsewhere ==
    ASSUME TypeOK, NEW w \in Workers, Statements(w)
    PROVE  /\ pc[w] # "credit" \/ UNCHANGED pc
           /\ \A v \in Workers \ {w} : pc'[v] = pc[v]
  <1>1. CASE ConstraintError(w) \/ DeadlockError(w)
    BY <1>1
    DEF TypeOK, ConstraintError, DeadlockError, Violates, Deadlocked, Waiting, WaitsFor, Rollback,
        EndSession
  <1>2. CASE Commit(w) \/ \E p \in Payments : ReturnEarly(w, p) \/ Begin(w, p)
    BY <1>2 DEF TypeOK, Commit, EndSession, ReturnEarly, Begin, vars, session
  <1>3. CASE EnsureSource(w) \/ EnsureDestination(w) \/ CheckSeed(w) \/ EnsureEquity(w)
               \/ InsertOpening(w) \/ InsertPending(w) \/ LockSource(w) \/ CheckBalance(w)
    BY <1>3
    DEF TypeOK, EnsureSource, EnsureDestination, EnsureEquity, EnsureAccount, CheckSeed,
        InsertOpening, InsertPending, LockSource, CheckBalance, Statement
  <1> QED
    BY <1>1, <1>2, <1>3 DEF Statements, Call, Sql

\* What SET leaves in the cache, and what it leaves lasting.
LEMMA SetKeyTypes ==
    ASSUME CacheTypeOK, NEW k \in Accounts \X Currencies, NEW cents \in Int, SetKey(k, cents)
    PROVE  /\ cache' \in [Accounts \X Currencies -> Int \cup {Null}]
           /\ lasting' \subseteq {j \in Accounts \X Currencies : cache'[j] # Null}
  BY CacheAssumption DEF CacheTypeOK, SetKey

\* What INCRBY leaves there.
LEMMA IncrementKeyTypes ==
    ASSUME CacheTypeOK, NEW k \in Accounts \X Currencies, NEW cents \in Int, IncrementKey(k, cents)
    PROVE  /\ cache' \in [Accounts \X Currencies -> Int \cup {Null}]
           /\ lasting' \subseteq {j \in Accounts \X Currencies : cache'[j] # Null}
  <1> DEFINE sum == (IF cache[k] = Null THEN 0 ELSE cache[k]) + cents
  <1>1. cache[k] \in Int \cup {Null}
    BY DEF CacheTypeOK
  <1>2. sum \in Int
    BY <1>1
  <1>3. cache' = [cache EXCEPT ![k] = sum] /\ lasting' \subseteq lasting \cup {k}
    BY DEF IncrementKey
  <1> HIDE DEF sum
  <1> QED
    BY <1>2, <1>3, CacheAssumption DEF CacheTypeOK

LEMMA CacheTypeStep ==
    ASSUME CacheTypeOK, LedgerIInv, [CacheNext]_cacheVars
    PROVE  CacheTypeOK'
  <1> USE DEF CacheTypeOK
  <1>1. TypeOK'
    BY LedgerSees, InvStep DEF LedgerIInv
  <1>2. CASE UNCHANGED cacheVars
    BY <1>1, <1>2 DEF cacheVars, vars, session, redis, reconciler
  <1>3. ASSUME NEW w \in Workers, Statements(w)
        PROVE  CacheTypeOK'
    <2>1. UNCHANGED <<redis, reconciler, faults>>
      BY <1>3 DEF Statements
    <2>2. incremented \subseteq {v \in Workers : pc'[v] = "credit"}
      BY <1>3, StatementsElsewhere
    <2> QED
      BY <1>1, <2>1, <2>2 DEF redis, reconciler
  <1>4. ASSUME NEW w \in Workers, Debit(w)
        PROVE  CacheTypeOK'
    <2>1. /\ pc[w] = "debit" /\ pc' = [pc EXCEPT ![w] = "credit"]
          /\ SetKey(SourceKey(w), Available(w) - pay[w].amount)
          /\ UNCHANGED <<incremented, reconciler, faults>>
      BY <1>4 DEF Debit, DebitCache, Statement
    <2>2. /\ SourceKey(w) \in Accounts \X Currencies
          /\ Available(w) - pay[w].amount \in Int
      BY <2>1, SessionKeys DEF Inserted
    <2>3. incremented' \subseteq {v \in Workers : pc'[v] = "credit"}
      BY <2>1 DEF TypeOK
    <2> QED
      BY <1>1, <2>1, <2>2, <2>3, SetKeyTypes DEF reconciler
  <1>5. ASSUME NEW w \in Workers, Increment(w) \/ IncrementAgain(w)
        PROVE  CacheTypeOK'
    <2>1. /\ pc[w] = "credit" /\ UNCHANGED <<vars, reconciler>>
          /\ IncrementKey(DestinationKey(w), pay[w].amount)
          /\ incremented' \subseteq incremented \cup {w}
          /\ faults' = faults \/ (faults < MaxFaults /\ faults' = faults + 1)
      <3>1. CASE Increment(w)
        BY <3>1 DEF Increment
      <3>2. CASE IncrementAgain(w)
        <4>1. pc[w] = "credit"
          BY <3>2 DEF IncrementAgain
        <4> QED
          BY <3>2, <4>1 DEF IncrementAgain
      <3> QED
        BY <1>5, <3>1, <3>2
    <2>2. DestinationKey(w) \in Accounts \X Currencies /\ pay[w].amount \in Int
      BY <2>1, SessionKeys
    <2>3. incremented' \subseteq {v \in Workers : pc'[v] = "credit"}
      BY <2>1 DEF vars, session
    <2>4. /\ cache' \in [Accounts \X Currencies -> Int \cup {Null}]
          /\ lasting' \subseteq {k \in Accounts \X Currencies : cache'[k] # Null}
      BY <2>1, <2>2, IncrementKeyTypes
    <2>5. faults' \in 0..MaxFaults
      BY <2>1, CacheAssumption
    <2> QED
      BY <1>1, <2>1, <2>3, <2>4, <2>5 DEF reconciler
  <1>6. ASSUME NEW w \in Workers, SetExpiry(w)
        PROVE  CacheTypeOK'
    <2>1. /\ pc' = [pc EXCEPT ![w] = "commit"]
          /\ UNCHANGED <<cache, reconciler, faults>>
          /\ lasting' \subseteq lasting /\ incremented' = incremented \ {w}
      BY <1>6 DEF SetExpiry, CreditCache, Statement
    <2>2. incremented' \subseteq {v \in Workers : pc'[v] = "credit"}
      BY <2>1 DEF TypeOK
    <2> QED
      BY <1>1, <2>1, <2>2 DEF reconciler
  <1>7. ASSUME NEW w \in Workers, BreakOff(w)
        PROVE  CacheTypeOK'
    <2>1. /\ pc' = [pc EXCEPT ![w] = "idle"] /\ incremented' = incremented \ {w}
          /\ UNCHANGED <<cache, lasting, reconciler>>
          /\ faults < MaxFaults /\ faults' = faults + 1
      BY <1>7 DEF BreakOff, Fault, Rollback, EndSession
    <2>2. incremented' \subseteq {v \in Workers : pc'[v] = "credit"}
      BY <2>1 DEF TypeOK
    <2>3. faults' \in 0..MaxFaults
      BY <2>1, CacheAssumption
    <2> QED
      BY <1>1, <2>1, <2>2, <2>3 DEF reconciler
  <1>8. ASSUME NEW k \in Accounts \X Currencies, Expire(k)
        PROVE  CacheTypeOK'
    BY <1>1, <1>8 DEF Expire, vars, session, reconciler
  <1>9. ASSUME NEW k \in Accounts \X Currencies, WriteBalance(k)
        PROVE  CacheTypeOK'
    <2>1. rows[k[1]] \in Int
      OBVIOUS
    <2> QED
      BY <1>1, <1>9, <2>1, SetKeyTypes DEF WriteBalance, vars, session
  <1>10. CASE ReadBalances
    <2>1. rows' \in [Accounts -> Int]
      BY <1>10 DEF ReadBalances, TypeOK, TablesTypeOK
    <2>2. todo' \subseteq Accounts \X Currencies
      <3>1. \A a \in Accounts : accounts[a] # Null => accounts[a] \in Currencies
        BY DEF TypeOK, TablesTypeOK
      <3> QED
        BY <1>10, <3>1 DEF ReadBalances
    <2> QED
      BY <1>1, <1>10, <2>1, <2>2 DEF ReadBalances, vars, session, redis
  <1>11. CASE AbandonPass
    BY <1>1, <1>11 DEF AbandonPass, vars, session, redis
  <1>12. CASE RestartRedis
    BY <1>1, <1>12 DEF RestartRedis, vars, session, reconciler
  <1> QED
    BY <1>2, <1>3, <1>4, <1>5, <1>6, <1>7, <1>8, <1>9, <1>10, <1>11, <1>12
    DEF CacheNext, Reconcile

CacheIInv == LedgerIInv /\ CacheTypeOK

LEMMA CacheInvInit == CacheInit => CacheIInv
  <1> SUFFICES ASSUME CacheInit PROVE CacheIInv
    OBVIOUS
  <1>1. LedgerIInv
    BY InvInit DEF CacheInit
  <1> QED
    BY <1>1, CacheAssumption DEF CacheInit, CacheIInv, CacheTypeOK, LedgerIInv

LEMMA CacheInvStep == CacheIInv /\ [CacheNext]_cacheVars => CacheIInv'
  BY LedgerSees, InvStep, CacheTypeStep DEF CacheIInv

\* The keys of Redis hold cents or nothing, only what is there lasts, and nobody
\* is between INCRBY and EXPIRE but a session that is at that call.
THEOREM CacheTypeCorrect == CacheSpec => []CacheTypeOK
  <1>1. CacheIInv => CacheTypeOK
    BY DEF CacheIInv
  <1> QED
    BY <1>1, CacheInvInit, CacheInvStep, PTL DEF CacheSpec

\* Because of the row locks alone, whatever the tables and Redis hold.
LEMMA OtherKeys ==
    ASSUME TypeOK, LocksInv, NEW w \in Workers, NEW v \in Workers, w # v,
           incremented \subseteq {u \in Workers : pc[u] = "credit"},
           pc[w] \in {"credit", "commit"}, Debit(v) \/ Increment(v) \/ IncrementAgain(v)
    PROVE  cache'[SourceKey(w)] = cache[SourceKey(w)]
  <1>1. pc[v] \in {"debit", "credit"} /\ pc[w] \in Locked
    BY DEF Debit, DebitCache, Statement, Increment, IncrementAgain, Locked
  <1>2. pay[w].source \notin {pay[v].source, pay[v].destination}
    BY <1>1 DEF LocksInv, KeyShare, Inserted
  <1>3. \E a \in {pay[v].source, pay[v].destination} : \E cents :
            cache' = [cache EXCEPT ![<<a, pay[v].currency>>] = cents]
    BY DEF Debit, SetKey, Increment, IncrementAgain, IncrementKey, SourceKey, DestinationKey
  <1> QED
    BY <1>2, <1>3 DEF SourceKey

LEMMA DebitStandsStep ==
    ASSUME LedgerIInv, CacheTypeOK
    PROVE  \A w, v \in Workers :
              /\ w # v /\ (Debit(v) \/ Increment(v) \/ IncrementAgain(v))
              /\ pc[w] \in {"credit", "commit"} /\ verdict[w] = "approved"
              => cache'[SourceKey(w)] = cache[SourceKey(w)]
  BY OtherKeys DEF LedgerIInv, CacheTypeOK

\* A plain SET by balance_cache.debit is not overwritten by another session until
\* the session that did it ends.
THEOREM PlainSetStands == CacheSpec => DebitStands
  BY DebitStandsStep, CacheInvInit, CacheInvStep, PTL DEF CacheSpec, CacheIInv, DebitStands

-----------------------------------------------------------------------------
(* What the reconciler repairs.                                            *)

\* A pass that has nothing left to write has made every served balance exact.
LEMMA RepairedIsExact ==
    ASSUME Repairing, todo = {}
    PROVE  Exact
  BY DEF Repairing, Exact

\* With no session before or after it, a step leaves the ledger alone.
LEMMA QuietSteps ==
    ASSUME CacheTypeOK, [CacheNext]_cacheVars, Quiet, Quiet'
    PROVE  /\ UNCHANGED <<accounts, account_balances>>
           /\ \/ UNCHANGED cacheVars \/ AbandonPass \/ ReadBalances \/ RestartRedis
              \/ \E k \in Accounts \X Currencies : Expire(k) \/ WriteBalance(k)
  <1>1. ASSUME NEW w \in Workers, Call(w)
        PROVE  UNCHANGED vars
    <2>1. ASSUME NEW p \in Payments, Begin(w, p)
          PROVE  FALSE
      BY <2>1 DEF Begin, Quiet, CacheTypeOK, TypeOK
    <2> QED
      BY <1>1, <2>1 DEF Call, ReturnEarly
  <1>2. ASSUME NEW w \in Workers,
               \/ Sql(w) \/ Debit(w) \/ Increment(w) \/ SetExpiry(w)
               \/ BreakOff(w) \/ IncrementAgain(w)
        PROVE  FALSE
    <2>1. pc[w] = "idle" /\ w \notin incremented
      BY DEF Quiet, CacheTypeOK
    <2>2. ~Waiting(w) /\ ~Violates(w)
      BY <2>1 DEF Waiting, WaitsFor, Violates
    <2> QED
      BY <1>2, <2>1, <2>2
      DEF Sql, Debit, DebitCache, Increment, IncrementAgain, SetExpiry, CreditCache, BreakOff,
          Fault, Statement,
          EnsureSource, EnsureDestination, EnsureEquity, EnsureAccount, CheckSeed, InsertOpening,
          InsertPending, LockSource, CheckBalance, Commit, ConstraintError, DeadlockError, Deadlocked
  <1>3. UNCHANGED cacheVars \/ AbandonPass \/ ReadBalances \/ RestartRedis
            \/ \E k \in Accounts \X Currencies : Expire(k) \/ WriteBalance(k)
    BY <1>1, <1>2 DEF CacheNext, Statements, Reconcile, cacheVars
  <1> QED
    BY <1>3
    DEF cacheVars, vars, tables, AbandonPass, ReadBalances, RestartRedis, Expire, WriteBalance

\* An exact balance stays so while its key is left alone or expires.
LEMMA ExactStays ==
    ASSUME NEW a \in Accounts, ExactFor(a), UNCHANGED <<accounts, account_balances>>,
           LET k == <<a, accounts[a]>>
           IN  (cache'[k] = cache[k] \/ cache'[k] = Null) /\ (k \in lasting' => k \in lasting)
    PROVE  ExactFor(a)'
  BY DEF ExactFor, ServedBalance

LEMMA RepairStep ==
    ASSUME CacheTypeOK, [CacheNext]_cacheVars, Quiet, Quiet', ~AbandonPass,
           Repairing \/ ReadBalances
    PROVE  Repairing'
  <1>1. UNCHANGED <<accounts, account_balances>>
    BY QuietSteps
  <1>2. CASE UNCHANGED cacheVars /\ Repairing
    BY <1>2 DEF cacheVars, vars, tables, redis, reconciler, Repairing, ExactFor, ServedBalance
  <1>3. CASE ReadBalances
    BY <1>1, <1>3 DEF ReadBalances, Repairing
  <1>4. ASSUME NEW k \in Accounts \X Currencies, Expire(k), Repairing
        PROVE  Repairing'
    <2>1. UNCHANGED <<rows, todo, lasting>> /\ cache' = [cache EXCEPT ![k] = Null]
      BY <1>4 DEF Expire, reconciler
    <2>2. ASSUME NEW a \in Accounts, ExactFor(a)
          PROVE  ExactFor(a)'
      <3>1. cache'[<<a, accounts[a]>>] = cache[<<a, accounts[a]>>] \/ cache'[<<a, accounts[a]>>] = Null
        BY <2>1 DEF CacheTypeOK
      <3> QED
        BY <1>1, <2>1, <2>2, <3>1, ExactStays
    <2> QED
      BY <1>1, <1>4, <2>1, <2>2 DEF Repairing
  <1>5. ASSUME NEW k \in Accounts \X Currencies, WriteBalance(k), Repairing
        PROVE  Repairing'
    <2>1. /\ cache' = [cache EXCEPT ![k] = rows[k[1]]] /\ lasting' = lasting \ {k}
          /\ todo' = todo \ {k} /\ rows' = rows /\ k \in todo
      BY <1>5 DEF WriteBalance, SetKey
    <2>2. ASSUME NEW a \in Accounts, accounts[a] # Null, k = <<a, accounts[a]>>
          PROVE  ExactFor(a)'
      <3>1. cache'[k] = account_balances[a]
        BY <1>5, <2>1, <2>2 DEF Repairing, CacheTypeOK
      <3>2. cache'[k] # Null
        BY <3>1, CacheAssumption DEF CacheTypeOK, TypeOK, TablesTypeOK
      <3> QED
        BY <1>1, <2>1, <2>2, <3>1, <3>2 DEF ExactFor, ServedBalance
    <2>3. ASSUME NEW a \in Accounts, accounts[a] # Null, k # <<a, accounts[a]>>, ExactFor(a)
          PROVE  ExactFor(a)'
      <3>1. cache'[<<a, accounts[a]>>] = cache[<<a, accounts[a]>>]
        BY <2>1, <2>3 DEF CacheTypeOK, TypeOK, TablesTypeOK
      <3> QED
        BY <1>1, <2>1, <2>3, <3>1, ExactStays
    <2> QED
      BY <1>1, <1>5, <2>1, <2>2, <2>3 DEF Repairing
  <1>6. ASSUME RestartRedis, Repairing
        PROVE  Repairing'
    <2>1. /\ UNCHANGED <<rows, todo>> /\ lasting' = {}
          /\ \A k \in Accounts \X Currencies : cache'[k] = Null
      BY <1>6 DEF RestartRedis, reconciler
    <2>2. ASSUME NEW a \in Accounts, accounts[a] # Null
          PROVE  ExactFor(a)'
      <3>1. cache'[<<a, accounts[a]>>] = Null
        BY <2>1, <2>2 DEF CacheTypeOK, TypeOK, TablesTypeOK
      <3> QED
        BY <1>1, <2>1, <3>1 DEF ExactFor, ServedBalance
    <2> QED
      BY <1>1, <1>6, <2>1, <2>2 DEF Repairing
  <1> QED
    BY <1>2, <1>3, <1>4, <1>5, <1>6, QuietSteps

\* Whatever had put the cache wrong, a pass that begins when settlement is at rest
\* repairs it, and it stays repaired through later passes and expiry; that passes
\* do begin and end is what DriftIsRepaired adds.
THEOREM PassesRepair == CacheSpec => RepairStands
  <1>1. CacheIInv /\ [CacheNext]_cacheVars =>
           [Quiet /\ Quiet' /\ ~AbandonPass /\ (Repairing \/ ReadBalances) => Repairing']_cacheVars
    BY RepairStep DEF CacheIInv
  <1> QED
    BY <1>1, CacheInvInit, CacheInvStep, PTL DEF CacheSpec, RepairStands
=============================================================================
