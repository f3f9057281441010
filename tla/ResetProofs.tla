----------------------------- MODULE ResetProofs -----------------------------
(***************************************************************************)
(* Proofs about Reset.  A script that empties the tables may find sessions *)
(* and the reconciler anywhere, and still what LedgerProofs shows of the   *)
(* ledger without scripts holds on both sides of a wipe.                   *)
(***************************************************************************)
EXTENDS Reset, BalanceCacheProofs

ResetIInv == LedgerIInv /\ ResetTypeOK

\* What a step is to the cache and the ledger: one of their own, the end of a
\* session that was stopped or aborted, or a wipe.
LEMMA ResetCases ==
    ASSUME [ResetNext]_resetVars
    PROVE  \/ [CacheNext]_cacheVars
           \/ \E w \in Workers : Kill(w)
           \/ \E w \in Workers :
                 Blocked(w) /\ Rollback(w) /\ UNCHANGED <<redis, reconciler, faults>>
           \/ Truncate \/ Flush
  <1>1. ASSUME NEW w \in Workers, Session(w) \/ Interrupt(w)
        PROVE  CacheNext
    BY <1>1 DEF Session, Interrupt, CacheNext
  <1>2. ASSUME NEW w \in Workers, Collide(w)
        PROVE  \/ UNCHANGED cacheVars
               \/ Blocked(w) /\ Rollback(w) /\ UNCHANGED <<redis, reconciler, faults>>
    BY <1>2 DEF Collide, cacheVars, redis, reconciler
  <1>3. CASE Background
    BY <1>3 DEF Background, Reconciler, CollideWithQuery, CacheNext, cacheVars
  <1>4. CASE Wipe
    BY <1>4 DEF Wipe, StartScript, LockEntries, SkipRedis, StartServices, cacheVars
  <1>5. CASE UNCHANGED resetVars
    BY <1>5 DEF resetVars, cacheVars
  <1> QED
    BY <1>1, <1>2, <1>3, <1>4, <1>5 DEF ResetNext

\* A wipe waits for the sessions: those that are left have nothing in hand.
LEMMA TruncateStep ==
    ASSUME LedgerIInv, Truncate
    PROVE  LedgerIInv'
  <1>1. /\ \A w \in Workers : pc[w] = "idle"
        /\ UNCHANGED <<pc, pay, created, opened, verdict>>
        /\ accounts' = EquityRows /\ transactions' = {} /\ ledger' = {}
        /\ account_balances' = [a \in Accounts |-> 0]
    BY DEF Truncate, Quiet, session
  <1>2. \A w \in Workers : created[w] = {} /\ ~opened[w]
    BY <1>1 DEF LedgerIInv, RowsInv, OpeningsInv, Seeded, Inserted, Ensured
  <1>3. TypeOK'
    BY <1>1, AccountsAssumption DEF LedgerIInv, TypeOK, TablesTypeOK, EquityRows
  <1>4. RowsInv'
    BY <1>1, <1>2 DEF RowsInv, Ensured
  <1>5. KeysInv' /\ OpeningsInv' /\ LocksInv' /\ VerdictInv'
    BY <1>1, <1>2
    DEF KeysInv, OpeningsInv, LocksInv, VerdictInv, Inserted, Seeded, Locked, Checked
  <1>6. EntriesInv' /\ SettledOnce' /\ NoOverdraft'
    BY <1>1, FS_EmptySet DEF EntriesInv, SettledOnce, NoOverdraft
  <1> QED
    BY <1>3, <1>4, <1>5, <1>6 DEF LedgerIInv

\* A session may be rolled back at any statement.
LEMMA RollbackStep ==
    ASSUME LedgerIInv, NEW w \in Workers, Rollback(w)
    PROVE  LedgerIInv'
  <1>1. /\ UNCHANGED tables
        /\ pc' = [pc EXCEPT ![w] = "idle"] /\ pay' = [pay EXCEPT ![w] = Null]
        /\ created' = [created EXCEPT ![w] = {}] /\ opened' = [opened EXCEPT ![w] = FALSE]
        /\ verdict' = [verdict EXCEPT ![w] = "pending"]
    BY DEF Rollback, EndSession
  <1>2. /\ pc'[w] = "idle" /\ created'[w] = {} /\ ~opened'[w]
        /\ \A v \in Workers \ {w} :
              /\ pc'[v] = pc[v] /\ pay'[v] = pay[v] /\ created'[v] = created[v]
              /\ opened'[v] = opened[v] /\ verdict'[v] = verdict[v]
    BY <1>1 DEF LedgerIInv, TypeOK
  <1>3. TypeOK'
    BY <1>1 DEF LedgerIInv, TypeOK, TablesTypeOK, tables, Steps
  <1>4. RowsInv'
    BY <1>1, <1>2 DEF LedgerIInv, RowsInv, Ensured, tables
  <1>5. KeysInv'
    BY <1>1, <1>2 DEF LedgerIInv, KeysInv, Inserted, HasTransaction, SettledKeys, tables
  <1>6. OpeningsInv'
    BY <1>1, <1>2
    DEF LedgerIInv, OpeningsInv, Seeded, Inserted, HasTransaction, SettledKeys, NeedsOpening,
        HasEntries, tables
  <1>7. LocksInv'
    BY <1>1, <1>2 DEF LedgerIInv, LocksInv, KeyShare, ForUpdate, Locked, Inserted
  <1>8. VerdictInv'
    <2> SUFFICES ASSUME NEW v \in Workers, pc'[v] \in Checked
                 PROVE  verdict'[v] = IF Available(v)' < pay'[v].amount THEN "rejected"
                                                                       ELSE "approved"
      BY DEF VerdictInv
    <2>1. v # w
      BY <1>2 DEF Checked
    <2>2. Available(v)' = Available(v)
      BY <1>1, <1>2, <2>1 DEF Available, BalanceCents, WithAccounts, OwnBalances, Moved, tables
    <2> QED
      BY <1>2, <2>1, <2>2 DEF LedgerIInv, VerdictInv
  <1>9. EntriesInv' /\ SettledOnce' /\ NoOverdraft'
    BY <1>1 DEF LedgerIInv, EntriesInv, SettledOnce, NoOverdraft, tables
  <1> QED
    BY <1>3, <1>4, <1>5, <1>6, <1>7, <1>8, <1>9 DEF LedgerIInv

LEMMA ResetTypeStep ==
    ASSUME ResetTypeOK, LedgerIInv, [ResetNext]_resetVars
    PROVE  ResetTypeOK'
  <1>1. TypeOK'
    <2>1. CASE [CacheNext]_cacheVars
      BY <2>1, LedgerSees, InvStep DEF LedgerIInv
    <2>2. ASSUME NEW w \in Workers, Rollback(w)
          PROVE  TypeOK'
      BY <2>2, RollbackStep DEF LedgerIInv
    <2>3. CASE Truncate
      BY <2>3, TruncateStep DEF LedgerIInv
    <2>4. CASE Flush
      BY <2>4 DEF Flush, vars, tables, session, TypeOK, TablesTypeOK, ResetTypeOK, CacheTypeOK
    <2> QED
      BY <2>1, <2>2, <2>3, <2>4, ResetCases DEF Kill
  <1>2. CacheTypeOK'
    <2>1. CASE [CacheNext]_cacheVars
      BY <2>1, CacheTypeStep DEF ResetTypeOK
    <2>2. ASSUME NEW w \in Workers, Kill(w)
          PROVE  CacheTypeOK'
      <3>1. pc' = [pc EXCEPT ![w] = "idle"] /\ incremented' = incremented \ {w}
        BY <2>2 DEF Kill, Rollback, EndSession
      <3>2. incremented' \subseteq {v \in Workers : pc'[v] = "credit"}
        BY <3>1 DEF ResetTypeOK, CacheTypeOK, TypeOK
      <3> QED
        BY <1>1, <2>2, <3>2 DEF Kill, reconciler, ResetTypeOK, CacheTypeOK
    <2>3. ASSUME NEW w \in Workers, Blocked(w), Rollback(w), UNCHANGED <<redis, reconciler, faults>>
          PROVE  CacheTypeOK'
      <3>1. pc' = [pc EXCEPT ![w] = "idle"] /\ pc[w] # "credit"
        BY <2>3 DEF Blocked, FirstRead, Rollback, EndSession
      <3>2. incremented' \subseteq {v \in Workers : pc'[v] = "credit"}
        BY <2>3, <3>1 DEF ResetTypeOK, CacheTypeOK, TypeOK, redis
      <3> QED
        BY <1>1, <2>3, <3>2 DEF redis, reconciler, ResetTypeOK, CacheTypeOK
    <2>4. CASE Truncate
      BY <1>1, <2>4 DEF Truncate, session, redis, reconciler, ResetTypeOK, CacheTypeOK
    <2>5. CASE Flush
      BY <1>1, <2>5 DEF Flush, vars, session, reconciler, ResetTypeOK, CacheTypeOK
    <2> QED
      BY <2>1, <2>2, <2>3, <2>4, <2>5, ResetCases
  <1>3. /\ script' \in {"none", "truncate", "locked", "flush", "start"}
        /\ stopped' \in BOOLEAN
        /\ wipes' \in 0..MaxTroubles
    <2>1. CASE UNCHANGED operator
      BY <2>1 DEF operator, ResetTypeOK
    <2>2. ASSUME NEW name \in Scripts, StartScript(name)
          PROVE  /\ script' \in {"none", "truncate", "locked", "flush", "start"}
                 /\ stopped' \in BOOLEAN
                 /\ wipes' \in 0..MaxTroubles
      BY <2>2, ResetAssumption, CacheAssumption DEF StartScript, ResetTypeOK, CacheTypeOK
    <2>3. CASE LockEntries \/ Truncate \/ SkipRedis \/ Flush \/ StartServices \/ CollideWithQuery
                 \/ \E w \in Workers : Collide(w)
      BY <2>3
      DEF LockEntries, Truncate, SkipRedis, Flush, StartServices, CollideWithQuery, Collide,
          ResetTypeOK
    <2> QED
      BY <2>1, <2>2, <2>3
      DEF ResetNext, resetVars, Session, Interrupt, Kill, Background, Reconciler, Wipe, operator
  <1> QED
    BY <1>2, <1>3 DEF ResetTypeOK

LEMMA ResetInvInit == ResetInit => ResetIInv
  <1> SUFFICES ASSUME ResetInit PROVE ResetIInv
    OBVIOUS
  <1>1. CacheIInv
    BY CacheInvInit DEF ResetInit
  <1>2. stopped \in BOOLEAN
    BY DEF ResetInit
  <1>3. script = "none" /\ wipes \in 0..MaxTroubles
    BY ResetAssumption DEF ResetInit
  <1> QED
    BY <1>1, <1>2, <1>3 DEF ResetIInv, ResetTypeOK, CacheIInv

LEMMA ResetInvStep == ResetIInv /\ [ResetNext]_resetVars => ResetIInv'
  <1> SUFFICES ASSUME ResetIInv, [ResetNext]_resetVars
               PROVE  ResetIInv'
    OBVIOUS
  <1>1. LedgerIInv'
    <2>1. CASE [CacheNext]_cacheVars
      BY <2>1, LedgerSees, InvStep DEF ResetIInv
    <2>2. ASSUME NEW w \in Workers, Rollback(w)
          PROVE  LedgerIInv'
      BY <2>2, RollbackStep DEF ResetIInv
    <2>3. CASE Truncate
      BY <2>3, TruncateStep DEF ResetIInv
    <2>4. CASE Flush
      <3>1. UNCHANGED vars
        BY <2>4 DEF Flush
      <3> QED
        BY <3>1, InvStep DEF ResetIInv
    <2> QED
      BY <2>1, <2>2, <2>3, <2>4, ResetCases DEF Kill
  <1>2. ResetTypeOK'
    BY ResetTypeStep DEF ResetIInv
  <1> QED
    BY <1>1, <1>2 DEF ResetIInv

\* The invariants of the ledger survive a wipe: no script leaves rows, keys or
\* locks of a session that the emptied tables contradict.
THEOREM LedgerSurvives == ResetSpec => []LedgerIInv
  <1>1. ResetIInv => LedgerIInv
    BY DEF ResetIInv
  <1> QED
    BY <1>1, ResetInvInit, ResetInvStep, PTL DEF ResetSpec

\* Every variable keeps its type; a killed or aborted session leaves no call to
\* Redis half done behind it.
THEOREM ResetTypeCorrect == ResetSpec => []ResetTypeOK
  <1>1. ResetIInv => ResetTypeOK
    BY DEF ResetIInv
  <1> QED
    BY <1>1, ResetInvInit, ResetInvStep, PTL DEF ResetSpec

\* Nobody owes money on either side of a wipe.
THEOREM NeverOverdrawnByWipes == ResetSpec => []NoOverdraft
  <1>1. LedgerIInv => NoOverdraft
    BY DEF LedgerIInv
  <1> QED
    BY <1>1, LedgerSurvives, PTL

\* The books balance on either side of a wipe, and through it: no session is left
\* to post half of what it had in hand against the emptied tables.
THEOREM BooksBalanceAfterWipes ==
    ASSUME IsFiniteSet(Accounts)
    PROVE  ResetSpec => []BooksBalance
  <1>1. ResetInit => BooksBalance
    BY BooksInit DEF ResetInit, CacheInit, Init
  <1>2. ResetIInv /\ BooksBalance /\ [ResetNext]_resetVars => BooksBalance'
    <2> SUFFICES ASSUME ResetIInv, BooksBalance, [ResetNext]_resetVars
                 PROVE  BooksBalance'
      OBVIOUS
    <2>1. CASE [CacheNext]_cacheVars
      BY <2>1, LedgerSees, BooksStep DEF ResetIInv
    <2>2. ASSUME NEW w \in Workers, Rollback(w)
          PROVE  BooksBalance'
      BY <2>2 DEF Rollback, tables, BooksBalance
    <2>3. CASE Truncate
      <3>1. InitTables'
        BY <2>3 DEF Truncate, InitTables, EquityRows
      <3>2. \A a \in Accounts : account_balances'[a] = 0
        BY <3>1 DEF InitTables
      <3>3. \A a \in Accounts : {e \in ledger' : e.account = a} = {}
        BY <3>1 DEF InitTables
      <3>4. SumFunctionOnSet(account_balances', Accounts) = 0
        BY <3>2, SumZero
      <3>5. transactions' = {}
        BY <3>1 DEF InitTables
      <3> QED
        BY <3>2, <3>3, <3>4, <3>5, SumEmpty DEF BooksBalance
    <2>4. CASE Flush
      BY <2>4 DEF Flush, vars, tables, BooksBalance
    <2> QED
      BY <2>1, <2>2, <2>3, <2>4, ResetCases DEF Kill
  <1> QED
    BY <1>1, <1>2, ResetInvInit, ResetInvStep, PTL DEF ResetSpec

\* A wipe does not let another session in between the debit of a key and the end
\* of the session that debited it.
THEOREM PlainSetStandsWipes == ResetSpec => DebitStands
  <1>1. ResetTypeOK => CacheTypeOK
    BY DEF ResetTypeOK
  <1> QED
    BY <1>1, DebitStandsStep, LedgerSurvives, ResetTypeCorrect, PTL DEF DebitStands
=============================================================================
