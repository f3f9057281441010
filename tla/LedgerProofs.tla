---------------------------- MODULE LedgerProofs ----------------------------
(***************************************************************************)
(* The invariant of LedgerInv is inductive, for any set of workers,        *)
(* accounts, currencies and payments; the safety properties of Ledger and  *)
(* the refinement of Settlement follow from it.                            *)
(***************************************************************************)
EXTENDS LedgerInv, SumProofs

\* Every step is one of these, for some session; the rest leave all unchanged.
LEMMA NextCases ==
    ASSUME Next
    PROVE  \/ UNCHANGED vars
           \/ \E w \in Workers :
                 \/ \E p \in Payments : Begin(w, p)
                 \/ EnsureSource(w) \/ EnsureDestination(w) \/ EnsureEquity(w)
                 \/ CheckSeed(w) \/ InsertOpening(w) \/ InsertPending(w)
                 \/ LockSource(w) \/ CheckBalance(w) \/ DebitCache(w) \/ CreditCache(w)
                 \/ Commit(w) \/ Rollback(w)
  BY DEF Next, Call, Run, Sql, ReturnEarly, ConstraintError, DeadlockError, Fault

-----------------------------------------------------------------------------
(* Type correctness.                                                       *)

LEMMA MovedType ==
    ASSUME NEW balances \in [Accounts -> Int], NEW t \in Payments \cup Openings
    PROVE  Moved(balances, t) \in [Accounts -> Int]
  <1>1. t.amount \in Int
    BY PaymentsAssumption, AmountsAssumption DEF Openings, Opening
  <1> QED
    BY <1>1 DEF Moved

LEMMA TypeInit == Init => TypeOK
  BY AccountsAssumption DEF Init, InitTables, EquityRows, TypeOK, TablesTypeOK, Steps

LEMMA TypeCommit ==
    ASSUME TypeOK, VerdictInv, NEW w \in Workers, Commit(w)
    PROVE  TypeOK'
  <1> DEFINE p == pay[w]
             o == Opening(p.source, p.currency)
  <1>1. /\ p \in Payments
        /\ p.source \in Accounts
        /\ p.destination \in Accounts
        /\ p.currency \in Currencies
    BY PaymentsAssumption DEF Commit, TypeOK
  <1>2. o \in Openings
    BY <1>1 DEF Openings
  <1>3. o.source \in Accounts /\ o.destination \in Accounts
    BY <1>1, AccountsAssumption DEF Opening
  <1>4. verdict[w] \in {"approved", "rejected"}
    BY DEF Commit, VerdictInv, Checked
  <1>5. accounts' \in [Accounts -> Currencies \cup {Null}]
    BY <1>1 DEF Commit, Write, WithAccounts, TypeOK, TablesTypeOK
  <1>6. transactions' \subseteq [txn : Payments \cup Openings, status : {"approved", "rejected"}]
    BY <1>1, <1>2, <1>4 DEF Commit, Write, Row, TypeOK, TablesTypeOK
  <1>7. ledger' \subseteq LedgerRows
    BY <1>1, <1>2, <1>3 DEF Commit, Write, Entries, LedgerRows, TypeOK, TablesTypeOK
  <1>8. account_balances' \in [Accounts -> Int]
    <2>1. OwnBalances(p, opened[w]) \in [Accounts -> Int]
      BY <1>2, MovedType DEF OwnBalances, TypeOK, TablesTypeOK
    <2>2. Moved(OwnBalances(p, opened[w]), p) \in [Accounts -> Int]
      BY <1>1, <2>1, MovedType
    <2> QED
      BY <2>1, <2>2 DEF Commit, Write
  <1>9. TablesTypeOK'
    BY <1>5, <1>6, <1>7, <1>8 DEF TablesTypeOK
  <1> QED
    BY <1>9 DEF TypeOK, Commit, EndSession, Steps

LEMMA TypeStep ==
    ASSUME TypeOK, VerdictInv, [Next]_vars
    PROVE  TypeOK'
  <1>1. CASE UNCHANGED vars
    BY <1>1 DEF TypeOK, TablesTypeOK, vars, tables, session
  <1>2. CASE \E w \in Workers, p \in Payments : Begin(w, p)
    BY <1>2 DEF TypeOK, TablesTypeOK, tables, Begin, Steps
  <1>3. ASSUME NEW w \in Workers, EnsureSource(w) \/ EnsureDestination(w) \/ EnsureEquity(w)
        PROVE  TypeOK'
    <2>1. pay[w] \in Payments
      BY <1>3 DEF TypeOK, EnsureSource, EnsureDestination, EnsureEquity, EnsureAccount, Statement
    <2>2. Equity[pay[w].currency] \in Accounts
      BY <2>1, AccountsAssumption, PaymentsAssumption
    <2> QED
      BY <1>3, <2>1, <2>2, PaymentsAssumption
      DEF TypeOK, TablesTypeOK, tables, EnsureSource, EnsureDestination, EnsureEquity,
          EnsureAccount, Statement, Steps
  <1>4. ASSUME NEW w \in Workers,
               \/ CheckSeed(w) \/ InsertOpening(w) \/ InsertPending(w) \/ LockSource(w)
               \/ CheckBalance(w) \/ DebitCache(w) \/ CreditCache(w)
        PROVE  TypeOK'
    BY <1>4
    DEF TypeOK, TablesTypeOK, tables, CheckSeed, InsertOpening, InsertPending, LockSource,
        CheckBalance, DebitCache, CreditCache, Statement, Steps
  <1>5. ASSUME NEW w \in Workers, Commit(w)
        PROVE  TypeOK'
    BY <1>5, TypeCommit
  <1>6. ASSUME NEW w \in Workers, Rollback(w)
        PROVE  TypeOK'
    BY <1>6 DEF TypeOK, TablesTypeOK, tables, Rollback, EndSession, Steps
  <1> QED
    BY <1>1, <1>2, <1>3, <1>4, <1>5, <1>6, NextCases

-----------------------------------------------------------------------------
(* Account rows.                                                           *)

LEMMA RowsStep ==
    ASSUME TypeOK, RowsInv, OpeningsInv, [Next]_vars
    PROVE  RowsInv'
  <1> USE DEF RowsInv, Ensured
  <1>1. CASE UNCHANGED vars
    BY <1>1 DEF vars, tables, session
  <1>2. ASSUME NEW w \in Workers, NEW p \in Payments, Begin(w, p)
        PROVE  RowsInv'
    BY <1>2 DEF TypeOK, OpeningsInv, Seeded, Inserted, Begin, tables
  <1>3. ASSUME NEW w \in Workers, EnsureSource(w)
        PROVE  RowsInv'
    BY <1>3 DEF TypeOK, OpeningsInv, Seeded, Inserted, EnsureSource, EnsureAccount, Statement,
                Waiting, WaitsFor, tables
  <1>4. ASSUME NEW w \in Workers, EnsureDestination(w)
        PROVE  RowsInv'
    BY <1>4 DEF TypeOK, OpeningsInv, Seeded, Inserted, EnsureDestination, EnsureAccount,
                Statement, Waiting, WaitsFor, tables
  <1>5. ASSUME NEW w \in Workers, EnsureEquity(w)
        PROVE  RowsInv'
    BY <1>5 DEF TypeOK, OpeningsInv, Seeded, Inserted, EnsureEquity, EnsureAccount, Statement,
                Waiting, WaitsFor, tables
  <1>6. ASSUME NEW w \in Workers, CheckSeed(w) \/ InsertOpening(w) \/ InsertPending(w)
        PROVE  RowsInv'
    BY <1>6 DEF TypeOK, OpeningsInv, Seeded, Inserted, CheckSeed, InsertOpening, InsertPending,
                Statement, tables
  <1>7. ASSUME NEW w \in Workers,
               LockSource(w) \/ CheckBalance(w) \/ DebitCache(w) \/ CreditCache(w)
        PROVE  RowsInv'
    BY <1>7 DEF TypeOK, LockSource, CheckBalance, DebitCache, CreditCache, Statement, tables
  <1>8. ASSUME NEW w \in Workers, Commit(w)
        PROVE  RowsInv'
    <2>1. pay[w].currency # Null
      BY <1>8, PaymentsAssumption, AccountsAssumption DEF TypeOK, Commit
    <2>2. \A a \in Accounts : accounts'[a] = Null <=> accounts[a] = Null /\ a \notin created[w]
      BY <1>8, <2>1 DEF TypeOK, TablesTypeOK, Commit, Write, WithAccounts
    <2>3. Ensured(w)' = {} /\ created'[w] = {}
      BY <1>8 DEF TypeOK, Commit, EndSession
    <2>4. ASSUME NEW v \in Workers, v # w
          PROVE  /\ Ensured(v)' = Ensured(v)
                 /\ created'[v] = created[v]
      BY <1>8, <2>4 DEF TypeOK, Commit, EndSession
    <2>5. ASSUME NEW v \in Workers, v # w
          PROVE  created'[v] = {a \in Ensured(v)' : accounts'[a] = Null}
      <3>1. created[v] \cap created[w] = {}
        BY <2>5
      <3>2. created[v] = {a \in Ensured(v) : accounts[a] = Null}
        OBVIOUS
      <3>3. Ensured(v) \subseteq Accounts
        BY PaymentsAssumption, AccountsAssumption DEF TypeOK, OpeningsInv, Seeded, Inserted
      <3> HIDE DEF Ensured
      <3> QED
        BY <2>2, <2>4, <2>5, <3>1, <3>2, <3>3
    <2>6. \A u, v \in Workers : u # v => created'[u] \cap created'[v] = {}
      BY <2>3, <2>4
    <2> HIDE DEF Ensured
    <2> QED
      BY <2>3, <2>5, <2>6
  <1>9. ASSUME NEW w \in Workers, Rollback(w)
        PROVE  RowsInv'
    BY <1>9 DEF TypeOK, OpeningsInv, Rollback, EndSession, tables
  <1> QED
    BY <1>1, <1>2, <1>3, <1>4, <1>5, <1>6, <1>7, <1>8, <1>9, NextCases

-----------------------------------------------------------------------------
(* Transaction rows.                                                       *)

\* Only Commit adds rows: those of the payment and of the opening.
LEMMA KeysAfterCommit ==
    ASSUME NEW w \in Workers, Commit(w)
    PROVE  SettledKeys' = SettledKeys \cup {pay[w].key}
               \cup (IF opened[w] THEN {OpeningKey(pay[w].source)} ELSE {})
  <1> DEFINE o == Row(Opening(pay[w].source, pay[w].currency), "approved")
             new == {Row(pay[w], verdict[w])} \cup (IF opened[w] THEN {o} ELSE {})
  <1>1. transactions' = transactions \cup new
    BY DEF Commit, Write
  <1>2. /\ o.txn.key = OpeningKey(pay[w].source)
        /\ Row(pay[w], verdict[w]).txn = pay[w]
    BY DEF Row, Opening
  <1> HIDE DEF o
  <1> QED
    BY <1>1, <1>2 DEF SettledKeys

LEMMA OtherSteps ==
    ASSUME [Next]_vars
    PROVE  (\E w \in Workers : Commit(w)) \/ UNCHANGED tables
  BY NextCases
  DEF vars, Begin, EnsureSource, EnsureDestination, EnsureEquity, EnsureAccount, CheckSeed,
      InsertOpening, InsertPending, LockSource, CheckBalance, DebitCache, CreditCache, Rollback

LEMMA KeysStep ==
    ASSUME TypeOK, KeysInv, [Next]_vars
    PROVE  KeysInv'
  <1> USE DEF KeysInv
  <1>1. CASE UNCHANGED vars
    BY <1>1 DEF vars, tables, session, HasTransaction, SettledKeys
  <1>2. ASSUME NEW w \in Workers, NEW p \in Payments, Begin(w, p)
        PROVE  KeysInv'
    BY <1>2 DEF TypeOK, Inserted, Begin, tables, HasTransaction, SettledKeys
  <1>3. ASSUME NEW w \in Workers,
               EnsureSource(w) \/ EnsureDestination(w) \/ EnsureEquity(w) \/ CheckSeed(w) \/ InsertOpening(w)
        PROVE  KeysInv'
    BY <1>3 DEF TypeOK, Inserted, EnsureSource, EnsureDestination, EnsureEquity, EnsureAccount,
                CheckSeed, InsertOpening, Statement, tables, HasTransaction, SettledKeys
  <1>4. ASSUME NEW w \in Workers, InsertPending(w)
        PROVE  KeysInv'
    BY <1>4 DEF TypeOK, Inserted, InsertPending, Statement, Waiting, WaitsFor, Violates, tables,
                HasTransaction, SettledKeys
  <1>5. ASSUME NEW w \in Workers,
               LockSource(w) \/ CheckBalance(w) \/ DebitCache(w) \/ CreditCache(w)
        PROVE  KeysInv'
    BY <1>5 DEF TypeOK, Inserted, LockSource, CheckBalance, DebitCache, CreditCache, Statement,
                tables, HasTransaction, SettledKeys
  <1>6. ASSUME NEW w \in Workers, Commit(w)
        PROVE  KeysInv'
    <2>1. pc'[w] = "idle"
      BY <1>6 DEF TypeOK, Commit, EndSession
    <2>2. ASSUME NEW v \in Workers, v # w
          PROVE  pc'[v] = pc[v] /\ pay'[v] = pay[v]
      BY <1>6, <2>2 DEF TypeOK, Commit, EndSession
    <2>3. ASSUME NEW v \in Workers, v # w, pc[v] \in Inserted
          PROVE  pay[v].key \notin SettledKeys' /\ ValidRow(pay[v])
      <3>1. pay[v].key # pay[w].key /\ ~HasTransaction(pay[v].key) /\ ValidRow(pay[v])
        BY <1>6, <2>3 DEF Commit, Inserted
      <3>2. pay[v].key # OpeningKey(pay[w].source)
        BY <1>6, <2>3, KeysAssumption, PaymentsAssumption
        DEF TypeOK, Commit, Inserted, OpeningKey
      <3> QED
        BY <1>6, <3>1, <3>2, KeysAfterCommit DEF HasTransaction
    <2> QED
      BY <2>1, <2>2, <2>3 DEF Inserted, HasTransaction
  <1>7. ASSUME NEW w \in Workers, Rollback(w)
        PROVE  KeysInv'
    BY <1>7 DEF TypeOK, Inserted, Rollback, EndSession, tables, HasTransaction, SettledKeys
  <1> QED
    BY <1>1, <1>2, <1>3, <1>4, <1>5, <1>6, <1>7, NextCases

LEMMA EntriesFinite ==
    ASSUME NEW t
    PROVE  IsFiniteSet(Entries(t))
  <1> DEFINE d == [txn |-> t, account |-> t.source, type |-> "debit"]
             c == [txn |-> t, account |-> t.destination, type |-> "credit"]
  <1> HIDE DEF c, d
  <1>1. IsFiniteSet({d} \cup {c})
    BY FS_Singleton, FS_AddElement
  <1>2. Entries(t) = {d} \cup {c}
    BY DEF Entries, c, d
  <1> QED
    BY <1>1, <1>2

LEMMA EntriesStep ==
    ASSUME TypeOK, EntriesInv, [Next]_vars
    PROVE  EntriesInv'
  <1>1. ASSUME NEW w \in Workers, Commit(w)
        PROVE  EntriesInv'
    <2> DEFINE o == Opening(pay[w].source, pay[w].currency)
    <2>1. IsFiniteSet(ledger')
      <3>1. IsFiniteSet(IF opened[w] THEN Entries(o) ELSE {})
        BY EntriesFinite, FS_EmptySet
      <3>2. IsFiniteSet(IF verdict[w] = "approved" THEN Entries(pay[w]) ELSE {})
        BY EntriesFinite, FS_EmptySet
      <3> QED
        BY <1>1, <3>1, <3>2, FS_Union DEF EntriesInv, Commit, Write
    <2>2. ASSUME NEW e \in ledger'
          PROVE  Row(e.txn, "approved") \in transactions'
      BY <1>1 DEF EntriesInv, Commit, Write, Entries
    <2> QED
      BY <2>1, <2>2 DEF EntriesInv
  <1>2. CASE UNCHANGED tables
    BY <1>2 DEF EntriesInv, tables
  <1> QED
    BY <1>1, <1>2, OtherSteps

LEMMA SettledOnceStep ==
    ASSUME TypeOK, KeysInv, OpeningsInv, SettledOnce, [Next]_vars
    PROVE  SettledOnce'
  <1>1. ASSUME NEW w \in Workers, Commit(w)
        PROVE  SettledOnce'
    <2>1. /\ pay[w].key # OpeningKey(pay[w].source)
          /\ ~HasTransaction(pay[w].key)
          /\ opened[w] => ~HasTransaction(OpeningKey(pay[w].source))
      BY <1>1, KeysAssumption, PaymentsAssumption
      DEF Commit, TypeOK, KeysInv, OpeningsInv, Inserted, OpeningKey
    <2> QED
      BY <1>1, <2>1 DEF Commit, Write, HasTransaction, SettledKeys, SettledOnce, Row, Opening
  <1>2. CASE UNCHANGED tables
    BY <1>2 DEF SettledOnce, tables
  <1> QED
    BY <1>1, <1>2, OtherSteps

-----------------------------------------------------------------------------
(* Opening balances.                                                       *)

LEMMA EntriesStay ==
    ASSUME [Next]_vars
    PROVE  ledger \subseteq ledger'
  BY OtherSteps DEF Commit, Write, tables

LEMMA OpeningsStep ==
    ASSUME TypeOK, KeysInv, OpeningsInv, [Next]_vars
    PROVE  OpeningsInv'
  <1> USE DEF OpeningsInv, Seeded
  <1>1. CASE UNCHANGED vars
    BY <1>1 DEF vars, tables, session, HasTransaction, SettledKeys, NeedsOpening, HasEntries
  <1>2. ASSUME NEW w \in Workers, NEW p \in Payments, Begin(w, p)
        PROVE  OpeningsInv'
    BY <1>2 DEF TypeOK, Inserted, Begin, tables, HasTransaction, SettledKeys, NeedsOpening,
                HasEntries
  <1>3. ASSUME NEW w \in Workers, EnsureSource(w) \/ EnsureDestination(w) \/ EnsureEquity(w)
        PROVE  OpeningsInv'
    BY <1>3 DEF TypeOK, Inserted, EnsureSource, EnsureDestination, EnsureEquity, EnsureAccount,
                Statement, tables, HasTransaction, SettledKeys, NeedsOpening, HasEntries
  <1>4. ASSUME NEW w \in Workers, CheckSeed(w)
        PROVE  OpeningsInv'
    BY <1>4 DEF TypeOK, Inserted, CheckSeed, Statement, tables, HasTransaction, SettledKeys,
                NeedsOpening, HasEntries
  <1>5. ASSUME NEW w \in Workers, InsertOpening(w)
        PROVE  OpeningsInv'
    BY <1>5 DEF TypeOK, Inserted, InsertOpening, Statement, Waiting, WaitsFor, Violates, tables,
                HasTransaction, SettledKeys, NeedsOpening, HasEntries
  <1>6. ASSUME NEW w \in Workers,
               \/ InsertPending(w) \/ LockSource(w) \/ CheckBalance(w) \/ DebitCache(w)
               \/ CreditCache(w)
        PROVE  OpeningsInv'
    BY <1>6 DEF TypeOK, Inserted, InsertPending, LockSource, CheckBalance, DebitCache, CreditCache,
                Statement, tables, HasTransaction, SettledKeys, NeedsOpening, HasEntries
  <1>7. ASSUME NEW w \in Workers, Commit(w)
        PROVE  OpeningsInv'
    <2>1. pc'[w] = "idle" /\ opened'[w] = FALSE
      BY <1>7 DEF TypeOK, Commit, EndSession
    <2>2. ASSUME NEW v \in Workers, v # w
          PROVE  pc'[v] = pc[v] /\ pay'[v] = pay[v] /\ opened'[v] = opened[v]
      BY <1>7, <2>2 DEF TypeOK, Commit, EndSession
    <2>3. ASSUME NEW v \in Workers, v # w, opened[v]
          PROVE  OpeningKey(pay[v].source) \notin SettledKeys'
      <3>1. OpeningKey(pay[v].source) \notin SettledKeys
        BY <2>3 DEF HasTransaction
      <3>2. OpeningKey(pay[v].source) # pay[w].key
        BY <1>7, <2>3, KeysAssumption, PaymentsAssumption
        DEF TypeOK, Commit, Inserted, OpeningKey
      <3>3. opened[w] => OpeningKey(pay[v].source) # OpeningKey(pay[w].source)
        BY <2>3 DEF OpeningKey
      <3> QED
        BY <1>7, <3>1, <3>2, <3>3, KeysAfterCommit
    <2>4. ASSUME NEW v \in Workers, ~NeedsOpening(pay[v].source)
          PROVE  \/ pay[v].source \in SystemAccounts
                 \/ \E e \in ledger' : e.account = pay[v].source
      BY <2>4, EntriesStay DEF NeedsOpening, HasEntries
    <2>5. ASSUME NEW v \in Workers, v # w
          PROVE  /\ opened[v] => ~HasTransaction(OpeningKey(pay[v].source))'
                 /\ pc[v] \in Seeded /\ ~opened[v] => ~NeedsOpening(pay[v].source)'
      BY <2>2, <2>3, <2>4, <2>5 DEF HasTransaction, NeedsOpening, HasEntries, OpeningKey
    <2> QED
      BY <2>1, <2>2, <2>5 DEF Inserted
  <1>8. ASSUME NEW w \in Workers, Rollback(w)
        PROVE  OpeningsInv'
    BY <1>8 DEF TypeOK, Inserted, Rollback, EndSession, tables, HasTransaction, SettledKeys,
                NeedsOpening, HasEntries
  <1> QED
    BY <1>1, <1>2, <1>3, <1>4, <1>5, <1>6, <1>7, <1>8, NextCases

-----------------------------------------------------------------------------
(* Row locks.                                                              *)

LEMMA LocksStep ==
    ASSUME TypeOK, OpeningsInv, LocksInv, [Next]_vars
    PROVE  LocksInv'
  <1> USE DEF LocksInv, KeyShare, ForUpdate
  <1>1. CASE UNCHANGED vars
    BY <1>1 DEF vars, session
  <1>2. ASSUME NEW w \in Workers, NEW p \in Payments, Begin(w, p)
        PROVE  LocksInv'
    BY <1>2 DEF TypeOK, OpeningsInv, Seeded, Inserted, Locked, Begin
  <1>3. ASSUME NEW w \in Workers,
               \/ EnsureSource(w) \/ EnsureDestination(w) \/ EnsureEquity(w) \/ CheckSeed(w)
        PROVE  LocksInv'
    BY <1>3 DEF TypeOK, Inserted, Locked, EnsureSource, EnsureDestination, EnsureEquity,
                EnsureAccount, CheckSeed, Statement
  <1>4. ASSUME NEW w \in Workers, InsertOpening(w)
        PROVE  LocksInv'
    BY <1>4 DEF TypeOK, Inserted, Locked, InsertOpening, Statement, Waiting, WaitsFor
  <1>5. ASSUME NEW w \in Workers, InsertPending(w)
        PROVE  LocksInv'
    BY <1>5 DEF TypeOK, Inserted, Locked, InsertPending, Statement, Waiting, WaitsFor
  <1>6. ASSUME NEW w \in Workers, LockSource(w)
        PROVE  LocksInv'
    BY <1>6 DEF TypeOK, Inserted, Locked, LockSource, Statement, Waiting, WaitsFor
  <1>7. ASSUME NEW w \in Workers, CheckBalance(w) \/ DebitCache(w) \/ CreditCache(w)
        PROVE  LocksInv'
    BY <1>7 DEF TypeOK, Inserted, Locked, CheckBalance, DebitCache, CreditCache, Statement
  <1>8. ASSUME NEW w \in Workers, Commit(w) \/ Rollback(w)
        PROVE  LocksInv'
    BY <1>8 DEF TypeOK, Inserted, Locked, Commit, Rollback, EndSession
  <1> QED
    BY <1>1, <1>2, <1>3, <1>4, <1>5, <1>6, <1>7, <1>8, NextCases

-----------------------------------------------------------------------------
(* Balances.                                                               *)

\* What a commit leaves of the balances: an account it holds no lock on keeps
\* its balance.
LEMMA BalanceStays ==
    ASSUME TypeOK, NEW w \in Workers, Commit(w),
           NEW a \in Accounts, a \notin KeyShare(w)
    PROVE  account_balances'[a] = account_balances[a]
  <1> DEFINE p == pay[w]
             o == Opening(p.source, p.currency)
             own == OwnBalances(p, opened[w])
  <1>1. p \in Payments /\ o \in Openings
    BY PaymentsAssumption DEF Commit, TypeOK, Openings
  <1>2. /\ a # p.source
        /\ a # p.destination
        /\ opened[w] => a # Equity[p.currency]
    BY DEF KeyShare, Commit, Inserted
  <1>3. own \in [Accounts -> Int] /\ own[a] = account_balances[a]
    <2>1. CASE ~opened[w]
      BY <2>1 DEF OwnBalances, TypeOK, TablesTypeOK
    <2>2. CASE opened[w]
      BY <1>1, <1>2, <2>2, MovedType DEF OwnBalances, TypeOK, TablesTypeOK, Moved, Opening
    <2> QED
      BY <2>1, <2>2 DEF TypeOK
  <1>4. Moved(own, p)[a] = own[a]
    BY <1>2, <1>3 DEF Moved
  <1> HIDE DEF own
  <1> QED
    BY <1>3, <1>4 DEF Commit, Write, own

\* So a session that holds FOR UPDATE sees the same balance until it commits.
LEMMA AvailableStays ==
    ASSUME TypeOK, RowsInv, OpeningsInv, LocksInv, NEW w \in Workers, Commit(w),
           NEW v \in Workers, v # w, pc[v] \in Locked
    PROVE  Available(v)' = Available(v)
  <1> DEFINE p == pay[v]
             a == p.source
             c == p.currency
  <1>1. /\ pc'[v] = pc[v]
        /\ pay'[v] = pay[v]
        /\ created'[v] = created[v]
        /\ opened'[v] = opened[v]
    BY DEF TypeOK, Commit, EndSession
  <1>2. p \in Payments /\ a \in Accounts /\ c \in Currencies
    BY PaymentsAssumption DEF TypeOK, Locked
  <1>3. account_balances'[a] = account_balances[a]
    <2>1. a \notin KeyShare(w)
      BY DEF LocksInv
    <2> QED
      BY <1>2, <2>1, BalanceStays
  <1>4. OwnBalances(p, opened[v])'[a] = OwnBalances(p, opened[v])[a]
    BY <1>1, <1>2, <1>3 DEF OwnBalances, Moved, Opening
  <1>5. WithAccounts(created[v], c)'[a] = WithAccounts(created[v], c)[a]
    <2>1. a \in created[v] \/ accounts[a] # Null
      BY <1>2 DEF RowsInv, Ensured, Locked
    <2>2. a \in created[v] => a \notin created[w]
      BY DEF RowsInv
    <2>3. \A b \in created[w] : accounts[b] = Null
      BY DEF RowsInv
    <2>4. accounts'[a] = IF a \in created[w] THEN pay[w].currency ELSE accounts[a]
      BY <1>2 DEF Commit, Write, WithAccounts
    <2> QED
      BY <1>1, <1>2, <2>1, <2>2, <2>3, <2>4 DEF WithAccounts
  <1> QED
    BY <1>1, <1>4, <1>5 DEF Available, BalanceCents

LEMMA VerdictStep ==
    ASSUME TypeOK, RowsInv, OpeningsInv, LocksInv, VerdictInv, [Next]_vars
    PROVE  VerdictInv'
  <1> USE DEF VerdictInv, Checked
  <1>1. CASE UNCHANGED vars
    BY <1>1 DEF vars, tables, session, Available, BalanceCents, WithAccounts, OwnBalances, Moved
  <1>2. ASSUME NEW w \in Workers, Commit(w)
        PROVE  VerdictInv'
    <2>1. pc'[w] = "idle"
      BY <1>2 DEF TypeOK, Commit, EndSession
    <2>2. ASSUME NEW v \in Workers, v # w
          PROVE  pc'[v] = pc[v] /\ pay'[v] = pay[v] /\ verdict'[v] = verdict[v]
      BY <1>2, <2>2 DEF TypeOK, Commit, EndSession
    <2>3. ASSUME NEW v \in Workers, v # w, pc[v] \in Checked
          PROVE  Available(v)' = Available(v)
      BY <1>2, <2>3, AvailableStays DEF Locked
    <2> QED
      BY <2>1, <2>2, <2>3
  <1>3. ASSUME NEW w \in Workers, NEW p \in Payments, Begin(w, p)
        PROVE  VerdictInv'
    BY <1>3 DEF TypeOK, Begin, tables, Available, BalanceCents, WithAccounts, OwnBalances, Moved
  <1>4. ASSUME NEW w \in Workers,
               \/ EnsureSource(w) \/ EnsureDestination(w) \/ EnsureEquity(w) \/ CheckSeed(w)
               \/ InsertOpening(w) \/ InsertPending(w) \/ LockSource(w)
        PROVE  VerdictInv'
    BY <1>4 DEF TypeOK, EnsureSource, EnsureDestination, EnsureEquity, EnsureAccount, CheckSeed,
                InsertOpening, InsertPending, LockSource, Statement, tables, Available,
                BalanceCents, WithAccounts, OwnBalances, Moved
  <1>5. ASSUME NEW w \in Workers, CheckBalance(w)
        PROVE  VerdictInv'
    BY <1>5 DEF TypeOK, CheckBalance, Statement, tables, Available, BalanceCents, WithAccounts,
                OwnBalances, Moved
  <1>6. ASSUME NEW w \in Workers, DebitCache(w) \/ CreditCache(w)
        PROVE  VerdictInv'
    BY <1>6 DEF TypeOK, DebitCache, CreditCache, Statement, tables, Available, BalanceCents,
                WithAccounts, OwnBalances, Moved
  <1>7. ASSUME NEW w \in Workers, Rollback(w)
        PROVE  VerdictInv'
    BY <1>7 DEF TypeOK, Rollback, EndSession, tables, Available, BalanceCents, WithAccounts,
                OwnBalances, Moved
  <1> QED
    BY <1>1, <1>2, <1>3, <1>4, <1>5, <1>6, <1>7, NextCases

-----------------------------------------------------------------------------
(* No overdraft.                                                           *)

LEMMA NoOverdraftStep ==
    ASSUME TypeOK, KeysInv, OpeningsInv, VerdictInv, NoOverdraft, [Next]_vars
    PROVE  NoOverdraft'
  <1>1. ASSUME NEW w \in Workers, Commit(w), NEW a \in Accounts \ SystemAccounts
        PROVE  account_balances'[a] >= 0
    <2> DEFINE p == pay[w]
               o == Opening(p.source, p.currency)
               own == OwnBalances(p, opened[w])
    <2>1. /\ p \in Payments
          /\ o \in Openings
          /\ p.amount \in 1..MaxAmount
          /\ p.source # p.destination
      BY <1>1, PaymentsAssumption DEF Commit, TypeOK, Openings, KeysInv, Inserted, ValidRow
    <2>2. account_balances[a] \in Int /\ account_balances[a] >= 0
      BY DEF NoOverdraft, TypeOK, TablesTypeOK
    <2>3. own \in [Accounts -> Int] /\ own[a] >= 0
      <3>1. CASE ~opened[w]
        BY <2>2, <3>1 DEF OwnBalances, TypeOK, TablesTypeOK
      <3>2. CASE opened[w]
        <4>1. a # Equity[p.currency]
          BY <2>1, AccountsAssumption, PaymentsAssumption
        <4>2. Moved(account_balances, o)[a] =
                account_balances[a] + (IF a = p.source THEN OpeningBalance ELSE 0)
          BY <2>2, <4>1, AmountsAssumption DEF Moved, Opening
        <4>3. Moved(account_balances, o) \in [Accounts -> Int]
          BY <2>1, MovedType DEF TypeOK, TablesTypeOK
        <4> QED
          BY <2>2, <3>2, <4>2, <4>3, AmountsAssumption DEF OwnBalances
      <3> QED
        BY <3>1, <3>2 DEF TypeOK
    <2>4. CASE verdict[w] # "approved"
      BY <1>1, <2>3, <2>4 DEF Commit, Write
    <2>5. CASE verdict[w] = "approved"
      <3>1. Available(w) >= p.amount
        <4>1. ~(Available(w) < p.amount)
          BY <1>1, <2>5 DEF VerdictInv, Checked, Commit
        <4>2. Available(w) \in Int
          BY <2>1, <2>3, PaymentsAssumption DEF Available, BalanceCents
        <4> QED
          BY <2>1, <4>1, <4>2, AmountsAssumption
      <3>2. own[p.source] >= p.amount
        BY <2>1, <3>1, AmountsAssumption DEF Available, BalanceCents
      <3>3. Moved(own, p)[a] >= 0
        BY <2>1, <2>3, <3>2, AmountsAssumption DEF Moved
      <3> QED
        BY <1>1, <2>5, <3>3 DEF Commit, Write
    <2> QED
      BY <2>4, <2>5
  <1>2. CASE UNCHANGED tables
    BY <1>2 DEF NoOverdraft, tables
  <1> QED
    BY <1>1, <1>2, OtherSteps DEF NoOverdraft

-----------------------------------------------------------------------------
(* The invariant, and what follows from it.                                *)

LEMMA InvInit == Init => LedgerIInv
  <1> SUFFICES ASSUME Init PROVE LedgerIInv
    OBVIOUS
  <1> USE DEF Init, InitTables, EquityRows
  <1>1. RowsInv
    BY DEF RowsInv, Ensured
  <1>2. KeysInv
    BY DEF KeysInv, Inserted
  <1>3. OpeningsInv
    BY DEF OpeningsInv, Seeded, Inserted
  <1>4. LocksInv
    BY DEF LocksInv, Locked
  <1>5. VerdictInv
    BY DEF VerdictInv, Checked
  <1>6. EntriesInv /\ SettledOnce /\ NoOverdraft
    BY FS_EmptySet DEF EntriesInv, SettledOnce, NoOverdraft
  <1> QED
    BY TypeInit, <1>1, <1>2, <1>3, <1>4, <1>5, <1>6 DEF LedgerIInv

LEMMA InvStep == LedgerIInv /\ [Next]_vars => LedgerIInv'
  BY TypeStep, RowsStep, KeysStep, OpeningsStep, LocksStep, VerdictStep, EntriesStep,
     SettledOnceStep, NoOverdraftStep
  DEF LedgerIInv

\* The invariant of LedgerInv holds of every state the sessions reach.
THEOREM Invariance == Spec => []LedgerIInv
  BY InvInit, InvStep, PTL DEF Spec

\* Every variable keeps its type: in particular no row is committed while its
\* status is still "pending".
THEOREM TypeCorrect == Spec => []TypeOK
  <1>1. LedgerIInv => TypeOK
    BY DEF LedgerIInv
  <1> QED
    BY <1>1, Invariance, PTL

\* No customer or merchant account is ever overdrawn, whatever payments any
\* number of workers settle at the same time.
THEOREM NeverOverdrawn == Spec => []NoOverdraft
  <1>1. LedgerIInv => NoOverdraft
    BY DEF LedgerIInv
  <1> QED
    BY <1>1, Invariance, PTL

\* No idempotency key is settled twice, by whichever workers and however often
\* its message is processed.
THEOREM AtMostOnce == Spec => []SettledOnce
  <1>1. LedgerIInv => SettledOnce
    BY DEF LedgerIInv
  <1> QED
    BY <1>1, Invariance, PTL

\* While balance_cache.debit runs, no other session debits or credits the
\* account: the locks justify its plain SET.
THEOREM PlainSetIsSafe == Spec => []DebitRunsAlone
  <1>1. LedgerIInv => DebitRunsAlone
    BY DEF LedgerIInv, LocksInv, DebitRunsAlone, KeyShare, Locked, Inserted
  <1> QED
    BY <1>1, Invariance, PTL

-----------------------------------------------------------------------------
(* The books.                                                              *)

\* BooksBalance, of any balances, entries and transaction rows.
Books(balances, entries, rows) ==
    /\ \A a \in Accounts :
          balances[a] = SumFunctionOnSet(SignedCents, {e \in entries : e.account = a})
    /\ \A r \in rows : SumFunctionOnSet(SignedCents, {e \in entries : e.txn = r.txn}) = 0
    /\ SumFunctionOnSet(balances, Accounts) = 0

\* A transaction row without entries.
LEMMA RejectedBooks ==
    ASSUME NEW b, NEW L, NEW R, Books(b, L, R), NEW r, \A e \in L : e.txn # r.txn
    PROVE  Books(b, L, R \cup {r})
  <1>1. {e \in L : e.txn = r.txn} = {}
    OBVIOUS
  <1>2. SumFunctionOnSet(SignedCents, {e \in L : e.txn = r.txn}) = 0
    BY <1>1, SumEmpty
  <1> QED
    BY <1>2 DEF Books

\* A double entry moves the amount from one account to the other.
LEMMA MovedTotal ==
    ASSUME IsFiniteSet(Accounts), NEW b \in [Accounts -> Int], NEW t,
           t.source \in Accounts, t.destination \in Accounts, t.source # t.destination,
           t.amount \in Int
    PROVE  SumFunctionOnSet(Moved(b, t), Accounts) = SumFunctionOnSet(b, Accounts)
  <1> DEFINE n == t.amount
             debited == [b EXCEPT ![t.source] = @ - n]
  <1>1. /\ debited \in [Accounts -> Int]
        /\ debited[t.source] = b[t.source] - n
        /\ \A a \in Accounts : a # t.source => debited[a] = b[a]
    OBVIOUS
  <1>2. /\ Moved(b, t)[t.destination] = debited[t.destination] + n
        /\ \A a \in Accounts : a # t.destination => Moved(b, t)[a] = debited[a]
    BY DEF Moved
  <1> HIDE DEF debited
  <1>3. \A a \in Accounts : Moved(b, t)[a] \in Int
    BY <1>1, <1>2
  <1>4. SumFunctionOnSet(debited, Accounts) =
           SumFunctionOnSet(b, Accounts) + (debited[t.source] - b[t.source])
    BY <1>1, SumChange
  <1>5. SumFunctionOnSet(Moved(b, t), Accounts) =
           SumFunctionOnSet(debited, Accounts) + (Moved(b, t)[t.destination] - debited[t.destination])
    <2>1. \A a \in Accounts :
             debited[a] \in Int /\ (a # t.destination => Moved(b, t)[a] = debited[a])
      BY <1>1, <1>2
    <2>2. Moved(b, t)[t.destination] \in Int
      BY <1>3
    <2> QED
      BY <2>1, <2>2, SumChange
  <1>6. SumFunctionOnSet(b, Accounts) \in Int /\ b[t.source] \in Int /\ debited[t.destination] \in Int
    BY <1>1, SumType
  <1> HIDE DEF n
  <1>7. n \in Int
    BY DEF n
  <1> QED
    BY <1>1, <1>2, <1>4, <1>5, <1>6, <1>7

\* A transaction row with its double entry.
LEMMA PostedBooks ==
    ASSUME IsFiniteSet(Accounts), NEW b \in [Accounts -> Int],
           NEW L \in SUBSET LedgerRows, IsFiniteSet(L), NEW R, Books(b, L, R),
           NEW t \in Payments \cup Openings, t.source \in Accounts, t.destination \in Accounts,
           t.source # t.destination, t.amount \in Int, \A e \in L : e.txn # t
    PROVE  Books(Moved(b, t), L \cup Entries(t), R \cup {Row(t, "approved")})
  <1> DEFINE d == [txn |-> t, account |-> t.source, type |-> "debit"]
             c == [txn |-> t, account |-> t.destination, type |-> "credit"]
             n == t.amount
             Of(a) == {e \in L : e.account = a}
             For(u) == {e \in L : e.txn = u}
  <1>1. Entries(t) = {d, c}
    BY DEF Entries
  <1>2. /\ d \in LedgerRows /\ d.account = t.source /\ d.txn = t /\ d \notin L
        /\ c \in LedgerRows /\ c.account = t.destination /\ c.txn = t /\ c \notin L
        /\ d # c
    BY DEF LedgerRows
  <1>3. SignedCents[d] = -n /\ SignedCents[c] = n
    BY <1>2 DEF SignedCents
  <1>4. \A e \in L : SignedCents[e] \in Int
    <2>1. \A u \in Payments \cup Openings : u.amount \in Int
      BY PaymentsAssumption, AmountsAssumption DEF Openings, Opening
    <2>2. ASSUME NEW e \in L
          PROVE  SignedCents[e] \in Int
      <3>1. e \in LedgerRows /\ e.txn.amount \in Int
        BY <2>1 DEF LedgerRows
      <3> QED
        BY <3>1 DEF SignedCents
    <2> QED
      BY <2>2
  <1> HIDE DEF d, c, n
  <1>5. n \in Int
    BY DEF n
  <1>6. SignedCents[d] \in Int /\ SignedCents[c] \in Int
    BY <1>3, <1>5
  <1>7. ASSUME NEW a \in Accounts
        PROVE  Moved(b, t)[a] = SumFunctionOnSet(SignedCents, {e \in L \cup Entries(t) : e.account = a})
    <2>1. /\ IsFiniteSet(Of(a)) /\ Of(a) \subseteq L
          /\ b[a] = SumFunctionOnSet(SignedCents, Of(a))
      BY FS_Subset DEF Books
    <2>2. CASE a = t.source
      <3>1. {e \in L \cup Entries(t) : e.account = a} = Of(a) \cup {d}
        BY <1>1, <1>2, <2>2
      <3>2. SumFunctionOnSet(SignedCents, Of(a) \cup {d}) = b[a] + SignedCents[d]
        <4>1. d \notin Of(a) /\ \A e \in Of(a) \cup {d} : SignedCents[e] \in Int
          BY <1>2, <1>4, <1>6
        <4> HIDE DEF Of
        <4> QED
          BY <2>1, <4>1, SumAdd
      <3>3. Moved(b, t)[a] = b[a] - n
        BY <2>2 DEF Moved, n
      <3>4. b[a] \in Int
        OBVIOUS
      <3> QED
        BY <1>3, <1>5, <3>1, <3>2, <3>3, <3>4
    <2>3. CASE a = t.destination
      <3>1. {e \in L \cup Entries(t) : e.account = a} = Of(a) \cup {c}
        BY <1>1, <1>2, <2>3
      <3>2. SumFunctionOnSet(SignedCents, Of(a) \cup {c}) = b[a] + SignedCents[c]
        <4>1. c \notin Of(a) /\ \A e \in Of(a) \cup {c} : SignedCents[e] \in Int
          BY <1>2, <1>4, <1>6
        <4> HIDE DEF Of
        <4> QED
          BY <2>1, <4>1, SumAdd
      <3>3. Moved(b, t)[a] = b[a] + n
        BY <2>3 DEF Moved, n
      <3> QED
        BY <1>3, <3>1, <3>2, <3>3
    <2>4. CASE a # t.source /\ a # t.destination
      <3>1. {e \in L \cup Entries(t) : e.account = a} = Of(a)
        BY <1>1, <1>2, <2>4
      <3>2. Moved(b, t)[a] = b[a]
        BY <2>4 DEF Moved
      <3> QED
        BY <2>1, <3>1, <3>2
    <2> QED
      BY <2>2, <2>3, <2>4
  <1>8. ASSUME NEW r \in R \cup {Row(t, "approved")}
        PROVE  SumFunctionOnSet(SignedCents, {e \in L \cup Entries(t) : e.txn = r.txn}) = 0
    <2>1. CASE r.txn = t
      <3>1. {e \in L \cup Entries(t) : e.txn = r.txn} = {c} \cup {d}
        BY <1>1, <1>2, <2>1
      <3>2. IsFiniteSet({c}) /\ SumFunctionOnSet(SignedCents, {c}) = n
        BY <1>3, <1>6, SumOne, FS_Singleton
      <3>3. SumFunctionOnSet(SignedCents, {c} \cup {d}) = n + SignedCents[d]
        <4>1. d \notin {c} /\ \A e \in {c} \cup {d} : SignedCents[e] \in Int
          BY <1>2, <1>6
        <4> QED
          BY <3>2, <4>1, SumAdd
      <3>4. n + SignedCents[d] = 0
        BY <1>3, <1>5
      <3> QED
        BY <3>1, <3>3, <3>4
    <2>2. CASE r.txn # t
      <3>1. {e \in L \cup Entries(t) : e.txn = r.txn} = {e \in L : e.txn = r.txn}
        BY <1>1, <1>2, <2>2
      <3>2. r \in R
        BY <2>2 DEF Row
      <3> QED
        BY <3>1, <3>2 DEF Books
    <2> QED
      BY <2>1, <2>2
  <1>9. SumFunctionOnSet(Moved(b, t), Accounts) = 0
    BY MovedTotal DEF Books
  <1> QED
    BY <1>7, <1>8, <1>9 DEF Books

LEMMA BooksInit ==
    ASSUME IsFiniteSet(Accounts), InitTables
    PROVE  BooksBalance
  <1>1. \A a \in Accounts : {e \in ledger : e.account = a} = {}
    BY DEF InitTables
  <1>2. SumFunctionOnSet(account_balances, Accounts) = 0
    <2>1. \A a \in Accounts : account_balances[a] = 0
      BY DEF InitTables
    <2> QED
      BY <2>1, SumZero
  <1> QED
    BY <1>1, <1>2, SumEmpty DEF BooksBalance, InitTables

\* The opening, then the payment, are posted; a rejected payment has no entries.
LEMMA BooksCommit ==
    ASSUME IsFiniteSet(Accounts), LedgerIInv, BooksBalance, NEW w \in Workers, Commit(w)
    PROVE  BooksBalance'
  <1> DEFINE p == pay[w]
             o == Opening(p.source, p.currency)
             own == OwnBalances(p, opened[w])
             L == ledger \cup (IF opened[w] THEN Entries(o) ELSE {})
             R == transactions \cup (IF opened[w] THEN {Row(o, "approved")} ELSE {})
  <1>1. /\ p \in Payments /\ p.source \in Accounts /\ p.destination \in Accounts
        /\ p.amount \in Int /\ p.source # p.destination
        /\ verdict[w] \in {"approved", "rejected"}
        /\ ~HasTransaction(p.key)
    BY PaymentsAssumption
    DEF Commit, LedgerIInv, TypeOK, KeysInv, VerdictInv, Inserted, Checked, ValidRow
  <1>2. /\ o \in Openings /\ o.source \in SystemAccounts /\ o.source \in Accounts
        /\ o.destination = p.source /\ o.amount \in Int /\ o.key # p.key
    <2>1. p.currency \in Currencies /\ Equity[p.currency] \in SystemAccounts
      BY <1>1, AccountsAssumption, PaymentsAssumption
    <2>2. o.key # p.key
      BY <1>1, KeysAssumption DEF Opening, OpeningKey
    <2>3. o \in Openings
      BY <1>1, <2>1 DEF Openings
    <2>4. o.amount \in Int
      BY AmountsAssumption DEF Opening
    <2> QED
      BY <2>1, <2>2, <2>3, <2>4, AccountsAssumption DEF Opening
  <1>3. ASSUME NEW e \in ledger
        PROVE  HasTransaction(e.txn.key)
    <2> DEFINE r == Row(e.txn, "approved")
    <2>1. r \in transactions /\ r.txn = e.txn
      BY DEF LedgerIInv, EntriesInv, Row
    <2> HIDE DEF r
    <2> QED
      BY <2>1 DEF HasTransaction, SettledKeys
  <1>4. account_balances \in [Accounts -> Int] /\ ledger \in SUBSET LedgerRows /\ IsFiniteSet(ledger)
    BY DEF LedgerIInv, TypeOK, TablesTypeOK, EntriesInv
  <1>5. Books(account_balances, ledger, transactions)
    BY DEF BooksBalance, Books
  <1>6. /\ own \in [Accounts -> Int] /\ L \in SUBSET LedgerRows /\ IsFiniteSet(L)
        /\ \A e \in L : e.txn # p
        /\ Books(own, L, R)
    <2>1. CASE ~opened[w]
      BY <1>1, <1>3, <1>4, <1>5, <2>1 DEF OwnBalances
    <2>2. CASE opened[w]
      <3>1. o.source # o.destination /\ ~HasTransaction(o.key)
        BY <1>1, <1>2, <2>2 DEF LedgerIInv, OpeningsInv, Opening
      <3>2. \A e \in ledger : e.txn # o
        BY <1>3, <3>1
      <3> DEFINE b == Moved(account_balances, o)
                 M == ledger \cup Entries(o)
      <3>3. own = b /\ L = M /\ R = transactions \cup {Row(o, "approved")}
        BY <2>2 DEF OwnBalances
      <3>4. b \in [Accounts -> Int]
        BY <1>2, <1>4, MovedType
      <3>5. M \in SUBSET LedgerRows
        BY <1>1, <1>2, <1>4 DEF Entries, LedgerRows
      <3>6. IsFiniteSet(M)
        BY <1>4, EntriesFinite, FS_Union
      <3>7. \A e \in M : e.txn # p
        <4>1. \A e \in Entries(o) : e.txn = o
          BY DEF Entries
        <4> HIDE DEF o
        <4> QED
          BY <1>1, <1>2, <1>3, <4>1
      <3>8. Books(b, M, transactions \cup {Row(o, "approved")})
        <4>1. o \in Payments \cup Openings /\ o.destination \in Accounts
          BY <1>1, <1>2
        <4> HIDE DEF o
        <4> QED
          BY <1>2, <1>4, <1>5, <3>1, <3>2, <4>1, PostedBooks
      <3> HIDE DEF b, M, own, L, R
      <3> QED
        BY <3>3, <3>4, <3>5, <3>6, <3>7, <3>8
    <2> QED
      BY <2>1, <2>2
  <1> HIDE DEF own, L, R
  <1>7. CASE verdict[w] = "approved"
    <2>1. Books(Moved(own, p), L \cup Entries(p), R \cup {Row(p, "approved")})
      BY <1>1, <1>6, PostedBooks
    <2>2. /\ account_balances' = Moved(own, p)
          /\ ledger' = L \cup Entries(p)
          /\ transactions' = R \cup {Row(p, "approved")}
      BY <1>7 DEF Commit, Write, own, L, R
    <2> QED
      BY <2>1, <2>2 DEF Books, BooksBalance
  <1>8. CASE verdict[w] = "rejected"
    <2>1. Books(own, L, R \cup {Row(p, "rejected")})
      BY <1>6, RejectedBooks DEF Row
    <2>2. /\ account_balances' = own
          /\ ledger' = L
          /\ transactions' = R \cup {Row(p, "rejected")}
      BY <1>8 DEF Commit, Write, own, L, R
    <2> QED
      BY <2>1, <2>2 DEF Books, BooksBalance
  <1> QED
    BY <1>1, <1>7, <1>8

LEMMA BooksStep ==
    ASSUME IsFiniteSet(Accounts), LedgerIInv, BooksBalance, [Next]_vars
    PROVE  BooksBalance'
  <1>1. CASE UNCHANGED tables
    BY <1>1 DEF tables, BooksBalance
  <1> QED
    BY <1>1, BooksCommit, OtherSteps

\* The books balance after every commit, however the sessions are interleaved:
\* the view account_balances never parts from the entries, the entries of a
\* transaction cancel out, and so do the balances of all accounts.
THEOREM BooksAlwaysBalance ==
    ASSUME IsFiniteSet(Accounts)
    PROVE  Spec => []BooksBalance
  <1>1. Init => BooksBalance
    BY BooksInit DEF Init
  <1>2. LedgerIInv /\ BooksBalance /\ [Next]_vars => BooksBalance'
    BY BooksStep
  <1> QED
    BY <1>1, <1>2, Invariance, PTL DEF Spec

-----------------------------------------------------------------------------
(* Ledger implements Settlement.                                           *)

\* A commit is one settlement of the abstract specification.
LEMMA CommitSettles ==
    ASSUME LedgerIInv, NEW w \in Workers, Commit(w)
    PROVE  Atomic!Settle(pay[w], opened[w])
  <1> DEFINE p == pay[w]
             new == {a \in Atomic!Touched(p, opened[w]) : accounts[a] = Null}
  <1>1. pc[w] = "commit" /\ p \in Payments /\ opened[w] \in BOOLEAN
    BY DEF LedgerIInv, TypeOK, Commit
  <1>2. ~Atomic!HasTransaction(p.key) /\ Atomic!ValidRow(p)
    BY <1>1
    DEF LedgerIInv, KeysInv, Inserted, HasTransaction, SettledKeys, ValidRow,
        Atomic!HasTransaction, Atomic!SettledKeys, Atomic!ValidRow
  <1>3. Atomic!MayOpen(p, opened[w])
    BY <1>1
    DEF LedgerIInv, OpeningsInv, Seeded, Inserted, HasTransaction, SettledKeys, OpeningKey,
        NeedsOpening, HasEntries, Atomic!MayOpen, Atomic!NeedsOpening, Atomic!HasEntries,
        Atomic!HasTransaction, Atomic!SettledKeys, Atomic!OpeningKey
  <1>4. new = created[w]
    <2>1. Ensured(w) = Atomic!Touched(p, opened[w])
      BY <1>1 DEF Ensured, Atomic!Touched
    <2> QED
      BY <2>1 DEF LedgerIInv, RowsInv
  <1>5. verdict[w] = Atomic!Verdict(p, opened[w], new)
    <2>1. verdict[w] = IF Available(w) < p.amount THEN "rejected" ELSE "approved"
      BY <1>1 DEF LedgerIInv, VerdictInv, Checked
    <2> QED
      BY <1>4, <2>1
      DEF Available, BalanceCents, WithAccounts, OwnBalances, Moved, Opening, OpeningKey,
          Atomic!Verdict, Atomic!BalanceCents, Atomic!WithAccounts, Atomic!OwnBalances,
          Atomic!Moved, Atomic!Opening, Atomic!OpeningKey
  <1>6. Atomic!Write(p, opened[w], verdict[w], created[w])
    BY DEF Commit, Write, WithAccounts, OwnBalances, Moved, Opening, OpeningKey, Row, Entries,
           Atomic!Write, Atomic!WithAccounts, Atomic!OwnBalances, Atomic!Moved, Atomic!Opening,
           Atomic!OpeningKey, Atomic!Row, Atomic!Entries
  <1> QED
    BY <1>2, <1>3, <1>4, <1>5, <1>6 DEF Atomic!Settle

\* The concurrent sessions, seen through the committed tables, behave as if each
\* payment were settled at once: Ledger implements Settlement.
THEOREM Refinement == Spec => SettlesAtomically
  <1>1. Init => Atomic!InitTables
    BY DEF Init, InitTables, EquityRows, Atomic!InitTables, Atomic!EquityRows
  <1>2. LedgerIInv /\ [Next]_vars => [Atomic!Next]_(Atomic!tables)
    <2> SUFFICES ASSUME LedgerIInv, [Next]_vars
                 PROVE  Atomic!Next \/ UNCHANGED Atomic!tables
      OBVIOUS
    <2>1. ASSUME NEW w \in Workers, Commit(w)
          PROVE  Atomic!Next
      BY <2>1, CommitSettles DEF Atomic!Next, LedgerIInv, TypeOK, Commit
    <2> QED
      BY <2>1, OtherSteps DEF tables, Atomic!tables
  <1> QED
    BY <1>1, <1>2, Invariance, PTL DEF Spec, SettlesAtomically, Atomic!Spec

-----------------------------------------------------------------------------
(* Ledger implements SettleOnce.                                           *)

\* A settled key has its row in the table, and no other.
LEMMA RowFound ==
    ASSUME SettledOnce', NEW k, NEW r \in transactions', r.txn.key = k
    PROVE  HasTransaction(k)' /\ RowOf(k)' = r
  <1>1. RowOf(k)' \in transactions' /\ RowOf(k)'.txn.key = k
    BY DEF RowOf
  <1> QED
    BY <1>1 DEF SettledOnce, HasTransaction, SettledKeys

LEMMA RowIn ==
    ASSUME NEW k, HasTransaction(k)
    PROVE  RowOf(k) \in transactions /\ RowOf(k).txn.key = k
  <1>1. \E r \in transactions : r.txn.key = k
    BY DEF HasTransaction, SettledKeys
  <1> QED
    BY <1>1 DEF RowOf

\* A commit sets the register of its key, and no other.
LEMMA CommitSetsOnce ==
    ASSUME LedgerIInv, SettledOnce', NEW w \in Workers, Commit(w)
    PROVE  Register!Settle(pay[w].key, verdict[w])
  <1>1. PICK p, key, status : p = pay[w] /\ key = p.key /\ status = verdict[w]
    OBVIOUS
  <1> DEFINE row == Row(p, status)
  <1>2. /\ p \in Payments /\ key \in PaymentKeys
        /\ ~HasTransaction(key) /\ ValidRow(p)
    BY <1>1 DEF Commit, LedgerIInv, TypeOK, KeysInv, Inserted, PaymentKeys
  <1>3. key \notin Refused
    BY <1>1, <1>2 DEF Refused
  <1>4. transactions \subseteq transactions' /\ row \in transactions'
    BY <1>1 DEF Commit, Write
  <1>5. row.txn.key = key /\ row.status = status
    BY <1>1 DEF Row
  <1> HIDE DEF row
  <1>6. HasTransaction(key)' /\ RowOf(key)' = row
    BY <1>4, <1>5, RowFound
  <1>7. ASSUME NEW k \in PaymentKeys, k # key
        PROVE  /\ HasTransaction(k)' <=> HasTransaction(k)
               /\ HasTransaction(k) => RowOf(k)' = RowOf(k)
    <2>1. k # OpeningKey(p.source)
      BY <1>2, KeysAssumption, PaymentsAssumption DEF PaymentKeys, OpeningKey
    <2>2. HasTransaction(k)' <=> HasTransaction(k)
      BY <1>1, <1>7, <2>1, KeysAfterCommit DEF HasTransaction
    <2>3. ASSUME HasTransaction(k)
          PROVE  RowOf(k)' = RowOf(k)
      BY <1>4, <2>3, RowIn, RowFound
    <2> QED
      BY <2>2, <2>3
  <1>8. ASSUME NEW k \in PaymentKeys
        PROVE  StatusOf'[k] = IF k = key THEN status ELSE StatusOf[k]
    BY <1>5, <1>6, <1>7 DEF StatusOf
  <1>9. /\ StatusOf' = [k \in PaymentKeys |-> StatusOf'[k]]
        /\ StatusOf = [k \in PaymentKeys |-> StatusOf[k]]
    BY DEF StatusOf
  <1>10. StatusOf[key] = Null
    BY <1>2 DEF StatusOf
  <1>11. StatusOf' = [StatusOf EXCEPT ![key] = status]
    BY <1>2, <1>8, <1>9
  <1> QED
    BY <1>1, <1>3, <1>10, <1>11 DEF Register!Settle

\* The consumer loop may take the tables for a register that is set once per key.
THEOREM VerdictsNeverChange == Spec => VerdictsAreFinal
  <1>1. Init => Register!Init
    BY DEF Init, InitTables, Register!Init, StatusOf, HasTransaction, SettledKeys
  <1>2. LedgerIInv /\ LedgerIInv' /\ [Next]_vars => [Register!Next]_StatusOf
    <2> SUFFICES ASSUME LedgerIInv, LedgerIInv', [Next]_vars
                 PROVE  Register!Next \/ UNCHANGED StatusOf
      OBVIOUS
    <2>1. ASSUME NEW w \in Workers, Commit(w)
          PROVE  Register!Next
      <3>1. Register!Settle(pay[w].key, verdict[w])
        BY <2>1, CommitSetsOnce DEF LedgerIInv
      <3>2. pay[w].key \in PaymentKeys /\ verdict[w] \in {"approved", "rejected"}
        BY <2>1 DEF Commit, LedgerIInv, TypeOK, VerdictInv, Checked, PaymentKeys
      <3> QED
        BY <3>1, <3>2 DEF Register!Next
    <2>2. CASE UNCHANGED tables
      BY <2>2 DEF tables, StatusOf, RowOf, HasTransaction, SettledKeys
    <2> QED
      BY <2>1, <2>2, OtherSteps
  <1> QED
    BY <1>1, <1>2, Invariance, PTL DEF Spec, VerdictsAreFinal, Register!Spec
=============================================================================
