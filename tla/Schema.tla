------------------------------- MODULE Schema -------------------------------
(***************************************************************************)
(* The Postgres tables of postgres/init/001_schema.sql, and the writes one *)
(* settlement (webhook-worker/ledger.py) makes to them.                    *)
(*                                                                         *)
(* A transaction row and its two ledger entries refer to the same record:  *)
(* a payment as it arrives in a Kafka message, or the opening balance that *)
(* a settlement books for an account it sees for the first time.  Amounts  *)
(* are cents.  Timestamps, payment types, reject reasons and surrogate ids *)
(* are left out: no decision of the settlement depends on them.            *)
(***************************************************************************)
EXTENDS Integers, FiniteSets, FiniteSetsExt

CONSTANTS
    Accounts,           \* every account id, the system accounts included
    SystemAccounts,     \* the ids that start with "system:"
    Currencies,         \* what a message may carry as its currency
    CurrencyCodes,      \* the currencies that match '^[A-Z]{3}$'
    BookedCurrencies,   \* the currencies whose equity account the schema inserts
    Equity,             \* currency -> "system:equity:<currency>"
    Payments,           \* payment messages: the bodies found on the topic
    OpeningBalance,     \* OPENING_BALANCE_CENTS
    MaxAmount,          \* the largest BIGINT
    Null                \* no row

\* What a payment message carries: the idempotency key the gateway composed,
\* the two accounts, the cents and the currency.
PaymentKeys == {p.key : p \in Payments}

ASSUME AccountsAssumption ==
    /\ SystemAccounts \subseteq Accounts
    /\ BookedCurrencies \subseteq CurrencyCodes
    /\ CurrencyCodes \subseteq Currencies
    /\ Equity \in [Currencies -> SystemAccounts]
    /\ \A c, d \in Currencies : Equity[c] = Equity[d] => c = d
    /\ Null \notin Currencies

ASSUME PaymentsAssumption ==
    \A p \in Payments :
        /\ p = [key |-> p.key, source |-> p.source, destination |-> p.destination,
                amount |-> p.amount, currency |-> p.currency]
        /\ p.source \in Accounts
        /\ p.destination \in Accounts
        /\ p.amount \in Int
        /\ p.currency \in Currencies

\* A zero opening balance would violate the CHECK on ledger_entries.
ASSUME AmountsAssumption ==
    /\ MaxAmount \in Nat
    /\ OpeningBalance \in 1..MaxAmount

\* "opening:<account>" is not the key of a payment: a payment key starts with
\* its source account, and no account is called "opening".  Nothing in the
\* gateway refuses that name; a payment of such an account would meet the
\* opening of another one in the UNIQUE index, where the later of the two
\* counts as a duplicate or fails.
ASSUME KeysAssumption ==
    \A p \in Payments, a \in Accounts : p.key # <<"opening", a>>

VARIABLES
    accounts,           \* account id -> its currency, or Null while it has no row
    transactions,       \* committed rows of the table transactions
    ledger,             \* committed rows of the table ledger_entries
    account_balances    \* account id -> what the view account_balances sums

tables == <<accounts, transactions, ledger, account_balances>>

-----------------------------------------------------------------------------
OpeningKey(a) == <<"opening", a>>

\* The opening transaction of account a in currency c.
Opening(a, c) ==
    [key |-> OpeningKey(a), source |-> Equity[c], destination |-> a,
     amount |-> OpeningBalance, currency |-> c]

Openings == {Opening(a, c) : a \in Accounts, c \in Currencies}

Row(t, status) == [txn |-> t, status |-> status]

\* The double entry of a transaction.
Entries(t) ==
    {[txn |-> t, account |-> t.source, type |-> "debit"],
     [txn |-> t, account |-> t.destination, type |-> "credit"]}

\* The rows ledger_entries may have.
LedgerRows ==
    [txn : Payments \cup Openings, account : Accounts, type : {"debit", "credit"}]

\* What a row of ledger_entries adds to a sum of the view account_balances.
SignedCents ==
    [e \in LedgerRows |-> IF e.type = "credit" THEN e.txn.amount ELSE -e.txn.amount]

SettledKeys == {r.txn.key : r \in transactions}

HasTransaction(key) == key \in SettledKeys

HasEntries(a) == \E e \in ledger : e.account = a

\* Variant: the credit entry is forgotten.
MovedDebitOnly(balances, t) ==
    [a \in Accounts |-> balances[a] - (IF a = t.source THEN t.amount ELSE 0)]

\* The balances after the double entry of t is added.
Moved(balances, t) ==
    [a \in Accounts |->
        balances[a] - (IF a = t.source THEN t.amount ELSE 0)
                    + (IF a = t.destination THEN t.amount ELSE 0)]

\* CHECK constraints of the table transactions.
ValidRow(p) ==
    /\ p.amount \in 1..MaxAmount
    /\ p.source # p.destination
    /\ p.currency \in CurrencyCodes

\* New, non-system accounts are credited from equity before they first pay.
NeedsOpening(a) == a \notin SystemAccounts /\ ~HasEntries(a)

\* SELECT balance_cents FROM account_balances WHERE account_id AND currency:
\* an account in another currency has no such row, which reads as 0.
BalanceCents(a, c, currencyOf, balances) ==
    IF currencyOf[a] = c THEN balances[a] ELSE 0

\* accounts once rows for the accounts in new are inserted, in currency c.
WithAccounts(new, c) == [a \in Accounts |-> IF a \in new THEN c ELSE accounts[a]]

\* The balances a settlement of p reads: those of the committed entries and,
\* when it has booked one, of its own opening entries.
OwnBalances(p, opened) ==
    IF opened THEN Moved(account_balances, Opening(p.source, p.currency))
              ELSE account_balances

\* Everything one committed settlement of p writes: new account rows, its
\* transaction row, the opening transaction, and the double entries.
Write(p, opened, status, new) ==
    /\ accounts' = WithAccounts(new, p.currency)
    /\ transactions' = transactions \cup {Row(p, status)}
         \cup (IF opened THEN {Row(Opening(p.source, p.currency), "approved")} ELSE {})
    /\ ledger' = ledger
         \cup (IF opened THEN Entries(Opening(p.source, p.currency)) ELSE {})
         \cup (IF status = "approved" THEN Entries(p) ELSE {})
    /\ account_balances' = IF status = "approved" THEN Moved(OwnBalances(p, opened), p)
                                                  ELSE OwnBalances(p, opened)

\* The rows accounts starts with: the equity accounts.
EquityRows ==
    [a \in Accounts |->
        IF \E c \in BookedCurrencies : Equity[c] = a
        THEN CHOOSE c \in BookedCurrencies : Equity[c] = a
        ELSE Null]

InitTables ==
    /\ accounts = EquityRows
    /\ transactions = {}
    /\ ledger = {}
    /\ account_balances = [a \in Accounts |-> 0]

TablesTypeOK ==
    /\ accounts \in [Accounts -> Currencies \cup {Null}]
    /\ transactions \subseteq [txn : Payments \cup Openings, status : {"approved", "rejected"}]
    /\ ledger \subseteq LedgerRows
    /\ account_balances \in [Accounts -> Int]
=============================================================================
