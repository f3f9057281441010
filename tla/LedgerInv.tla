------------------------------ MODULE LedgerInv ------------------------------
(***************************************************************************)
(* Why Ledger keeps its promises: an inductive invariant, part by part.    *)
(* Each part says what one group of statements has secured for the rest of *)
(* its session.                                                            *)
(***************************************************************************)
EXTENDS Ledger

\* Past _seed_opening_balance.
Seeded == {"insert"} \cup Inserted

\* Past the balance check.
Checked == {"debit", "credit", "commit"}

\* The accounts whose rows a session has made sure of.
Ensured(w) ==
    (IF pc[w] \notin {"idle", "ensure_source"} THEN {pay[w].source} ELSE {})
    \cup (IF pc[w] \notin {"idle", "ensure_source", "ensure_destination"}
          THEN {pay[w].destination} ELSE {})
    \cup (IF pc[w] = "open" \/ opened[w] THEN {Equity[pay[w].currency]} ELSE {})

\* Account rows: an ensured account has a committed row or one of the session's
\* own, and two sessions never hold uncommitted rows for the same account.
RowsInv ==
    /\ \A w \in Workers :
          created[w] = {a \in Ensured(w) : accounts[a] = Null}
    /\ \A w, v \in Workers : w # v => created[w] \cap created[v] = {}

\* Transaction rows: the key a session has inserted is its own and new.
KeysInv ==
    /\ \A w \in Workers :
          pc[w] \in Inserted => ~HasTransaction(pay[w].key) /\ ValidRow(pay[w])
    /\ \A w, v \in Workers :
          w # v /\ pc[w] \in Inserted /\ pc[v] \in Inserted => pay[w].key # pay[v].key

\* Opening balances: an account a session pays from has entries, is a system
\* account, or is being opened by this session and no other.
OpeningsInv ==
    /\ \A w \in Workers : opened[w] => pc[w] \in Seeded
    /\ \A w \in Workers :
          opened[w] \/ pc[w] \in {"ensure_equity", "open"} => pay[w].source \notin SystemAccounts
    /\ \A w \in Workers : opened[w] => ~HasTransaction(OpeningKey(pay[w].source))
    /\ \A w, v \in Workers :
          w # v /\ opened[w] /\ opened[v] => pay[w].source # pay[v].source
    /\ \A w \in Workers : pc[w] \in Seeded /\ ~opened[w] => ~NeedsOpening(pay[w].source)

\* Row locks: FOR UPDATE keeps every other session's locks off the account.
LocksInv ==
    \A w, v \in Workers :
        w # v /\ pc[w] \in Locked => pay[w].source \notin KeyShare(v) \cup ForUpdate(v)

\* The verdict: what the balance check found is still true when the session
\* commits.
VerdictInv ==
    \A w \in Workers :
        pc[w] \in Checked =>
            verdict[w] = IF Available(w) < pay[w].amount THEN "rejected" ELSE "approved"

\* Entries: finitely many, each of an approved transaction.
EntriesInv ==
    /\ IsFiniteSet(ledger)
    /\ \A e \in ledger : Row(e.txn, "approved") \in transactions

LedgerIInv ==
    /\ TypeOK
    /\ RowsInv
    /\ KeysInv
    /\ OpeningsInv
    /\ LocksInv
    /\ VerdictInv
    /\ EntriesInv
    /\ SettledOnce
    /\ NoOverdraft
=============================================================================
