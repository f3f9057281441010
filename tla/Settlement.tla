----------------------------- MODULE Settlement -----------------------------
(***************************************************************************)
(* What settle_payment promises to its caller: each payment is settled in  *)
(* one atomic step, at most once per idempotency key, and approved exactly *)
(* when the source account holds the amount at that moment.                *)
(*                                                                         *)
(* Ledger.tla takes the same step apart into SQL statements of concurrent  *)
(* sessions and implements this specification.                             *)
(***************************************************************************)
EXTENDS Schema

\* The account rows settle_payment needs: both parties, and the equity account
\* when an opening balance is booked.
Touched(p, opened) ==
    {p.source, p.destination} \cup (IF opened THEN {Equity[p.currency]} ELSE {})

\* An account without entries is opened.  One whose first entry another session
\* commits while this settlement runs may be opened too, but never twice.
MayOpen(p, opened) ==
    /\ NeedsOpening(p.source) => opened
    /\ opened => /\ p.source \notin SystemAccounts
                 /\ ~HasTransaction(OpeningKey(p.source))

Verdict(p, opened, new) ==
    IF BalanceCents(p.source, p.currency, WithAccounts(new, p.currency),
                    OwnBalances(p, opened)) < p.amount
    THEN "rejected" ELSE "approved"

\* A duplicate key, an amount out of range or a payment to oneself leaves the
\* tables as they are, and is no step here.
Settle(p, opened) ==
    LET new == {a \in Touched(p, opened) : accounts[a] = Null}
    IN  /\ ~HasTransaction(p.key)
        /\ ValidRow(p)
        /\ MayOpen(p, opened)
        /\ Write(p, opened, Verdict(p, opened, new), new)

Next == \E p \in Payments, opened \in BOOLEAN : Settle(p, opened)

Spec == InitTables /\ [][Next]_tables
=============================================================================
