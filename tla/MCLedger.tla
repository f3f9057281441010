------------------------------ MODULE MCLedger ------------------------------
(***************************************************************************)
(* Small instances of Ledger for TLC.                                      *)
(***************************************************************************)
EXTENDS LedgerInv, TLC

CONSTANTS w1, w2, w3, alice, bob, shop, equity_usd, equity_eur, equity_xx,
          usd, eur, xx, k1, k2, k3, k4, k5

WorkerSymmetry == Permutations(Workers)

MCAccounts == {alice, bob, shop, equity_usd, equity_eur, equity_xx}
MCSystemAccounts == {equity_usd, equity_eur, equity_xx}
MCEquity == usd :> equity_usd @@ eur :> equity_eur @@ xx :> equity_xx

Message(key, source, destination, amount, currency) ==
    [key |-> key, source |-> source, destination |-> destination,
     amount |-> amount, currency |-> currency]

\* With an opening balance of 3: payments out of one account, the first rejected,
\* and one in the other direction.  The rejected one leaves both accounts with
\* their rows.
CrossingPayments ==
    {Message(k1, alice, bob, 5, usd), Message(k2, alice, bob, 2, usd),
     Message(k3, bob, alice, 3, usd)}

\* A key under two bodies: a payment in a second currency, whose equity account
\* has no row yet, and a payment the first account cannot make besides k2; and
\* messages that the schema or settle_payment refuses.
OddPayments ==
    {Message(k4, bob, shop, 2, eur), Message(k4, alice, shop, 2, usd),
     Message(k5, bob, bob, 1, usd), Message(k5, bob, shop, 0, usd),
     Message(k5, shop, bob, 1, xx)}

MixedPayments == CrossingPayments \cup OddPayments
=============================================================================
