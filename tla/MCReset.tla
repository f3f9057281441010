------------------------------ MODULE MCReset ------------------------------
(***************************************************************************)
(* Small instances of Reset for TLC.                                       *)
(***************************************************************************)
EXTENDS Reset, MCBalanceCache

\* One currency, and no account besides those of RepairPayments.
FewAccounts == {alice, bob, equity_usd}
OneEquity == usd :> equity_usd
=============================================================================
