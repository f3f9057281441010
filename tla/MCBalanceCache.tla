--------------------------- MODULE MCBalanceCache ---------------------------
(***************************************************************************)
(* Small instances of BalanceCache for TLC.                                *)
(***************************************************************************)
EXTENDS BalanceCache, MCLedger

\* One payment each way and one that is rejected; bob is paid before he pays.
CachePayments ==
    {Message(k1, alice, bob, 2, usd), Message(k2, bob, alice, 1, usd),
     Message(k3, alice, bob, 8, usd)}

\* Two payments, in opposite directions.
RepairPayments ==
    {Message(k1, alice, bob, 2, usd), Message(k2, bob, alice, 1, usd)}
=============================================================================
