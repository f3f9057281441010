----------------------------- MODULE SettleOnce -----------------------------
(***************************************************************************)
(* What the consumer loop may take settle_payment for: a register per      *)
(* idempotency key that is set once.  The tables of Ledger implement it,   *)
(* and Worker sets it in no other way.                                     *)
(***************************************************************************)
CONSTANTS
    Keys,       \* idempotency keys
    Poison,     \* keys no message of which can be settled
    None        \* no verdict

VARIABLE settled    \* key -> the status of its row in transactions, or None

Init == settled = [k \in Keys |-> None]

\* settle_payment returns "approved" or "rejected"; what it finds settled it
\* reports as "duplicate", which is no step here.
Settle(k, verdict) ==
    /\ k \notin Poison
    /\ settled[k] = None
    /\ settled' = [settled EXCEPT ![k] = verdict]

Next == \E k \in Keys, verdict \in {"approved", "rejected"} : Settle(k, verdict)

Spec == Init /\ [][Next]_settled
=============================================================================
