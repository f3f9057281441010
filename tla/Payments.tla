------------------------------ MODULE Payments ------------------------------
(***************************************************************************)
(* What SafePay promises the clients of POST /pay and GET /status about    *)
(* the payment under an idempotency key, whatever lies between them and    *)
(* the ledger.  SafePay.tla implements it.                                 *)
(***************************************************************************)
CONSTANTS
    Keys,       \* idempotency keys
    Poison,     \* keys of payments that cannot be settled
    None

VARIABLES
    sent,       \* keys some client has sent a payment under
    forwarded,  \* keys of the payments the worker can get hold of
    promised,   \* keys some client was told "queued" for in answer to POST /pay
    booked,     \* key -> the verdict in the ledger, or None
    seen        \* key -> the last answer to GET /status, or None

vars == <<sent, forwarded, promised, booked, seen>>

Init ==
    /\ sent = {}
    /\ forwarded = {}
    /\ promised = {}
    /\ booked = [k \in Keys |-> None]
    /\ seen = [k \in Keys |-> None]

Send(k) ==
    /\ sent' = sent \cup {k}
    /\ UNCHANGED <<forwarded, promised, booked, seen>>

Forward(k) ==
    /\ k \in sent
    /\ forwarded' = forwarded \cup {k}
    /\ UNCHANGED <<sent, promised, booked, seen>>

\* "queued" is said of what has been forwarded,
Promise(k) ==
    /\ k \in forwarded
    /\ promised' = promised \cup {k}
    /\ UNCHANGED <<sent, forwarded, booked, seen>>

\* a verdict is reached once, on what has been forwarded,
Book(k) ==
    /\ k \in forwarded \ Poison
    /\ booked[k] = None
    /\ \E verdict \in {"approved", "rejected"} : booked' = [booked EXCEPT ![k] = verdict]
    /\ UNCHANGED <<sent, forwarded, promised, seen>>

\* What may be said of the payment under k.  "processed" stands for a verdict
\* the worker has not kept, and "unknown" for a 404.
Truths(k) ==
    {"unknown"}
    \cup (IF k \in sent THEN {"accepted", "failed"} ELSE {})
    \cup (IF k \in forwarded THEN {"queued", "processing"} ELSE {})
    \cup (IF booked[k] # None THEN {"processed", booked[k]} ELSE {})

\* and GET /status says nothing else.
Look(k) ==
    /\ \E status \in Truths(k) : seen' = [seen EXCEPT ![k] = status]
    /\ UNCHANGED <<sent, forwarded, promised, booked>>

Next == \E k \in Keys : Send(k) \/ Forward(k) \/ Promise(k) \/ Book(k) \/ Look(k)

Spec == Init /\ [][Next]_vars

\* A payment a client was told "queued" for is settled in the end.
PromisesKept == \A k \in Keys \ Poison : k \in promised ~> booked[k] # None
=============================================================================
