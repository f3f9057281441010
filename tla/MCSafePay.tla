----------------------------- MODULE MCSafePay -----------------------------
(***************************************************************************)
(* A small instance of SafePay for TLC.                                    *)
(***************************************************************************)
EXTENDS SafePay, TLC

CONSTANTS r1, r2, k1, p1, w1

\* One payment that is sent twice.
Sent == [r \in Requests |-> k1]
=============================================================================
