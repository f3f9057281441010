----------------------------- MODULE MCGateway -----------------------------
(***************************************************************************)
(* A small instance of Gateway for TLC.                                    *)
(***************************************************************************)
EXTENDS Gateway

CONSTANTS r1, r2, k1, p1, p2

\* One payment, sent again and again.
Repeated == [r \in Requests |-> k1]
=============================================================================
