------------------------------ MODULE MCWorker ------------------------------
(***************************************************************************)
(* Small instances of Worker for TLC.                                      *)
(***************************************************************************)
EXTENDS Worker, TLC

CONSTANTS w1, w2, k1, k2, k3

WorkerSymmetry == Permutations(Workers)

\* With no poisoned key, the keys are interchangeable too.
FullSymmetry == Permutations(Workers) \cup Permutations(Keys)
=============================================================================
