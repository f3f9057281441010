---------------------------- MODULE MCSimulator ----------------------------
(***************************************************************************)
(* A small instance of Simulator for TLC.                                  *)
(***************************************************************************)
EXTENDS Simulator

\* Negative limits, none, and limits of one and two days.
MCEnvDays == {-1, 0, 2}
MCArgDays == {-2, 0, 1}

\* Users who may or may not pay, and users who all pay by day and not at night.
SomePersonas ==
    {[day |-> "sometimes", night |-> "sometimes"], [day |-> "always", night |-> "never"]}
=============================================================================
