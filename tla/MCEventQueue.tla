---------------------------- MODULE MCEventQueue ----------------------------
(***************************************************************************)
(* EventQueue on a small instance.  Delays are not bounded by the code:    *)
(* LatestDate and MostRuns cut the exploration.                            *)
(***************************************************************************)
EXTENDS EventQueue

LatestDate == 7
MostRuns == 2

Bounded == /\ now <= LatestDate
           /\ \A t \in pending : t.date <= LatestDate
           /\ runs <= MostRuns

SomeDelays == {-1, 0, 1, 2, 4}
=============================================================================
