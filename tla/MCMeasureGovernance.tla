------------------------ MODULE MCMeasureGovernance ------------------------
(***************************************************************************)
(* A service with one SLO that has an error budget of ten percent, one that *)
(* has none, and one threshold.                                            *)
(***************************************************************************)
EXTENDS MeasureGovernance

CONSTANTS s1, s2, t1

MCTarget == [s \in SLOs |-> 90]

\* Healthy, half the budget, exactly twice and six times the budget, or nothing.
AllReadings == {100, 85, 70, 30, NoData}
==============================================================================
