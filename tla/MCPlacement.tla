---------------------------- MODULE MCPlacement ----------------------------
(* A finite instance of Placement for TLC; the unit of time is 15 s.        *)
EXTENDS Placement

CONSTANTS a, j1

MCIds == {a}
MCJobs == {j1}
MCReports == {1}
MCNeeds == {0, 1}
=============================================================================
