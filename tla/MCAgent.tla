------------------------------ MODULE MCAgent ------------------------------
(* Finite instances of Agent for TLC.                                       *)
EXTENDS Agent

CONSTANTS j1, j2, k1, k2, bad

MCJobs == {j1, j2}
MCModes == {"firecracker", "container", "ssh", "other"}
MCContainer == {"container"}
MCKeys == {k1, k2, bad}
MCBadKeys == {bad}
=============================================================================
