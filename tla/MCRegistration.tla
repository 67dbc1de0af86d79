--------------------------- MODULE MCRegistration ---------------------------
(* Finite instances of Registration for TLC.                                *)
EXTENDS Registration, TLC

CONSTANTS m1, m2

MCMachines == {m1, m2}

MCOneToken == {"dcp"}

Symmetry == Permutations(MCMachines)
=============================================================================
