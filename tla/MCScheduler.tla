---------------------------- MODULE MCScheduler ----------------------------
(* Finite instances of Scheduler for TLC. *)
EXTENDS Scheduler, TLC

CONSTANTS p1, p2, s1, s2

MCProviders == {p1, p2}
MCOneProvider == {p1}
MCSlots == {s1, s2}

\* A provider with room, one with less, and one the sweep took offline.
MCRows == {[status |-> "online", cpuCores |-> 2, memFree |-> 4],
           [status |-> "online", cpuCores |-> 2, memFree |-> 2],
           [status |-> "offline", cpuCores |-> 2, memFree |-> 4]}

\* One request every online row fits, and one only the larger row fits.
MCRequests == {[cpuCores |-> 1, memory |-> 1], [cpuCores |-> 2, memory |-> 3]}

\* Two polls of one agent, and two agents, are interchangeable.
Symmetry == Permutations(MCProviders) \cup Permutations(MCSlots)
=============================================================================
