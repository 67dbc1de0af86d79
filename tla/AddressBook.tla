---------------------------- MODULE AddressBook ----------------------------
(***************************************************************************)
(* What registration promises about WireGuard addresses, whatever handlers *)
(* interleave, fail or are restarted: an address is granted once, to one   *)
(* machine, for good; a machine is only ever routed at an address it was   *)
(* granted, and an agent is only ever told such a one.  That no two        *)
(* machines share a route follows, and no step has to see to it.           *)
(***************************************************************************)
CONSTANTS Machines, NoIP

VARIABLES
    grants,     \* the pairs <<machine, address>> on record
    route,      \* route[m]: where traffic for m goes
    holder      \* holder[m]: the address that the running agent of m has

Granted(m) == {g[2] : g \in {h \in grants : h[1] = m}}

Init ==
    /\ grants = {}
    /\ route = [m \in Machines |-> NoIP]
    /\ holder = [m \in Machines |-> NoIP]

Grant ==
    \E m \in Machines : \E g \in grants' \ grants :
        /\ g[1] = m
        /\ g[2] # NoIP
        /\ \A h \in grants : h[2] # g[2]
        /\ grants' = grants \cup {g}
        /\ UNCHANGED <<route, holder>>

Route(m) ==
    /\ \E a \in Granted(m) : route' = [route EXCEPT ![m] = a]
    /\ UNCHANGED <<grants, holder>>

\* The routes are set from a file, or lost.
Restore ==
    /\ \A m \in Machines : route'[m] \in Granted(m) \cup {NoIP}
    /\ route' = [m \in Machines |-> route'[m]]
    /\ UNCHANGED <<grants, holder>>

Join(m) ==
    /\ \E a \in Granted(m) : holder' = [holder EXCEPT ![m] = a]
    /\ UNCHANGED <<grants, route>>

Leave(m) ==
    /\ holder' = [holder EXCEPT ![m] = NoIP]
    /\ UNCHANGED <<grants, route>>

Next ==
    \/ Grant
    \/ \E m \in Machines : Route(m) \/ Join(m) \/ Leave(m)
    \/ Restore

Spec == Init /\ [][Next]_<<grants, route, holder>>
=============================================================================
