----------------------------- MODULE Allocators -----------------------------
(***************************************************************************)
(* The two counters in Redis from which a registration takes its WireGuard *)
(* address and its relay port.  Both only grow, for every registration,    *)
(* also one that fails later, and nothing is ever given back.              *)
(***************************************************************************)
EXTENDS Integers, Sequences

CONSTANTS
    UsedIPs,        \* addresses given before: Redis keeps the counters when
    UsedPorts       \* the control plane is installed again

ASSUME UsedAssumption == UsedIPs \in Nat /\ UsedPorts \in Nat

VARIABLES
    wgCounter,      \* dcp:wg_ip_counter
    portCounter     \* dcp:port_counter

AllocatorsInit == wgCounter = UsedIPs /\ portCounter = UsedPorts

\* Mutant: the carry is in the third octet, the fourth counts from zero.
MutWGAddress(n) == <<10, 99, (n \div 254) + 1, n % 254>>

\* The address for the n-th INCR: 254 addresses in each third octet.
WGAddress(n) == <<10, 99, ((n - 1) \div 254) + 1, ((n - 1) % 254) + 1>>

VMPort(n) == (n % 10000) + 40000
VMPorts == 40000 .. 49999

\* INCR is atomic: two calls never see the same value.
AllocWGIP == wgCounter' = wgCounter + 1
AllocPort == portCounter' = portCounter + 1

\* "Uses 10.99.1.1 - 10.99.254.254, giving 64k+ provider slots" (redis.go:56).
Documented(ip) ==
    /\ ip[1] = 10 /\ ip[2] = 99
    /\ ip[3] \in 1 .. 254
    /\ ip[4] \in 1 .. 254

ControlPlaneIP == <<10, 99, 0, 1>>
=============================================================================
