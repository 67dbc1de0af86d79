---------------------------- MODULE Registration ----------------------------
(***************************************************************************)
(* How a provider joins: the handler of POST /providers/register, from the *)
(* token check to the answer, with the two commands of wgrelay.AddPeer and *)
(* the WireGuard peers they maintain, in the interface and in wg0.conf.    *)
(*                                                                         *)
(* Every statement to Postgres, every Redis command and every read or      *)
(* write of wg0 or of its file is a step of its own; handlers of different *)
(* machines, and of successive agents of one machine, interleave freely.   *)
(* A machine keeps its WireGuard keypair across runs of its agent (wg.go), *)
(* so a peer is known by its machine.                                      *)
(***************************************************************************)
EXTENDS Allocators

CONSTANTS
    Machines,       \* provider machines, each with its WireGuard key
    NoMachine,      \* the machine of a registration not made yet
    Tokens,         \* what agents may send as registration token
    MaxCalls,       \* bound: calls of POST /providers/register
    MaxRestarts,    \* bound: restarts of the control plane
    Faults          \* whether a store or a command may fail

ASSUME NoMachineAssumption == NoMachine \notin Machines
ASSUME CallsAssumption == MaxCalls \in Nat
ASSUME RestartsAssumption == MaxRestarts \in Nat
ASSUME FaultAssumption == Faults \in BOOLEAN

VARIABLES
    calls,      \* registrations begun
    stage,      \* stage[r]: how far the handler of registration r has come
    machine,    \* machine[r]: who asked
    token,      \* token[r]: with which token
    ip,         \* ip[r]: the address the counter gave r
    snapshot,   \* snapshot[r]: the peers that r's wg-quick save has read
    issued,     \* the tokens in Redis
    rows,       \* the registrations with a row in the providers table
    peers,      \* peers[m]: the allowed IP of m on the interface wg0
    conf,       \* conf[m]: the allowed IP of m in wg0.conf
    agent,      \* agent[m]: the agent process of m
    current,    \* current[m]: the registration that process made
    restarts,   \* restarts of the control plane so far
    disturbed   \* machines that lost their newest route (see RoutedWhenRunning)

callVars == <<calls, machine, token>>
allocVars == <<wgCounter, portCounter, ip>>
relayVars == <<peers, conf, snapshot, disturbed>>
agentVars == <<agent, current>>
vars == <<callVars, allocVars, relayVars, agentVars, stage, issued, rows, restarts>>

Calls == 1 .. MaxCalls
NoCall == 0
NoIP == <<>>
NoToken == ""
NobodyRouted == [m \in Machines |-> NoIP]

Stages == {"unused", "token", "ip", "port", "row", "set", "read", "write",
           "answer", "answered", "failed"}

Init ==
    /\ AllocatorsInit
    /\ calls = 0
    /\ stage = [r \in Calls |-> "unused"]
    /\ machine = [r \in Calls |-> NoMachine]
    /\ token = [r \in Calls |-> NoToken]
    /\ ip = [r \in Calls |-> NoIP]
    /\ snapshot = [r \in Calls |-> NobodyRouted]
    /\ issued = {}
    /\ rows = {}
    /\ peers = NobodyRouted
    /\ conf = NobodyRouted
    /\ agent = [m \in Machines |-> "off"]
    /\ current = [m \in Machines |-> NoCall]
    /\ restarts = 0
    /\ disturbed = {}

-----------------------------------------------------------------------------
(* The agent and the operator.                                              *)

\* dcp-cp token generate
GenerateToken(t) ==
    /\ t \notin issued \cup {NoToken}
    /\ issued' = issued \cup {t}
    /\ UNCHANGED <<callVars, allocVars, relayVars, agentVars, stage, rows, restarts>>

\* A new agent process registers first thing, whatever registered before it.
StartRegister(m, t) ==
    LET r == calls + 1 IN
    /\ agent[m] = "off"
    /\ r \in Calls
    /\ calls' = r
    /\ machine' = [machine EXCEPT ![r] = m]
    /\ token' = [token EXCEPT ![r] = t]
    /\ stage' = [stage EXCEPT ![r] = "token"]
    /\ agent' = [agent EXCEPT ![m] = "registering"]
    /\ current' = [current EXCEPT ![m] = r]
    /\ UNCHANGED <<allocVars, relayVars, issued, rows, restarts>>

\* The process ends, or its HTTP client times out and Run returns.
AgentEnds(m) ==
    /\ agent[m] # "off"
    /\ agent' = [agent EXCEPT ![m] = "off"]
    /\ current' = [current EXCEPT ![m] = NoCall]
    /\ UNCHANGED <<callVars, allocVars, relayVars, stage, issued, rows, restarts>>

\* Nobody waits for the answer of r any more.
ClientGone(r) == current[machine[r]] # r

\* The agent that waits for r, if there is one, is told that it failed.
HangUp(r) ==
    /\ agent' = [m \in Machines |-> IF current[m] = r THEN "off" ELSE agent[m]]
    /\ current' = [m \in Machines |-> IF current[m] = r THEN NoCall ELSE current[m]]

-----------------------------------------------------------------------------
(* Registry.Register                                                        *)

CheckToken(r) ==
    /\ stage[r] = "token"
    /\ token[r] \in issued \ {NoToken}
    /\ stage' = [stage EXCEPT ![r] = "ip"]
    /\ UNCHANGED <<callVars, allocVars, relayVars, agentVars, issued, rows, restarts>>

\* 401: the agent gives up.
RejectToken(r) ==
    /\ stage[r] = "token"
    /\ token[r] \notin issued \ {NoToken}
    /\ stage' = [stage EXCEPT ![r] = "failed"]
    /\ HangUp(r)
    /\ UNCHANGED <<callVars, allocVars, relayVars, issued, rows, restarts>>

\* Mutant: the counter is read and written back by two commands, and another
\* handler reads in between.
MutGetWGIPStale(r) ==
    /\ stage[r] = "ip"
    /\ ip' = [ip EXCEPT ![r] = WGAddress(wgCounter + 1)]
    /\ wgCounter' \in {wgCounter, wgCounter + 1}
    /\ stage' = [stage EXCEPT ![r] = "port"]
    /\ UNCHANGED <<callVars, portCounter, relayVars, agentVars, issued, rows, restarts>>

GetWGIP(r) ==
    /\ stage[r] = "ip"
    /\ AllocWGIP
    /\ ip' = [ip EXCEPT ![r] = WGAddress(wgCounter')]
    /\ stage' = [stage EXCEPT ![r] = "port"]
    /\ UNCHANGED <<callVars, portCounter, relayVars, agentVars, issued, rows, restarts>>

\* The port is one of VMPort; it goes into the row and the answer and matters
\* to the machine alone, which listens there on its own address.
GetPort(r) ==
    /\ stage[r] = "port"
    /\ AllocPort
    /\ stage' = [stage EXCEPT ![r] = "row"]
    /\ UNCHANGED <<callVars, wgCounter, ip, relayVars, agentVars, issued, rows, restarts>>

\* Mutant: the error of UpsertProvider is logged and the handler goes on.
MutInsertRowIgnored(r) ==
    /\ stage[r] = "row"
    /\ rows' \in {rows, rows \cup {r}}
    /\ stage' = [stage EXCEPT ![r] = "set"]
    /\ UNCHANGED <<callVars, allocVars, relayVars, agentVars, issued, restarts>>

\* Mutant: the answer does not wait for AddPeer (go wgrelay.AddPeer), which
\* then has not happened when the agent starts.
MutInsertRowAnswers(r) ==
    /\ stage[r] = "row"
    /\ rows' = rows \cup {r}
    /\ stage' = [stage EXCEPT ![r] = "answer"]
    /\ UNCHANGED <<callVars, allocVars, relayVars, agentVars, issued, restarts>>

\* UpsertProvider always inserts: the id is a new uuid.
InsertRow(r) ==
    /\ stage[r] = "row"
    /\ rows' = rows \cup {r}
    /\ stage' = [stage EXCEPT ![r] = "set"]
    /\ UNCHANGED <<callVars, allocVars, relayVars, agentVars, issued, restarts>>

\* Mutant: the address of a failed registration is given back.
MutRegisterFailsReturns(r) ==
    /\ stage[r] \in {"token", "ip", "port", "row"}
    /\ Faults \/ ClientGone(r)
    /\ wgCounter' = IF stage[r] \in {"port", "row"} THEN wgCounter - 1 ELSE wgCounter
    /\ rows' \in IF stage[r] = "row" THEN {rows, rows \cup {r}} ELSE {rows}
    /\ stage' = [stage EXCEPT ![r] = "failed"]
    /\ HangUp(r)
    /\ UNCHANGED <<callVars, portCounter, ip, relayVars, issued, restarts>>

\* A store fails, or the request is cancelled because its client is gone.  The
\* row may be there all the same: its INSERT was not acknowledged.
RegisterFails(r) ==
    /\ stage[r] \in {"token", "ip", "port", "row"}
    /\ Faults \/ ClientGone(r)
    /\ rows' \in IF stage[r] = "row" THEN {rows, rows \cup {r}} ELSE {rows}
    /\ stage' = [stage EXCEPT ![r] = "failed"]
    /\ HangUp(r)
    /\ UNCHANGED <<callVars, allocVars, relayVars, issued, restarts>>

-----------------------------------------------------------------------------
(* wgrelay.AddPeer: wg set, then wg-quick save, which reads the interface   *)
(* and replaces the file.  Neither heeds the request's context.             *)

\* A newer registration of the same machine has set its route already.
Overtaken(r) ==
    \E q \in Calls :
        /\ r < q
        /\ machine[q] = machine[r]
        /\ stage[q] \in {"read", "write", "answer", "answered"}

\* The key's allowed IPs become this one, which leaves any other key.
SetPeer(r) ==
    LET m == machine[r] IN
    /\ stage[r] = "set"
    /\ peers' = [k \in Machines |->
                    IF k = m THEN ip[r] ELSE IF peers[k] = ip[r] THEN NoIP ELSE peers[k]]
    /\ disturbed' = IF Overtaken(r) THEN disturbed \cup {m} ELSE disturbed \ {m}
    /\ stage' = [stage EXCEPT ![r] = "read"]
    /\ UNCHANGED <<callVars, allocVars, conf, snapshot, agentVars, issued, rows, restarts>>

ReadPeers(r) ==
    /\ stage[r] = "read"
    /\ snapshot' = [snapshot EXCEPT ![r] = peers]
    /\ stage' = [stage EXCEPT ![r] = "write"]
    /\ UNCHANGED <<callVars, allocVars, peers, conf, disturbed, agentVars, issued, rows, restarts>>

WriteConf(r) ==
    /\ stage[r] = "write"
    /\ conf' = snapshot[r]
    /\ snapshot' = [snapshot EXCEPT ![r] = NobodyRouted]
    /\ stage' = [stage EXCEPT ![r] = "answer"]
    /\ UNCHANGED <<callVars, allocVars, peers, disturbed, agentVars, issued, rows, restarts>>

\* A command fails: the handler logs it and answers as if nothing had happened.
AddPeerFails(r) ==
    /\ Faults
    /\ stage[r] \in {"set", "read", "write"}
    /\ disturbed' = IF stage[r] = "set" THEN disturbed \cup {machine[r]} ELSE disturbed
    /\ snapshot' = [snapshot EXCEPT ![r] = NobodyRouted]
    /\ stage' = [stage EXCEPT ![r] = "answer"]
    /\ UNCHANGED <<callVars, allocVars, peers, conf, agentVars, issued, rows, restarts>>

AnswerArrives(r) ==
    /\ stage[r] = "answer"
    /\ ~ ClientGone(r)
    /\ stage' = [stage EXCEPT ![r] = "answered"]
    /\ agent' = [agent EXCEPT ![machine[r]] = "running"]
    /\ UNCHANGED <<callVars, allocVars, relayVars, current, issued, rows, restarts>>

AnswerLost(r) ==
    /\ stage[r] = "answer"
    /\ Faults \/ ClientGone(r)
    /\ stage' = [stage EXCEPT ![r] = "answered"]
    /\ HangUp(r)
    /\ UNCHANGED <<callVars, allocVars, relayVars, issued, rows, restarts>>

\* The process, or its host, ends and is started again.  Serve finds wg0.conf
\* and syncs the interface with it; when that fails, only a log line says so
\* and the interface stays as it is.
ControlPlaneRestarts ==
    /\ restarts < MaxRestarts
    /\ restarts' = restarts + 1
    /\ stage' = [r \in Calls |->
                    IF stage[r] \in {"unused", "answered"} THEN stage[r] ELSE "failed"]
    /\ agent' = [m \in Machines |-> IF agent[m] = "registering" THEN "off" ELSE agent[m]]
    /\ current' = [m \in Machines |->
                      IF agent[m] = "registering" THEN NoCall ELSE current[m]]
    /\ peers' \in {peers, conf}
    /\ disturbed' = disturbed \cup {m \in Machines : peers'[m] # peers[m]}
    /\ snapshot' = [r \in Calls |-> NobodyRouted]
    /\ UNCHANGED <<callVars, allocVars, conf, issued, rows>>

-----------------------------------------------------------------------------
HandlerStep(r) ==
    \/ CheckToken(r) \/ RejectToken(r)
    \/ GetWGIP(r) \/ GetPort(r) \/ InsertRow(r) \/ RegisterFails(r)
    \/ SetPeer(r) \/ ReadPeers(r) \/ WriteConf(r) \/ AddPeerFails(r)
    \/ AnswerArrives(r) \/ AnswerLost(r)

Next ==
    \/ \E t \in Tokens : GenerateToken(t)
    \/ \E m \in Machines, t \in Tokens : StartRegister(m, t)
    \/ \E m \in Machines : AgentEnds(m)
    \/ \E r \in Calls : HandlerStep(r)
    \/ ControlPlaneRestarts

Spec == Init /\ [][Next]_vars

-----------------------------------------------------------------------------
(* Properties.                                                              *)

IPs == ({10} \X {99} \X (Nat \ {0}) \X (1 .. 254)) \cup {NoIP}
Routes == [Machines -> IPs]

\* Types; in particular every address is a host address of its /24.
TypeOK ==
    /\ calls \in 0 .. MaxCalls
    /\ wgCounter \in Nat /\ portCounter \in Nat
    /\ stage \in [Calls -> Stages]
    /\ machine \in [Calls -> Machines \cup {NoMachine}]
    /\ \A r \in Calls : stage[r] # "unused" => machine[r] \in Machines
    /\ token \in [Calls -> Tokens \cup {NoToken}]
    /\ ip \in [Calls -> IPs]
    /\ issued \subseteq Tokens
    /\ rows \subseteq Calls
    /\ peers \in Routes /\ conf \in Routes
    /\ snapshot \in [Calls -> Routes]
    /\ agent \in [Machines -> {"off", "registering", "running"}]
    /\ current \in [Machines -> Calls \cup {NoCall}]
    /\ restarts \in 0 .. MaxRestarts
    /\ disturbed \subseteq Machines

\* No two rows of the providers table have the same WireGuard address, however
\* the handlers interleave, fail and restart.
UniqueAddresses ==
    \A r, q \in rows : r # q => ip[r] # ip[q]

Backed(routes) ==
    \A m \in Machines :
        routes[m] # NoIP => \E r \in rows : machine[r] = m /\ ip[r] = routes[m]

\* The row comes first: nothing is routed, nothing saved, and no agent runs,
\* without a row of that machine with that address.  An agent that ran without
\* one would never know: UpdateHeartbeat and BRPOP accept any id.
RowsFirst ==
    /\ Backed(peers)
    /\ Backed(conf)
    /\ \A m \in Machines : agent[m] = "running" =>
           current[m] \in rows /\ machine[current[m]] = m

\* A running agent is routed at the address it was told, unless its AddPeer
\* failed, an older registration of its machine set the route after it, or a
\* restart of the control plane synced the interface with an older file.
RoutedWhenRunning ==
    \A m \in Machines :
        agent[m] = "running" /\ m \notin disturbed => peers[m] = ip[current[m]]

\* "Persist to config" (relay.go:54): when no AddPeer is under way, and none
\* has failed or was cut off, wg0.conf holds the peers of the interface.
PeersPersisted ==
    (\A r \in Calls : stage[r] \notin {"read", "write"}) => conf = peers

\* Registration keeps the promise of AddressBook: a row is a grant, the peers
\* of the interface are the routes, and an agent runs at the address it was
\* told.
Book == INSTANCE AddressBook WITH
    grants <- {<<machine[r], ip[r]>> : r \in rows},
    route <- peers,
    holder <- [m \in Machines |-> IF agent[m] = "running" THEN ip[current[m]] ELSE NoIP]

ImplementsBook == Book!Spec
=============================================================================
