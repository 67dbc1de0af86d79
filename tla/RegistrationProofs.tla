------------------------- MODULE RegistrationProofs -------------------------
(***************************************************************************)
(* Theorems about Registration, for every set of machines and tokens and   *)
(* any number of registrations and restarts.                               *)
(*                                                                         *)
(* The inductive invariant adds to the properties what the handlers rely   *)
(* on: which of them have an address and a row, that addresses in the      *)
(* hands of handlers differ too, that snapshots are backed by rows as the  *)
(* interface is, and that an agent waits for its machine's newest          *)
(* registration.                                                           *)
(***************************************************************************)
EXTENDS Registration, TLAPS

-----------------------------------------------------------------------------
(* What the arithmetic of AllocWGIP and AllocPort guarantees.               *)

\* Different values of the counter give different addresses, however often
\* agents re-register: an address is never given out twice.
THEOREM AddressesDiffer ==
    ASSUME NEW m \in Nat \ {0}, NEW n \in Nat \ {0}, m # n
    PROVE  WGAddress(m) # WGAddress(n)
<1>1. SUFFICES ASSUME WGAddress(m) = WGAddress(n) PROVE FALSE
  OBVIOUS
<1>2. ((m - 1) \div 254) + 1 = ((n - 1) \div 254) + 1 /\ ((m - 1) % 254) + 1 = ((n - 1) % 254) + 1
  <2>1. WGAddress(m)[3] = WGAddress(n)[3] /\ WGAddress(m)[4] = WGAddress(n)[4]
    BY <1>1
  <2> QED BY <2>1 DEF WGAddress
<1>3. (m - 1) \div 254 = (n - 1) \div 254 /\ (m - 1) % 254 = (n - 1) % 254
  BY <1>2
<1> QED BY <1>3

\* The comment's range is kept exactly as long as there were at most 254 * 254
\* registrations: the next one gets 10.99.255.1, and the 64771st an address
\* that is none.
THEOREM AddressRange ==
    ASSUME NEW n \in Nat \ {0}
    PROVE  Documented(WGAddress(n)) <=> n <= 254 * 254
BY DEF Documented, WGAddress

\* No provider is ever given the control plane's own address.
THEOREM AddressNotControlPlane ==
    ASSUME NEW n \in Nat \ {0}
    PROVE  WGAddress(n) # ControlPlaneIP
<1>1. WGAddress(n)[3] # ControlPlaneIP[3]
  BY DEF WGAddress, ControlPlaneIP
<1> QED BY <1>1

\* Ports repeat after 10000 allocations, and not before.
THEOREM PortsDiffer ==
    ASSUME NEW m \in Nat, NEW n \in Nat, m < n
    PROVE  /\ n < m + 10000 => VMPort(m) # VMPort(n)
           /\ n = m + 10000 => VMPort(m) = VMPort(n)
           /\ VMPort(n) \in VMPorts
BY DEF VMPort, VMPorts

-----------------------------------------------------------------------------
(* The inductive invariant.                                                 *)

Routed == {"read", "write", "answer", "answered"}
Recorded == {"set"} \cup Routed

\* Registrations are numbered in the order in which they began.
CallInv ==
    \A r \in Calls :
        /\ r <= calls <=> stage[r] # "unused"
        /\ r <= calls <=> machine[r] \in Machines

\* Addresses come from the counter, and no two registrations share one.
AddressInv ==
    /\ \A r \in Calls : ip[r] = NoIP \/ \E n \in 1 .. wgCounter : ip[r] = WGAddress(n)
    /\ \A r \in Calls : stage[r] \in {"unused", "token", "ip"} => ip[r] = NoIP
    /\ \A r \in Calls : stage[r] \in {"port", "row"} \cup Recorded => ip[r] # NoIP
    /\ \A r, q \in Calls : r # q => ip[r] # ip[q] \/ ip[r] = NoIP

RowInv ==
    /\ \A r \in Calls : stage[r] \in Recorded => r \in rows
    /\ \A r \in rows : ip[r] # NoIP /\ stage[r] \in Recorded \cup {"failed"}

BackedInv ==
    /\ Backed(peers)
    /\ Backed(conf)
    /\ \A r \in Calls : Backed(snapshot[r])

\* An agent knows one registration: its machine's newest.
AgentInv ==
    \A m \in Machines :
        /\ agent[m] = "off" <=> current[m] = NoCall
        /\ current[m] # NoCall => machine[current[m]] = m
        /\ current[m] # NoCall => \A r \in Calls : machine[r] = m => r <= current[m]
        /\ agent[m] = "running" => stage[current[m]] = "answered"

RouteInv ==
    \A m \in Machines :
        current[m] # NoCall /\ m \notin disturbed =>
            (stage[current[m]] \in Routed => peers[m] = ip[current[m]])

RegInv ==
    TypeOK /\ CallInv /\ AddressInv /\ RowInv /\ BackedInv /\ AgentInv /\ RouteInv

-----------------------------------------------------------------------------
(* Types.                                                                   *)

\* AllocWGIP returns an address, never the absent one.
LEMMA AddressType ==
    ASSUME NEW n \in Nat \ {0}
    PROVE  WGAddress(n) \in IPs /\ WGAddress(n) # NoIP
BY DEF WGAddress, IPs, NoIP

\* Every step of Registration keeps the types.
LEMMA TypeInductive == TypeOK /\ CallInv /\ [Next]_vars => TypeOK'
<1> SUFFICES ASSUME TypeOK, CallInv, [Next]_vars PROVE TypeOK'
    OBVIOUS
<1> USE CallsAssumption, RestartsAssumption
    DEF TypeOK, Stages, callVars, allocVars, relayVars, agentVars
<1>0. NoIP \in IPs /\ NobodyRouted \in Routes
  BY DEF IPs, Routes, NobodyRouted
<1>1. ASSUME NEW t \in Tokens, GenerateToken(t) PROVE TypeOK'
  BY <1>1 DEF GenerateToken
<1>2. ASSUME NEW m \in Machines, NEW t \in Tokens, StartRegister(m, t) PROVE TypeOK'
  <2>1. calls + 1 \in Calls /\ calls' \in 0 .. MaxCalls
    BY <1>2 DEF StartRegister, Calls
  <2>2. current' \in [Machines -> Calls \cup {NoCall}] /\ agent' \in [Machines -> {"off", "registering", "running"}]
    BY <1>2, <2>1 DEF StartRegister
  <2>3. /\ machine' \in [Calls -> Machines \cup {NoMachine}]
        /\ token' \in [Calls -> Tokens \cup {NoToken}]
        /\ stage' \in [Calls -> Stages]
        /\ \A r \in Calls : stage'[r] # "unused" => machine'[r] \in Machines
    BY <1>2, <2>1 DEF StartRegister
  <2> QED BY <1>2, <2>1, <2>2, <2>3 DEF StartRegister
<1>3. ASSUME NEW m \in Machines, AgentEnds(m) PROVE TypeOK'
  BY <1>3 DEF AgentEnds
<1>4. ASSUME NEW r \in Calls, HandlerStep(r) PROVE TypeOK'
  <2>1. CASE CheckToken(r) BY <2>1 DEF CheckToken
  <2>2. CASE RejectToken(r) BY <2>2 DEF RejectToken, HangUp
  <2>3. CASE GetWGIP(r)
    <3>1. wgCounter' \in Nat \ {0} /\ ip' = [ip EXCEPT ![r] = WGAddress(wgCounter')]
      BY <2>3 DEF GetWGIP, AllocWGIP
    <3>2. WGAddress(wgCounter') \in IPs
      BY <3>1, AddressType
    <3> QED BY <2>3, <3>1, <3>2 DEF GetWGIP
  <2>4. CASE GetPort(r) BY <2>4 DEF GetPort, AllocPort
  <2>5. CASE InsertRow(r) BY <2>5 DEF InsertRow
  <2>6. CASE RegisterFails(r) BY <2>6 DEF RegisterFails, HangUp
  <2>7. CASE SetPeer(r)
    <3>1. machine[r] \in Machines /\ ip[r] \in IPs
      BY <2>7 DEF SetPeer
    <3>2. peers' \in Routes
      BY <2>7, <3>1, <1>0 DEF SetPeer, Routes
    <3> QED BY <2>7, <3>1, <3>2 DEF SetPeer
  <2>8. CASE ReadPeers(r) BY <2>8 DEF ReadPeers
  <2>9. CASE WriteConf(r) BY <2>9, <1>0 DEF WriteConf
  <2>10. CASE AddPeerFails(r)
    <3>1. machine[r] \in Machines
      BY <2>10 DEF AddPeerFails
    <3> QED BY <2>10, <3>1, <1>0 DEF AddPeerFails
  <2>11. CASE AnswerArrives(r) BY <2>11 DEF AnswerArrives
  <2>12. CASE AnswerLost(r) BY <2>12 DEF AnswerLost, HangUp
  <2> HIDE DEF TypeOK
  <2> QED BY <1>4, <2>1, <2>2, <2>3, <2>4, <2>5, <2>6, <2>7, <2>8, <2>9, <2>10, <2>11,
             <2>12 DEF HandlerStep
<1>5. CASE ControlPlaneRestarts
  <2>1. peers' \in Routes /\ snapshot' \in [Calls -> Routes]
    BY <1>5, <1>0 DEF ControlPlaneRestarts
  <2>2. /\ stage' \in [Calls -> Stages]
        /\ agent' \in [Machines -> {"off", "registering", "running"}]
        /\ current' \in [Machines -> Calls \cup {NoCall}]
        /\ \A r \in Calls : stage'[r] # "unused" => machine[r] \in Machines
    BY <1>5 DEF ControlPlaneRestarts
  <2> QED BY <1>5, <2>1, <2>2 DEF ControlPlaneRestarts
<1>6. CASE UNCHANGED vars BY <1>6 DEF vars
<1> HIDE DEF TypeOK
<1> QED BY <1>1, <1>2, <1>3, <1>4, <1>5, <1>6 DEF Next

-----------------------------------------------------------------------------
(* The parts of the invariant, one lemma each.                              *)

\* Registrations are numbered as they begin, and keep their machine.
LEMMA CallStep == TypeOK /\ CallInv /\ [Next]_vars => CallInv'
<1> SUFFICES ASSUME TypeOK, CallInv, [Next]_vars PROVE CallInv'
    OBVIOUS
<1> USE CallsAssumption, NoMachineAssumption
    DEF TypeOK, callVars, allocVars, relayVars, agentVars
<1>1. ASSUME NEW t \in Tokens, GenerateToken(t) PROVE CallInv'
  BY <1>1 DEF GenerateToken, CallInv, Calls
<1>2. ASSUME NEW m \in Machines, NEW t \in Tokens, StartRegister(m, t) PROVE CallInv'
  BY <1>2 DEF StartRegister, CallInv, Calls
<1>3. ASSUME NEW m \in Machines, AgentEnds(m) PROVE CallInv'
  BY <1>3 DEF AgentEnds, CallInv, Calls
<1>4. ASSUME NEW r \in Calls, HandlerStep(r) PROVE CallInv'
  <2>1. CASE CheckToken(r)
    BY <2>1 DEF CheckToken, CallInv, Calls
  <2>2. CASE RejectToken(r)
    BY <2>2 DEF RejectToken, HangUp, CallInv, Calls
  <2>3. CASE GetWGIP(r)
    BY <2>3 DEF GetWGIP, AllocWGIP, CallInv, Calls
  <2>4. CASE GetPort(r)
    BY <2>4 DEF GetPort, AllocPort, CallInv, Calls
  <2>5. CASE InsertRow(r)
    BY <2>5 DEF InsertRow, CallInv, Calls
  <2>6. CASE RegisterFails(r)
    BY <2>6 DEF RegisterFails, HangUp, CallInv, Calls
  <2>7. CASE SetPeer(r)
    BY <2>7 DEF SetPeer, CallInv, Calls
  <2>8. CASE ReadPeers(r)
    BY <2>8 DEF ReadPeers, CallInv, Calls
  <2>9. CASE WriteConf(r)
    BY <2>9 DEF WriteConf, CallInv, Calls
  <2>10. CASE AddPeerFails(r)
    BY <2>10 DEF AddPeerFails, CallInv, Calls
  <2>11. CASE AnswerArrives(r)
    BY <2>11 DEF AnswerArrives, ClientGone, CallInv, Calls
  <2>12. CASE AnswerLost(r)
    BY <2>12 DEF AnswerLost, HangUp, CallInv, Calls
  <2> QED BY <1>4, <2>1, <2>2, <2>3, <2>4, <2>5, <2>6,
             <2>7, <2>8, <2>9, <2>10, <2>11, <2>12 DEF HandlerStep
<1>5. CASE ControlPlaneRestarts
  BY <1>5 DEF ControlPlaneRestarts, CallInv, Calls
<1>6. CASE UNCHANGED vars
  BY <1>6 DEF vars, CallInv, Calls
<1> QED BY <1>1, <1>2, <1>3, <1>4, <1>5, <1>6 DEF Next

\* A handler goes on to AddPeer only when its row is there.
LEMMA RowStep == TypeOK /\ CallInv /\ AddressInv /\ RowInv /\ [Next]_vars => RowInv'
<1> SUFFICES ASSUME TypeOK, CallInv, AddressInv, RowInv, [Next]_vars PROVE RowInv'
    OBVIOUS
<1> USE CallsAssumption DEF TypeOK, callVars, allocVars, relayVars, agentVars
<1>1. ASSUME NEW t \in Tokens, GenerateToken(t) PROVE RowInv'
  BY <1>1 DEF GenerateToken, CallInv, RowInv, AddressInv, Recorded, Routed
<1>2. ASSUME NEW m \in Machines, NEW t \in Tokens, StartRegister(m, t) PROVE RowInv'
  BY <1>2 DEF StartRegister, CallInv, RowInv, AddressInv, Recorded, Routed
<1>3. ASSUME NEW m \in Machines, AgentEnds(m) PROVE RowInv'
  BY <1>3 DEF AgentEnds, CallInv, RowInv, AddressInv, Recorded, Routed
<1>4. ASSUME NEW r \in Calls, HandlerStep(r) PROVE RowInv'
  <2>1. CASE CheckToken(r)
    BY <2>1 DEF CheckToken, CallInv, RowInv, AddressInv, Recorded, Routed
  <2>2. CASE RejectToken(r)
    BY <2>2 DEF RejectToken, HangUp, CallInv, RowInv, AddressInv, Recorded, Routed
  <2>3. CASE GetWGIP(r)
    BY <2>3 DEF GetWGIP, AllocWGIP, CallInv, RowInv, AddressInv, Recorded, Routed
  <2>4. CASE GetPort(r)
    BY <2>4 DEF GetPort, AllocPort, CallInv, RowInv, AddressInv, Recorded, Routed
  <2>5. CASE InsertRow(r)
    BY <2>5 DEF InsertRow, CallInv, RowInv, AddressInv, Recorded, Routed
  <2>6. CASE RegisterFails(r)
    BY <2>6 DEF RegisterFails, HangUp, CallInv, RowInv, AddressInv, Recorded, Routed
  <2>7. CASE SetPeer(r)
    BY <2>7 DEF SetPeer, CallInv, RowInv, AddressInv, Recorded, Routed
  <2>8. CASE ReadPeers(r)
    BY <2>8 DEF ReadPeers, CallInv, RowInv, AddressInv, Recorded, Routed
  <2>9. CASE WriteConf(r)
    BY <2>9 DEF WriteConf, CallInv, RowInv, AddressInv, Recorded, Routed
  <2>10. CASE AddPeerFails(r)
    BY <2>10 DEF AddPeerFails, CallInv, RowInv, AddressInv, Recorded, Routed
  <2>11. CASE AnswerArrives(r)
    BY <2>11 DEF AnswerArrives, ClientGone, CallInv, RowInv, AddressInv, Recorded, Routed
  <2>12. CASE AnswerLost(r)
    BY <2>12 DEF AnswerLost, HangUp, CallInv, RowInv, AddressInv, Recorded, Routed
  <2> QED BY <1>4, <2>1, <2>2, <2>3, <2>4, <2>5, <2>6,
             <2>7, <2>8, <2>9, <2>10, <2>11, <2>12 DEF HandlerStep
<1>5. CASE ControlPlaneRestarts
  BY <1>5 DEF ControlPlaneRestarts, CallInv, RowInv, AddressInv, Recorded, Routed
<1>6. CASE UNCHANGED vars
  BY <1>6 DEF vars, CallInv, RowInv, AddressInv, Recorded, Routed
<1> QED BY <1>1, <1>2, <1>3, <1>4, <1>5, <1>6 DEF Next

\* AllocWGIP gives r an address that no registration has or had.
LEMMA AddressStep == TypeOK /\ CallInv /\ AddressInv /\ [Next]_vars => AddressInv'
<1> SUFFICES ASSUME TypeOK, CallInv, AddressInv, [Next]_vars PROVE AddressInv'
    OBVIOUS
<1> USE CallsAssumption DEF TypeOK, callVars, allocVars, relayVars, agentVars
<1>1. ASSUME NEW t \in Tokens, GenerateToken(t) PROVE AddressInv'
  BY <1>1 DEF GenerateToken, CallInv, AddressInv, Recorded, Routed
<1>2. ASSUME NEW m \in Machines, NEW t \in Tokens, StartRegister(m, t) PROVE AddressInv'
  BY <1>2 DEF StartRegister, CallInv, AddressInv, Recorded, Routed
<1>3. ASSUME NEW m \in Machines, AgentEnds(m) PROVE AddressInv'
  BY <1>3 DEF AgentEnds, CallInv, AddressInv, Recorded, Routed
<1>4. ASSUME NEW r \in Calls, HandlerStep(r) PROVE AddressInv'
  <2>1. CASE CheckToken(r)
    BY <2>1 DEF CheckToken, CallInv, AddressInv, Recorded, Routed
  <2>2. CASE RejectToken(r)
    BY <2>2 DEF RejectToken, HangUp, CallInv, AddressInv, Recorded, Routed
  <2>3. CASE GetWGIP(r)
    <3>1. PICK n \in Nat \ {0} : wgCounter' = n /\ n = wgCounter + 1
      BY <2>3 DEF GetWGIP, AllocWGIP
    <3>2. /\ ip' = [ip EXCEPT ![r] = WGAddress(n)]
          /\ stage' = [stage EXCEPT ![r] = "port"]
      BY <2>3, <3>1 DEF GetWGIP
    <3>3. WGAddress(n) # NoIP
      BY AddressType
    <3>4. \A q \in Calls : ip[q] # WGAddress(n)
      <4>1. SUFFICES ASSUME NEW q \in Calls, NEW k \in 1 .. wgCounter, ip[q] = WGAddress(k)
                     PROVE  ip[q] # WGAddress(n)
        BY <3>3 DEF AddressInv
      <4>2. k \in Nat \ {0} /\ k # n
        BY <3>1
      <4> QED BY <4>1, <4>2, AddressesDiffer
    <3>5. \A q \in Calls : ip'[q] = NoIP \/ \E k \in 1 .. n : ip'[q] = WGAddress(k)
      <4> SUFFICES ASSUME NEW q \in Calls
                   PROVE  ip'[q] = NoIP \/ \E k \in 1 .. n : ip'[q] = WGAddress(k)
        OBVIOUS
      <4>1. CASE q = r
        BY <3>2, <4>1
      <4>2. CASE q # r
        <5>1. ip'[q] = ip[q]
          BY <3>2, <4>2
        <5>2. ip[q] = NoIP \/ \E k \in 1 .. wgCounter : ip[q] = WGAddress(k)
          BY DEF AddressInv
        <5>3. \A k \in 1 .. wgCounter : k \in 1 .. n
          BY <3>1
        <5> QED BY <5>1, <5>2, <5>3
      <4> QED BY <4>1, <4>2
    <3>6. \A q \in Calls :
             /\ stage'[q] \in {"unused", "token", "ip"} => ip'[q] = NoIP
             /\ stage'[q] \in {"port", "row"} \cup Recorded => ip'[q] # NoIP
      BY <3>2, <3>3 DEF AddressInv
    <3>7. \A q, k \in Calls : q # k => ip'[q] # ip'[k] \/ ip'[q] = NoIP
      BY <3>2, <3>4 DEF AddressInv
    <3> QED BY <3>1, <3>5, <3>6, <3>7 DEF AddressInv
  <2>4. CASE GetPort(r)
    BY <2>4 DEF GetPort, AllocPort, CallInv, AddressInv, Recorded, Routed
  <2>5. CASE InsertRow(r)
    BY <2>5 DEF InsertRow, CallInv, AddressInv, Recorded, Routed
  <2>6. CASE RegisterFails(r)
    BY <2>6 DEF RegisterFails, HangUp, CallInv, AddressInv, Recorded, Routed
  <2>7. CASE SetPeer(r)
    BY <2>7 DEF SetPeer, CallInv, AddressInv, Recorded, Routed
  <2>8. CASE ReadPeers(r)
    BY <2>8 DEF ReadPeers, CallInv, AddressInv, Recorded, Routed
  <2>9. CASE WriteConf(r)
    BY <2>9 DEF WriteConf, CallInv, AddressInv, Recorded, Routed
  <2>10. CASE AddPeerFails(r)
    BY <2>10 DEF AddPeerFails, CallInv, AddressInv, Recorded, Routed
  <2>11. CASE AnswerArrives(r)
    BY <2>11 DEF AnswerArrives, ClientGone, CallInv, AddressInv, Recorded, Routed
  <2>12. CASE AnswerLost(r)
    BY <2>12 DEF AnswerLost, HangUp, CallInv, AddressInv, Recorded, Routed
  <2> QED BY <1>4, <2>1, <2>2, <2>3, <2>4, <2>5, <2>6,
             <2>7, <2>8, <2>9, <2>10, <2>11, <2>12 DEF HandlerStep
<1>5. CASE ControlPlaneRestarts
  BY <1>5 DEF ControlPlaneRestarts, CallInv, AddressInv, Recorded, Routed
<1>6. CASE UNCHANGED vars
  BY <1>6 DEF vars, CallInv, AddressInv, Recorded, Routed
<1> QED BY <1>1, <1>2, <1>3, <1>4, <1>5, <1>6 DEF Next

\* Routes, in the interface, in the file and on the way to it, have rows.
LEMMA BackedStep == TypeOK /\ CallInv /\ AddressInv /\ RowInv /\ BackedInv /\ [Next]_vars => BackedInv'
<1> SUFFICES ASSUME TypeOK, CallInv, AddressInv, RowInv, BackedInv, [Next]_vars PROVE BackedInv'
    OBVIOUS
<1> USE CallsAssumption DEF TypeOK, callVars, allocVars, relayVars, agentVars
<1>1. ASSUME NEW t \in Tokens, GenerateToken(t) PROVE BackedInv'
  BY <1>1 DEF GenerateToken, CallInv, RowInv, BackedInv, Backed, NobodyRouted, Recorded, Routed
<1>2. ASSUME NEW m \in Machines, NEW t \in Tokens, StartRegister(m, t) PROVE BackedInv'
  BY <1>2 DEF StartRegister, CallInv, RowInv, BackedInv, Backed, NobodyRouted, Recorded, Routed
<1>3. ASSUME NEW m \in Machines, AgentEnds(m) PROVE BackedInv'
  BY <1>3 DEF AgentEnds, CallInv, RowInv, BackedInv, Backed, NobodyRouted, Recorded, Routed
<1>4. ASSUME NEW r \in Calls, HandlerStep(r) PROVE BackedInv'
  <2>1. CASE CheckToken(r)
    BY <2>1 DEF CheckToken, CallInv, RowInv, BackedInv, Backed, NobodyRouted, Recorded, Routed
  <2>2. CASE RejectToken(r)
    BY <2>2 DEF RejectToken, HangUp, CallInv, RowInv, BackedInv, Backed, NobodyRouted, Recorded, Routed
  <2>3. CASE GetWGIP(r)
    BY <2>3 DEF GetWGIP, AllocWGIP, CallInv, RowInv, BackedInv, Backed, NobodyRouted, Recorded, Routed
  <2>4. CASE GetPort(r)
    BY <2>4 DEF GetPort, AllocPort, CallInv, RowInv, BackedInv, Backed, NobodyRouted, Recorded, Routed
  <2>5. CASE InsertRow(r)
    BY <2>5 DEF InsertRow, CallInv, RowInv, BackedInv, Backed, NobodyRouted, Recorded, Routed
  <2>6. CASE RegisterFails(r)
    BY <2>6 DEF RegisterFails, HangUp, CallInv, RowInv, BackedInv, Backed, NobodyRouted, Recorded, Routed
  <2>7. CASE SetPeer(r)
    BY <2>7 DEF SetPeer, CallInv, RowInv, BackedInv, Backed, NobodyRouted, Recorded, Routed
  <2>8. CASE ReadPeers(r)
    BY <2>8 DEF ReadPeers, CallInv, RowInv, BackedInv, Backed, NobodyRouted, Recorded, Routed
  <2>9. CASE WriteConf(r)
    BY <2>9 DEF WriteConf, CallInv, RowInv, BackedInv, Backed, NobodyRouted, Recorded, Routed
  <2>10. CASE AddPeerFails(r)
    BY <2>10 DEF AddPeerFails, CallInv, RowInv, BackedInv, Backed, NobodyRouted, Recorded, Routed
  <2>11. CASE AnswerArrives(r)
    BY <2>11 DEF AnswerArrives, ClientGone, CallInv, RowInv, BackedInv, Backed, NobodyRouted, Recorded, Routed
  <2>12. CASE AnswerLost(r)
    BY <2>12 DEF AnswerLost, HangUp, CallInv, RowInv, BackedInv, Backed, NobodyRouted, Recorded, Routed
  <2> QED BY <1>4, <2>1, <2>2, <2>3, <2>4, <2>5, <2>6,
             <2>7, <2>8, <2>9, <2>10, <2>11, <2>12 DEF HandlerStep
<1>5. CASE ControlPlaneRestarts
  BY <1>5 DEF ControlPlaneRestarts, CallInv, RowInv, BackedInv, Backed, NobodyRouted, Recorded, Routed
<1>6. CASE UNCHANGED vars
  BY <1>6 DEF vars, CallInv, RowInv, BackedInv, Backed, NobodyRouted, Recorded, Routed
<1> QED BY <1>1, <1>2, <1>3, <1>4, <1>5, <1>6 DEF Next

\* An agent waits for, and runs on, its machine's newest registration.
LEMMA AgentStep == TypeOK /\ CallInv /\ AgentInv /\ [Next]_vars => AgentInv'
<1> SUFFICES ASSUME TypeOK, CallInv, AgentInv, [Next]_vars PROVE AgentInv'
    OBVIOUS
<1> USE CallsAssumption DEF TypeOK, callVars, allocVars, relayVars, agentVars
<1>1. ASSUME NEW t \in Tokens, GenerateToken(t) PROVE AgentInv'
  BY <1>1 DEF GenerateToken, CallInv, AgentInv, Calls, NoCall
<1>2. ASSUME NEW m \in Machines, NEW t \in Tokens, StartRegister(m, t) PROVE AgentInv'
  BY <1>2 DEF StartRegister, CallInv, AgentInv, Calls, NoCall
<1>3. ASSUME NEW m \in Machines, AgentEnds(m) PROVE AgentInv'
  BY <1>3 DEF AgentEnds, CallInv, AgentInv, Calls, NoCall
<1>4. ASSUME NEW r \in Calls, HandlerStep(r) PROVE AgentInv'
  <2>1. CASE CheckToken(r)
    BY <2>1 DEF CheckToken, CallInv, AgentInv, Calls, NoCall
  <2>2. CASE RejectToken(r)
    BY <2>2 DEF RejectToken, HangUp, CallInv, AgentInv, Calls, NoCall
  <2>3. CASE GetWGIP(r)
    BY <2>3 DEF GetWGIP, AllocWGIP, CallInv, AgentInv, Calls, NoCall
  <2>4. CASE GetPort(r)
    BY <2>4 DEF GetPort, AllocPort, CallInv, AgentInv, Calls, NoCall
  <2>5. CASE InsertRow(r)
    BY <2>5 DEF InsertRow, CallInv, AgentInv, Calls, NoCall
  <2>6. CASE RegisterFails(r)
    BY <2>6 DEF RegisterFails, HangUp, CallInv, AgentInv, Calls, NoCall
  <2>7. CASE SetPeer(r)
    BY <2>7 DEF SetPeer, CallInv, AgentInv, Calls, NoCall
  <2>8. CASE ReadPeers(r)
    BY <2>8 DEF ReadPeers, CallInv, AgentInv, Calls, NoCall
  <2>9. CASE WriteConf(r)
    BY <2>9 DEF WriteConf, CallInv, AgentInv, Calls, NoCall
  <2>10. CASE AddPeerFails(r)
    BY <2>10 DEF AddPeerFails, CallInv, AgentInv, Calls, NoCall
  <2>11. CASE AnswerArrives(r)
    BY <2>11 DEF AnswerArrives, ClientGone, CallInv, AgentInv, Calls, NoCall
  <2>12. CASE AnswerLost(r)
    BY <2>12 DEF AnswerLost, HangUp, CallInv, AgentInv, Calls, NoCall
  <2> QED BY <1>4, <2>1, <2>2, <2>3, <2>4, <2>5, <2>6,
             <2>7, <2>8, <2>9, <2>10, <2>11, <2>12 DEF HandlerStep
<1>5. CASE ControlPlaneRestarts
  BY <1>5 DEF ControlPlaneRestarts, CallInv, AgentInv, Calls, NoCall
<1>6. CASE UNCHANGED vars
  BY <1>6 DEF vars, CallInv, AgentInv, Calls, NoCall
<1> QED BY <1>1, <1>2, <1>3, <1>4, <1>5, <1>6 DEF Next

\* Only what disturbed records changes the route of a newest registration.
LEMMA RouteStep == TypeOK /\ CallInv /\ AddressInv /\ AgentInv /\ RouteInv /\ [Next]_vars => RouteInv'
<1> SUFFICES ASSUME TypeOK, CallInv, AddressInv, AgentInv, RouteInv, [Next]_vars PROVE RouteInv'
    OBVIOUS
<1> USE CallsAssumption DEF TypeOK, callVars, allocVars, relayVars, agentVars
<1>1. ASSUME NEW t \in Tokens, GenerateToken(t) PROVE RouteInv'
  BY <1>1 DEF GenerateToken, CallInv, AgentInv, RouteInv, NoCall, Routed
<1>2. ASSUME NEW m \in Machines, NEW t \in Tokens, StartRegister(m, t) PROVE RouteInv'
  BY <1>2 DEF StartRegister, CallInv, AgentInv, RouteInv, NoCall, Routed
<1>3. ASSUME NEW m \in Machines, AgentEnds(m) PROVE RouteInv'
  BY <1>3 DEF AgentEnds, CallInv, AgentInv, RouteInv, NoCall, Routed
<1>4. ASSUME NEW r \in Calls, HandlerStep(r) PROVE RouteInv'
  <2>1. CASE CheckToken(r)
    BY <2>1 DEF CheckToken, CallInv, AgentInv, RouteInv, NoCall, Routed
  <2>2. CASE RejectToken(r)
    BY <2>2 DEF RejectToken, HangUp, CallInv, AgentInv, RouteInv, NoCall, Routed
  <2>3. CASE GetWGIP(r)
    BY <2>3 DEF GetWGIP, AllocWGIP, CallInv, AgentInv, RouteInv, NoCall, Routed
  <2>4. CASE GetPort(r)
    BY <2>4 DEF GetPort, AllocPort, CallInv, AgentInv, RouteInv, NoCall, Routed
  <2>5. CASE InsertRow(r)
    BY <2>5 DEF InsertRow, CallInv, AgentInv, RouteInv, NoCall, Routed
  <2>6. CASE RegisterFails(r)
    BY <2>6 DEF RegisterFails, HangUp, CallInv, AgentInv, RouteInv, NoCall, Routed
  <2>7. CASE SetPeer(r)
    <3> SUFFICES ASSUME NEW m \in Machines, current[m] # NoCall, m \notin disturbed',
                        stage'[current[m]] \in Routed
                 PROVE  peers'[m] = ip[current[m]]
      BY <2>7 DEF SetPeer, RouteInv
    <3>1. /\ stage[r] = "set"
          /\ stage' = [stage EXCEPT ![r] = "read"]
          /\ peers'[m] = IF m = machine[r] THEN ip[r]
                         ELSE IF peers[m] = ip[r] THEN NoIP ELSE peers[m]
          /\ disturbed' = IF Overtaken(r) THEN disturbed \cup {machine[r]}
                                          ELSE disturbed \ {machine[r]}
      BY <2>7 DEF SetPeer
    <3>2. current[m] \in Calls /\ machine[current[m]] = m
      BY DEF AgentInv
    <3>3. CASE current[m] = r
      BY <3>1, <3>2, <3>3
    <3>4. CASE current[m] # r /\ m = machine[r]
      <4>1. stage[current[m]] \in Routed
        BY <3>1, <3>2, <3>4
      <4>2. r < current[m]
        BY <3>2, <3>4 DEF AgentInv, Calls
      <4>3. Overtaken(r)
        BY <3>2, <3>4, <4>1, <4>2 DEF Overtaken, Routed
      <4> QED BY <3>1, <3>4, <4>3
    <3>5. CASE current[m] # r /\ m # machine[r]
      <4>1. stage[current[m]] \in Routed /\ m \notin disturbed
        BY <3>1, <3>2, <3>5
      <4>2. peers[m] = ip[current[m]]
        BY <4>1 DEF RouteInv
      <4>3. ip[current[m]] # ip[r]
        BY <3>2, <3>5, <4>1 DEF AddressInv, Recorded
      <4> QED BY <3>1, <3>5, <4>2, <4>3
    <3> QED BY <3>3, <3>4, <3>5
  <2>8. CASE ReadPeers(r)
    BY <2>8 DEF ReadPeers, CallInv, AgentInv, RouteInv, NoCall, Routed
  <2>9. CASE WriteConf(r)
    BY <2>9 DEF WriteConf, CallInv, AgentInv, RouteInv, NoCall, Routed
  <2>10. CASE AddPeerFails(r)
    BY <2>10 DEF AddPeerFails, CallInv, AgentInv, RouteInv, NoCall, Routed
  <2>11. CASE AnswerArrives(r)
    BY <2>11 DEF AnswerArrives, ClientGone, CallInv, AgentInv, RouteInv, NoCall, Routed
  <2>12. CASE AnswerLost(r)
    BY <2>12 DEF AnswerLost, HangUp, CallInv, AgentInv, RouteInv, NoCall, Routed
  <2> QED BY <1>4, <2>1, <2>2, <2>3, <2>4, <2>5, <2>6,
             <2>7, <2>8, <2>9, <2>10, <2>11, <2>12 DEF HandlerStep
<1>5. CASE ControlPlaneRestarts
  BY <1>5 DEF ControlPlaneRestarts, CallInv, AgentInv, RouteInv, NoCall, Routed
<1>6. CASE UNCHANGED vars
  BY <1>6 DEF vars, CallInv, AgentInv, RouteInv, NoCall, Routed
<1> QED BY <1>1, <1>2, <1>3, <1>4, <1>5, <1>6 DEF Next

-----------------------------------------------------------------------------
(* The theorems.                                                            *)

\* Before the first registration RegInv holds.
LEMMA InitInv == Init => RegInv
<1> SUFFICES ASSUME Init PROVE RegInv
    OBVIOUS
<1> USE CallsAssumption, RestartsAssumption, NoMachineAssumption, UsedAssumption DEF Init, AllocatorsInit
<1>1. NoIP \in IPs /\ NobodyRouted \in Routes
  BY DEF IPs, Routes, NobodyRouted
<1>2. TypeOK
  BY <1>1 DEF TypeOK, Stages
<1>3. CallInv
  BY DEF CallInv, Calls
<1>4. AddressInv /\ RowInv
  BY DEF AddressInv, RowInv, Recorded, Routed
<1>5. BackedInv
  BY DEF BackedInv, Backed, NobodyRouted
<1>6. AgentInv /\ RouteInv
  BY DEF AgentInv, RouteInv
<1> QED BY <1>2, <1>3, <1>4, <1>5, <1>6 DEF RegInv

\* RegInv holds in every state, whatever registrations interleave, fail or are
\* abandoned, and across restarts of the control plane.
THEOREM RegInvariant == Spec => []RegInv
<1>1. RegInv /\ [Next]_vars => RegInv'
  BY TypeInductive, CallStep, AddressStep, RowStep, BackedStep, AgentStep, RouteStep DEF RegInv
<1> QED BY InitInv, <1>1, PTL DEF Spec

\* The registration handlers keep the types of their state.
THEOREM RegistrationTypes == Spec => []TypeOK
BY RegInvariant, PTL DEF RegInv

\* No two providers are given the same WireGuard address.
THEOREM AddressesUnique == Spec => []UniqueAddresses
<1>1. RegInv => UniqueAddresses
  BY DEF RegInv, AddressInv, RowInv, UniqueAddresses, TypeOK
<1> QED BY <1>1, RegInvariant, PTL

\* Whatever fails, nothing is routed and no agent runs without its row.
THEOREM RowsComeFirst == Spec => []RowsFirst
<1>1. RegInv => RowsFirst
  <2> SUFFICES ASSUME RegInv PROVE RowsFirst
      OBVIOUS
  <2>1. Backed(peers) /\ Backed(conf)
    BY DEF RegInv, BackedInv
  <2>2. ASSUME NEW m \in Machines, agent[m] = "running"
        PROVE  current[m] \in rows /\ machine[current[m]] = m
    <3>1. current[m] \in Calls /\ machine[current[m]] = m /\ stage[current[m]] = "answered"
      BY <2>2 DEF RegInv, AgentInv, TypeOK
    <3> QED BY <3>1 DEF RegInv, RowInv, Recorded, Routed
  <2> QED BY <2>1, <2>2 DEF RowsFirst
<1> QED BY <1>1, RegInvariant, PTL

\* A running agent whose route was not disturbed is routed where it was told.
THEOREM RunningIsRouted == Spec => []RoutedWhenRunning
<1>1. RegInv => RoutedWhenRunning
  <2> SUFFICES ASSUME RegInv, NEW m \in Machines, agent[m] = "running", m \notin disturbed
               PROVE  peers[m] = ip[current[m]]
      BY DEF RoutedWhenRunning
  <2>1. current[m] # NoCall /\ stage[current[m]] = "answered"
    BY DEF RegInv, AgentInv
  <2> QED BY <2>1 DEF RegInv, RouteInv, Routed
<1> QED BY <1>1, RegInvariant, PTL

-----------------------------------------------------------------------------
(* Registration implements AddressBook.                                     *)

Grants == {<<machine[r], ip[r]>> : r \in rows}
Holder == [m \in Machines |-> IF agent[m] = "running" THEN ip[current[m]] ELSE NoIP]

\* The address of a row is granted to the machine of the row.
LEMMA GrantedIffRow ==
    ASSUME RegInv, NEW m \in Machines, NEW r \in rows, machine[r] = m
    PROVE  ip[r] \in Book!Granted(m)
<1>1. <<m, ip[r]>> \in {h \in Grants : h[1] = m}
  BY DEF Grants
<1> QED BY <1>1 DEF Book!Granted, Grants

\* Steps that touch neither the rows, nor what a row says, nor a running agent.
LEMMA GrantsSame ==
    ASSUME rows' = rows, \A r \in rows : machine'[r] = machine[r] /\ ip'[r] = ip[r]
    PROVE  Grants' = Grants
BY DEF Grants

\* The holders stay while no agent begins or ceases to run.
LEMMA HolderSame ==
    ASSUME RegInv, ip' = ip,
           \A m \in Machines :
               /\ agent'[m] = "running" <=> agent[m] = "running"
               /\ agent[m] = "running" => current'[m] = current[m]
    PROVE  Holder' = Holder
<1>1. \A m \in Machines :
          (IF agent'[m] = "running" THEN ip'[current'[m]] ELSE NoIP)
              = (IF agent[m] = "running" THEN ip[current[m]] ELSE NoIP)
  OBVIOUS
<1> QED BY <1>1 DEF Holder

\* HangUp ends only an agent that still waits.
LEMMA HangUpHolder ==
    ASSUME RegInv, NEW r \in Calls, HangUp(r), stage[r] # "answered", ip' = ip
    PROVE  Holder' = Holder
<1>1. \A m \in Machines : agent[m] = "running" => current[m] # r
  BY DEF RegInv, AgentInv
<1>2. \A m \in Machines :
          /\ agent'[m] = "running" <=> agent[m] = "running"
          /\ agent[m] = "running" => current'[m] = current[m]
  BY <1>1 DEF HangUp
<1> QED BY <1>2, HolderSame

\* The address of a new row was granted to nobody before.
LEMMA NewRowGrants ==
    ASSUME RegInv, NEW r \in Calls, stage[r] = "row", rows' = rows \cup {r},
           machine' = machine, ip' = ip, peers' = peers, Holder' = Holder
    PROVE  Book!Grant
<1> DEFINE g == <<machine[r], ip[r]>>
<1>1. r \notin rows /\ ip[r] # NoIP /\ machine[r] \in Machines
  BY DEF RegInv, RowInv, Recorded, Routed, AddressInv, TypeOK
<1>2. \A q \in rows : ip[q] # ip[r]
  BY <1>1 DEF RegInv, AddressInv, TypeOK
<1>3. Grants' = Grants \cup {g}
  BY DEF Grants
<1>4. \A h \in Grants : h[2] # g[2]
  BY <1>2 DEF Grants
<1>5. g \in Grants' \ Grants /\ g[1] = machine[r] /\ g[2] = ip[r]
  BY <1>3, <1>4
<1> QED BY <1>1, <1>3, <1>4, <1>5 DEF Book!Grant, Grants, Holder

\* Nobody else is routed at the address that SetPeer routes: the key that it
\* might leave does not exist.
LEMMA SetPeerRoutes ==
    ASSUME RegInv, NEW r \in Calls, SetPeer(r), NEW m \in Machines, machine[r] = m
    PROVE  Book!Route(m)
<1>1. r \in rows /\ ip[r] # NoIP /\ peers \in [Machines -> IPs]
  BY DEF RegInv, SetPeer, RowInv, Recorded, AddressInv, TypeOK, Routes
<1>2. \A k \in Machines : k # m => peers[k] # ip[r]
  <2>1. SUFFICES ASSUME NEW k \in Machines, peers[k] = ip[r] PROVE k = m
    OBVIOUS
  <2>2. PICK q \in rows : machine[q] = k /\ ip[q] = ip[r]
    BY <1>1, <2>1 DEF RegInv, BackedInv, Backed
  <2>3. q = r
    BY <1>1, <2>2 DEF RegInv, AddressInv, TypeOK
  <2> QED BY <2>2, <2>3
<1>3. peers' = [peers EXCEPT ![m] = ip[r]]
  BY <1>1, <1>2 DEF SetPeer
<1>4. Grants' = Grants /\ Holder' = Holder
  BY DEF SetPeer, callVars, allocVars, agentVars, Grants, Holder
<1> QED BY <1>1, <1>3, <1>4, GrantedIffRow DEF Book!Route, Grants, Holder

\* An answer that arrives is the agent's own and tells a granted address.
LEMMA AnswerJoins ==
    ASSUME RegInv, NEW r \in Calls, AnswerArrives(r), NEW m \in Machines, machine[r] = m
    PROVE  Book!Join(m)
<1>1. r \in rows /\ current[m] = r
  BY DEF RegInv, AnswerArrives, ClientGone, RowInv, Recorded, Routed, TypeOK
<1>2. Holder' = [Holder EXCEPT ![m] = ip[r]]
  <2>1. agent' = [agent EXCEPT ![m] = "running"] /\ agent \in [Machines -> {"off", "registering", "running"}]
    BY DEF RegInv, AnswerArrives, TypeOK
  <2>2. current' = current /\ ip' = ip
    BY DEF AnswerArrives, allocVars
  <2> QED BY <1>1, <2>1, <2>2 DEF Holder
<1>3. Grants' = Grants /\ peers' = peers
  BY DEF AnswerArrives, callVars, allocVars, relayVars, Grants
<1> QED BY <1>1, <1>2, <1>3, GrantedIffRow DEF Book!Join, Grants, Holder

\* The end of an agent frees its address for nobody: the grant stays.
LEMMA EndLeaves ==
    ASSUME RegInv, NEW m \in Machines, AgentEnds(m)
    PROVE  Book!Leave(m)
<1>1. agent' = [agent EXCEPT ![m] = "off"] /\ agent \in [Machines -> {"off", "registering", "running"}]
  BY DEF RegInv, AgentEnds, TypeOK
<1>2. current' = [current EXCEPT ![m] = NoCall] /\ current \in [Machines -> Calls \cup {NoCall}] /\ ip' = ip
  BY DEF RegInv, AgentEnds, TypeOK, allocVars
<1>3. Holder' = [Holder EXCEPT ![m] = NoIP]
  BY <1>1, <1>2 DEF Holder
<1>4. Grants' = Grants /\ peers' = peers
  BY DEF AgentEnds, callVars, allocVars, relayVars, Grants
<1> QED BY <1>3, <1>4 DEF Book!Leave, Grants, Holder

\* What a restart syncs from wg0.conf has been granted to its machines.
LEMMA RestartRestores ==
    ASSUME RegInv, ControlPlaneRestarts
    PROVE  Book!Restore
<1>1. \A m \in Machines : peers'[m] \in Book!Granted(m) \cup {NoIP}
  <2>1. Backed(peers')
    BY DEF ControlPlaneRestarts, RegInv, BackedInv, Backed
  <2> QED BY <2>1, GrantedIffRow DEF Backed
<1>2. peers' = [m \in Machines |-> peers'[m]]
  BY DEF ControlPlaneRestarts, RegInv, TypeOK, Routes
<1>3. ip' = ip /\ machine' = machine /\ rows' = rows
  BY DEF ControlPlaneRestarts, allocVars, callVars
<1>4. \A m \in Machines :
          /\ agent'[m] = "running" <=> agent[m] = "running"
          /\ agent[m] = "running" => current'[m] = current[m]
  BY DEF ControlPlaneRestarts
<1>5. Holder' = Holder /\ Grants' = Grants
  BY <1>3, <1>4, HolderSame DEF Grants
<1> QED BY <1>1, <1>2, <1>5 DEF Book!Restore, Grants, Holder

\* Every step of Registration is one of AddressBook, or none.
LEMMA BookStep ==
    ASSUME RegInv, [Next]_vars
    PROVE  [Book!Next]_<<Grants, peers, Holder>>
<1> DEFINE Stutter == Grants' = Grants /\ peers' = peers /\ Holder' = Holder
<1> USE DEF callVars, allocVars, relayVars, agentVars
<1>1. ASSUME NEW t \in Tokens, GenerateToken(t) PROVE Stutter
  BY <1>1 DEF GenerateToken, Grants, Holder
<1>2. ASSUME NEW m \in Machines, NEW t \in Tokens, StartRegister(m, t) PROVE Stutter
  <2>1. calls + 1 \in Calls /\ stage[calls + 1] = "unused"
    BY <1>2 DEF StartRegister, RegInv, CallInv, Calls, TypeOK
  <2>2. calls + 1 \notin rows
    BY <2>1 DEF RegInv, RowInv, Recorded, Routed
  <2>3. \A r \in rows : machine'[r] = machine[r] /\ ip'[r] = ip[r]
    BY <1>2, <2>2 DEF StartRegister, RegInv, TypeOK
  <2>4. \A k \in Machines :
            /\ agent'[k] = "running" <=> agent[k] = "running"
            /\ agent[k] = "running" => current'[k] = current[k]
    BY <1>2 DEF StartRegister, RegInv, TypeOK
  <2> QED BY <1>2, <2>3, <2>4, GrantsSame, HolderSame DEF StartRegister
<1>3. ASSUME NEW m \in Machines, AgentEnds(m) PROVE Book!Leave(m)
  BY <1>3, EndLeaves
<1>4. ASSUME NEW r \in Calls, HandlerStep(r)
      PROVE  Stutter \/ Book!Grant \/ \E m \in Machines : Book!Route(m) \/ Book!Join(m)
  <2>0. machine[r] \in Machines \/ stage[r] = "unused"
    BY DEF RegInv, TypeOK
  <2>1. CASE CheckToken(r)
    BY <2>1 DEF CheckToken, Grants, Holder
  <2>2. CASE RejectToken(r)
    BY <2>2, HangUpHolder DEF RejectToken, Grants
  <2>3. CASE GetWGIP(r)
    <3>1. r \notin rows
      BY <2>3 DEF GetWGIP, RegInv, RowInv, Recorded, Routed
    <3>2. \A q \in rows : ip'[q] = ip[q]
      BY <2>3, <3>1 DEF GetWGIP, RegInv, TypeOK
    <3>3. \A m \in Machines : agent[m] = "running" => ip'[current[m]] = ip[current[m]]
      <4>1. \A m \in Machines : agent[m] = "running" => current[m] \in rows
        BY DEF RegInv, AgentInv, RowInv, Recorded, Routed, TypeOK
      <4> QED BY <3>2, <4>1
    <3>4. Holder' = Holder
      BY <2>3, <3>3 DEF GetWGIP, Holder
    <3> QED BY <2>3, <3>2, <3>4, GrantsSame DEF GetWGIP
  <2>4. CASE GetPort(r)
    BY <2>4 DEF GetPort, Grants, Holder
  <2>5. CASE InsertRow(r)
    <3>1. Holder' = Holder
      BY <2>5 DEF InsertRow, Holder
    <3> QED BY <2>5, <3>1, NewRowGrants DEF InsertRow
  <2>6. CASE RegisterFails(r)
    <3>1. Holder' = Holder
      BY <2>6, HangUpHolder DEF RegisterFails
    <3>2. CASE rows' = rows
      BY <2>6, <3>1, <3>2 DEF RegisterFails, Grants
    <3>3. CASE stage[r] = "row" /\ rows' = rows \cup {r}
      BY <2>6, <3>1, <3>3, NewRowGrants DEF RegisterFails
    <3> QED BY <2>6, <3>2, <3>3 DEF RegisterFails
  <2>7. CASE SetPeer(r)
    <3>1. PICK m \in Machines : machine[r] = m
      BY <2>0, <2>7 DEF SetPeer
    <3>2. Book!Route(m)
      BY <2>7, <3>1, SetPeerRoutes
    <3> QED BY <3>2
  <2>8. CASE ReadPeers(r)
    BY <2>8 DEF ReadPeers, Grants, Holder
  <2>9. CASE WriteConf(r)
    BY <2>9 DEF WriteConf, Grants, Holder
  <2>10. CASE AddPeerFails(r)
    BY <2>10 DEF AddPeerFails, Grants, Holder
  <2>11. CASE AnswerArrives(r)
    <3>1. PICK m \in Machines : machine[r] = m
      BY <2>0, <2>11 DEF AnswerArrives
    <3>2. Book!Join(m)
      BY <2>11, <3>1, AnswerJoins
    <3> QED BY <3>2
  <2>12. CASE AnswerLost(r)
    BY <2>12, HangUpHolder DEF AnswerLost, Grants
  <2> QED BY <1>4, <2>1, <2>2, <2>3, <2>4, <2>5, <2>6, <2>7, <2>8, <2>9, <2>10, <2>11, <2>12
          DEF HandlerStep
<1>5. ASSUME ControlPlaneRestarts PROVE Book!Restore
  BY <1>5, RestartRestores
<1>6. CASE UNCHANGED vars
  BY <1>6 DEF vars, Grants, Holder
<1>7. ASSUME Stutter PROVE UNCHANGED <<Grants, peers, Holder>>
  BY <1>7
<1> QED BY <1>1, <1>2, <1>3, <1>4, <1>5, <1>6, <1>7 DEF Next, Book!Next

\* Registration keeps the promise of AddressBook: each address for one machine
\* and for good, and no route or agent at any other.
THEOREM RegistrationImplementsBook == Spec => ImplementsBook
<1>1. Init => Book!Init
  BY DEF Init, Book!Init, NobodyRouted
<1>2. RegInv /\ [Next]_vars => [Book!Next]_<<Grants, peers, Holder>>
  BY BookStep
<1> QED BY <1>1, <1>2, RegInvariant, PTL DEF Spec, ImplementsBook, Book!Spec, Grants, Holder

-----------------------------------------------------------------------------
(* Routes and tokens.                                                       *)

\* No two machines are routed at one address.
RoutesDistinct ==
    \A m, k \in Machines : m # k => peers[m] # peers[k] \/ peers[m] = NoIP

\* The interface never sends one machine's traffic to another: each route is
\* an address of a row of its own machine, and no two rows share one.
THEOREM RoutesAreDistinct == Spec => []RoutesDistinct
<1>1. RegInv => RoutesDistinct
  <2> SUFFICES ASSUME RegInv, NEW m \in Machines, NEW k \in Machines,
                      peers[m] = peers[k], peers[m] # NoIP
               PROVE  m = k
      BY DEF RoutesDistinct
  <2>1. PICK r \in rows : machine[r] = m /\ ip[r] = peers[m]
    BY DEF RegInv, BackedInv, Backed
  <2>2. PICK q \in rows : machine[q] = k /\ ip[q] = peers[k]
    BY DEF RegInv, BackedInv, Backed
  <2>3. r \in Calls /\ q \in Calls /\ ip[r] # NoIP
    BY <2>1 DEF RegInv, TypeOK
  <2>4. r = q
    BY <2>1, <2>2, <2>3 DEF RegInv, AddressInv
  <2> QED BY <2>1, <2>2, <2>4
<1> QED BY <1>1, RegInvariant, PTL

\* A registration that passed the token check, or has a row, has a token.
TokenInv ==
    \A r \in Calls :
        r \in rows \/ stage[r] \in {"ip", "port", "row"} \cup Recorded =>
            token[r] \in issued \ {NoToken}

\* Every row was made with a token that the operator had issued.
RowsHaveToken == \A r \in rows : token[r] \in issued \ {NoToken}

\* Only CheckToken lets a handler go on to its address and its row.
LEMMA TokenStep == RegInv /\ TokenInv /\ [Next]_vars => TokenInv'
<1> SUFFICES ASSUME RegInv, TokenInv, [Next]_vars PROVE TokenInv'
    OBVIOUS
<1>0. TypeOK /\ CallInv /\ RowInv
  BY DEF RegInv
<1> USE DEF TokenInv, Recorded, Routed, callVars, allocVars, relayVars, agentVars
<1>1. ASSUME NEW t \in Tokens, GenerateToken(t) PROVE TokenInv'
  BY <1>1 DEF GenerateToken
<1>2. ASSUME NEW m \in Machines, NEW t \in Tokens, StartRegister(m, t) PROVE TokenInv'
  <2>1. calls + 1 \in Calls /\ stage[calls + 1] = "unused" /\ calls + 1 \notin rows
    BY <1>0, <1>2 DEF StartRegister, CallInv, RowInv, Calls, TypeOK
  <2>2. \A r \in Calls : r # calls + 1 => stage'[r] = stage[r] /\ token'[r] = token[r]
    BY <1>0, <1>2, <2>1 DEF StartRegister, TypeOK
  <2>3. stage'[calls + 1] = "token" /\ rows' = rows /\ issued' = issued
    BY <1>0, <1>2, <2>1 DEF StartRegister, TypeOK
  <2> QED BY <2>1, <2>2, <2>3
<1>3. ASSUME NEW m \in Machines, AgentEnds(m) PROVE TokenInv'
  BY <1>3 DEF AgentEnds
<1>4. ASSUME NEW r \in Calls, HandlerStep(r) PROVE TokenInv'
  <2>0. /\ stage \in [Calls -> Stages]
        /\ issued' = issued /\ token' = token
    <3>1. CASE CheckToken(r) \/ RejectToken(r) \/ GetWGIP(r) \/ GetPort(r) \/ InsertRow(r)
      BY <1>0, <3>1 DEF CheckToken, RejectToken, GetWGIP, GetPort, InsertRow, TypeOK
    <3>2. CASE RegisterFails(r) \/ SetPeer(r) \/ ReadPeers(r) \/ WriteConf(r)
      BY <1>0, <3>2 DEF RegisterFails, SetPeer, ReadPeers, WriteConf, TypeOK
    <3>3. CASE AddPeerFails(r) \/ AnswerArrives(r) \/ AnswerLost(r)
      BY <1>0, <3>3 DEF AddPeerFails, AnswerArrives, AnswerLost, TypeOK
    <3> QED BY <1>4, <3>1, <3>2, <3>3 DEF HandlerStep
  <2>1. CASE CheckToken(r)
    BY <2>0, <2>1 DEF CheckToken
  <2>2. CASE RejectToken(r)
    BY <2>0, <2>2 DEF RejectToken
  <2>3. CASE GetWGIP(r) \/ GetPort(r)
    BY <2>0, <2>3 DEF GetWGIP, GetPort
  <2>4. CASE InsertRow(r)
    BY <2>0, <2>4 DEF InsertRow
  <2>5. CASE RegisterFails(r)
    BY <2>0, <2>5 DEF RegisterFails
  <2>6. CASE SetPeer(r) \/ ReadPeers(r)
    BY <2>0, <2>6 DEF SetPeer, ReadPeers
  <2>7. CASE WriteConf(r) \/ AddPeerFails(r)
    BY <2>0, <2>7 DEF WriteConf, AddPeerFails
  <2>8. CASE AnswerArrives(r) \/ AnswerLost(r)
    BY <2>0, <2>8 DEF AnswerArrives, AnswerLost
  <2> QED BY <1>4, <2>1, <2>2, <2>3, <2>4, <2>5, <2>6, <2>7, <2>8 DEF HandlerStep
<1>5. CASE ControlPlaneRestarts
  BY <1>5 DEF ControlPlaneRestarts
<1>6. CASE UNCHANGED vars
  BY <1>6 DEF vars
<1> QED BY <1>1, <1>2, <1>3, <1>4, <1>5, <1>6 DEF Next

\* Whatever fails or is retried, no row, and so by RowsComeFirst no route and no
\* agent, without an issued token.
THEOREM RowsNeedToken == Spec => []RowsHaveToken
<1>1. Init => TokenInv
  BY DEF Init, TokenInv, Recorded, Routed
<1>2. RegInv /\ TokenInv => RowsHaveToken
  BY DEF RegInv, TypeOK, TokenInv, RowsHaveToken
<1> QED BY <1>1, <1>2, TokenStep, RegInvariant, PTL DEF Spec

-----------------------------------------------------------------------------
(* What wgrelay.AddPeer lacks: one AddPeer at a time.                       *)

Saving == {"read", "write"}

\* Handlers take turns at wg set and wg-quick save, as they would under a
\* mutex, and neither a failure nor a restart comes between the two.
AddPeerWhole ==
    \A r \in Calls :
        /\ SetPeer(r) \/ ControlPlaneRestarts => \A q \in Calls : stage[q] \notin Saving
        /\ AddPeerFails(r) => stage[r] = "set"

\* At most one handler saves, what it has read is what the interface holds, and
\* between two of them the file is up to date.
SavedInv ==
    /\ \A r, q \in Calls : stage[r] \in Saving /\ stage[q] \in Saving => r = q
    /\ \A r \in Calls : stage[r] = "write" => snapshot[r] = peers
    /\ PeersPersisted

\* The peers change only in wg set, which under AddPeerWhole begins a save.
LEMMA SavedStep == TypeOK /\ CallInv /\ SavedInv /\ [Next]_vars /\ [AddPeerWhole]_vars => SavedInv'
<1> SUFFICES ASSUME TypeOK, CallInv, SavedInv, [Next]_vars, [AddPeerWhole]_vars
             PROVE  SavedInv'
    OBVIOUS
<1>0. stage \in [Calls -> Stages] /\ snapshot \in [Calls -> Routes]
  BY DEF TypeOK
<1> USE DEF SavedInv, PeersPersisted, Saving
<1>1. CASE UNCHANGED <<stage, snapshot, peers, conf>>
  BY <1>1
<1>2. ASSUME NEW t \in Tokens, GenerateToken(t) PROVE SavedInv'
  BY <1>1, <1>2 DEF GenerateToken, relayVars
<1>3. ASSUME NEW m \in Machines, NEW t \in Tokens, StartRegister(m, t) PROVE SavedInv'
  <2>1. calls + 1 \in Calls /\ stage[calls + 1] = "unused"
    BY <1>3 DEF StartRegister, CallInv, Calls, TypeOK
  <2>2. stage' = [stage EXCEPT ![calls + 1] = "token"] /\ UNCHANGED <<snapshot, peers, conf>>
    BY <1>3 DEF StartRegister, relayVars
  <2> QED BY <1>0, <2>1, <2>2
<1>4. ASSUME NEW m \in Machines, AgentEnds(m) PROVE SavedInv'
  BY <1>1, <1>4 DEF AgentEnds, relayVars
<1>5. ASSUME NEW r \in Calls, HandlerStep(r) PROVE SavedInv'
  <2>1. ASSUME NEW v, v \notin Saving, stage[r] \notin Saving,
               stage' = [stage EXCEPT ![r] = v], UNCHANGED <<peers, conf>>,
               \A q \in Calls : q # r => snapshot'[q] = snapshot[q]
        PROVE  SavedInv'
    BY <1>0, <2>1
  <2>2. CASE CheckToken(r) \/ RejectToken(r) \/ GetWGIP(r) \/ GetPort(r)
    BY <2>1, <2>2 DEF CheckToken, RejectToken, GetWGIP, GetPort, relayVars
  <2>3. CASE InsertRow(r) \/ RegisterFails(r)
    BY <2>1, <2>3 DEF InsertRow, RegisterFails, relayVars
  <2>4. CASE AnswerArrives(r) \/ AnswerLost(r)
    BY <2>1, <2>4 DEF AnswerArrives, AnswerLost, relayVars
  <2>5. CASE AddPeerFails(r)
    <3>1. stage' # stage
      BY <1>0, <2>5 DEF AddPeerFails
    <3>2. stage[r] = "set"
      BY <2>5, <3>1 DEF AddPeerWhole, vars
    <3> QED BY <1>0, <2>1, <2>5, <3>2 DEF AddPeerFails
  <2>6. CASE SetPeer(r)
    <3>1. stage' # stage
      BY <1>0, <2>6 DEF SetPeer
    <3>2. \A q \in Calls : stage[q] \notin Saving
      BY <2>6, <3>1 DEF AddPeerWhole, vars
    <3> QED BY <1>0, <2>6, <3>2 DEF SetPeer
  <2>7. CASE ReadPeers(r)
    BY <1>0, <2>7 DEF ReadPeers
  <2>8. CASE WriteConf(r)
    BY <1>0, <2>8 DEF WriteConf
  <2> QED BY <1>5, <2>2, <2>3, <2>4, <2>5, <2>6, <2>7, <2>8 DEF HandlerStep
<1>6. CASE ControlPlaneRestarts
  <2>1. Calls # {} => \A q \in Calls : stage[q] \notin Saving
    BY <1>6 DEF AddPeerWhole, ControlPlaneRestarts, vars
  <2> QED BY <1>0, <1>6, <2>1 DEF ControlPlaneRestarts
<1>7. CASE UNCHANGED vars
  BY <1>1, <1>7 DEF vars, relayVars
<1> QED BY <1>2, <1>3, <1>4, <1>5, <1>6, <1>7 DEF Next

\* "Persist to config" (relay.go:54) would hold if AddPeer's two commands were
\* one section that handlers enter in turn and that nothing cuts off: where no
\* command fails and nothing restarts, as in the behaviour that refutes
\* PeersPersisted, a lock is all it lacks.
THEOREM SerialAddPeerPersists == Spec /\ [][AddPeerWhole]_vars => []PeersPersisted
<1>1. Init => SavedInv
  BY DEF Init, SavedInv, PeersPersisted, Saving
<1>2. RegInv /\ SavedInv /\ [Next]_vars /\ [AddPeerWhole]_vars => SavedInv'
  BY SavedStep DEF RegInv
<1>3. SavedInv => PeersPersisted
  BY DEF SavedInv
<1> QED BY <1>1, <1>2, <1>3, RegInvariant, PTL DEF Spec

=============================================================================
