--------------------------- MODULE PresenceProofs ---------------------------
(***************************************************************************)
(* Theorems about Presence, for every set of ids and every choice of the   *)
(* periods that PeriodsAssumption and TimingAssumption allow.              *)
(*                                                                         *)
(* StaleBounded is inductive with TypeOK.  LiveStaysOnline is not: the     *)
(* inductive invariant says how old the row of a live agent can be, from   *)
(* the time its timer shows and the heartbeats it may still lose, or, when *)
(* the row may be older because the control plane was away, that the next  *)
(* heartbeat is due before the next sweep.                                 *)
(***************************************************************************)
EXTENDS Presence, TLAPS

\* A row that is not there has no agent and no heartbeat on its way.
RowInv(i) ==
    status[i] = "none" =>
        agent[i] = "absent" /\ slack[i] = 0 /\ flight[i] = Grounded

\* No sweep reaches the row of an agent that joins in time.
JoinInv(i) ==
    agent[i] = "joining" =>
        /\ age[i] <= HeartbeatPeriod => status[i] = "online"
        /\ slack[i] = 0
        /\ flight[i] = Grounded

\* A heartbeat of a live agent left when its timer was last set.
FlightInv(i) ==
    agent[i] = "live" /\ flight[i] # Grounded =>
        flight[i] + HeartbeatPeriod = Delay + timer[i]

\* The next heartbeat reaches the table before the next sweep.
Graced(i) ==
    \/ cp = "down"
    \/ flight[i] = Grounded /\ timer[i] + Delay < sweepIn
    \/ flight[i] # Grounded /\ flight[i] < sweepIn

\* Of the heartbeats due since the row was last seen, none was lost ...
SeenLately(i) ==
    \/ flight[i] = Grounded /\ age[i] + timer[i] <= HeartbeatPeriod
    \/ flight[i] # Grounded /\ age[i] + timer[i] <= 2 * HeartbeatPeriod

\* ... or at most one was.
SeenBefore(i) ==
    \/ flight[i] = Grounded /\ age[i] + timer[i] <= 2 * HeartbeatPeriod
    \/ flight[i] # Grounded /\ age[i] + timer[i] <= 3 * HeartbeatPeriod

LiveInv(i) ==
    agent[i] = "live" /\ slack[i] # Spent =>
        /\ status[i] = "online"
        /\ slack[i] = 1 => cp = "up" /\ SeenLately(i)
        /\ slack[i] = 0 => SeenBefore(i) \/ Graced(i)

AgentInv(i) == RowInv(i) /\ JoinInv(i) /\ FlightInv(i) /\ LiveInv(i)

PresenceInv ==
    /\ TypeOK
    /\ cp = "down" => \A i \in Ids : slack[i] # 1
    /\ \A i \in Ids : AgentInv(i)

-----------------------------------------------------------------------------
(* Types.                                                                   *)

\* Every step of Presence keeps the types, so no timer is overrun.
LEMMA TypeInductive == TypeOK /\ [Next]_vars => TypeOK'
<1> SUFFICES ASSUME TypeOK, [Next]_vars PROVE TypeOK'
    OBVIOUS
<1> USE PeriodsAssumption, TimingAssumption DEF TypeOK, ProviderStatus, AgentState, Grounded, Spent
<1>1. ASSUME NEW i \in Ids, AgentStep(i) PROVE TypeOK'
  <2>1. CASE Register(i) BY <2>1 DEF Register
  <2>2. CASE Join(i) BY <2>2 DEF Join
  <2>3. CASE AgentEnds(i) BY <2>3 DEF AgentEnds
  <2>4. CASE SendHeartbeat(i) BY <2>4 DEF SendHeartbeat
  <2>5. CASE HeartbeatArrives(i) BY <2>5 DEF HeartbeatArrives
  <2>6. CASE HeartbeatLost(i) BY <2>6 DEF HeartbeatLost
  <2> QED BY <1>1, <2>1, <2>2, <2>3, <2>4, <2>5, <2>6 DEF AgentStep
<1>2. CASE ControlPlaneStep
  <2>1. CASE Sweep BY <2>1 DEF Sweep, Stale
  <2>2. CASE SweepFails BY <2>2 DEF SweepFails
  <2>3. CASE ControlPlaneCrashes BY <2>3 DEF ControlPlaneCrashes, Lesser
  <2>4. CASE ControlPlaneStarts BY <2>4 DEF ControlPlaneStarts
  <2> QED BY <1>2, <2>1, <2>2, <2>3, <2>4 DEF ControlPlaneStep
<1>3. CASE Tick
  <2>1. age' \in [Ids -> 0 .. AgeCap] /\ sinceSweep' \in 0 .. AgeCap
    BY <1>3 DEF Tick, Older, Lesser
  <2>2. timer' \in [Ids -> 0 .. HeartbeatPeriod]
    BY <1>3 DEF Tick, Ticking
  <2>3. flight' \in [Ids -> Grounded .. Delay]
    BY <1>3 DEF Tick
  <2> QED BY <1>3, <2>1, <2>2, <2>3 DEF Tick
<1>4. CASE UNCHANGED vars BY <1>4 DEF vars
<1> QED BY <1>1, <1>2, <1>3, <1>4 DEF Next

\* Presence keeps the types of its variables.
THEOREM TypeCorrect == Spec => []TypeOK
<1>1. Init => TypeOK
  BY PeriodsAssumption DEF Init, TypeOK, ProviderStatus, AgentState, Grounded, Spent
<1> QED BY <1>1, TypeInductive, PTL DEF Spec

-----------------------------------------------------------------------------
(* No online row is staler than the last sweep allows.                      *)

\* UpdateHeartbeat and UpsertProvider set status and last_seen together, and
\* MarkOffline leaves no row beyond its threshold.
THEOREM OnlineIsRecent == Spec => []StaleBounded
<1>1. Init => StaleBounded
  BY DEF Init, StaleBounded
<1>2. TypeOK /\ StaleBounded /\ [Next]_vars => StaleBounded'
  <2> SUFFICES ASSUME TypeOK, StaleBounded, [Next]_vars, NEW j \in Ids,
                      status'[j] = "online"
               PROVE  age'[j] <= OfflineAfter + sinceSweep'
      BY DEF StaleBounded
  <2> USE PeriodsAssumption DEF TypeOK
  <2>1. ASSUME NEW i \in Ids, AgentStep(i) PROVE age'[j] <= OfflineAfter + sinceSweep'
    BY <2>1 DEF AgentStep, StaleBounded, Register, Join, AgentEnds, SendHeartbeat,
                HeartbeatArrives, HeartbeatLost
  <2>2. CASE ControlPlaneStep
    BY <2>2 DEF ControlPlaneStep, StaleBounded, Stale, Sweep, SweepFails,
                ControlPlaneCrashes, ControlPlaneStarts
  <2>3. CASE Tick
    BY <2>3 DEF Tick, StaleBounded, Older, Lesser
  <2>4. CASE UNCHANGED vars BY <2>4 DEF vars, StaleBounded
  <2> QED BY <2>1, <2>2, <2>3, <2>4 DEF Next
<1> QED BY <1>1, <1>2, TypeCorrect, PTL DEF Spec

-----------------------------------------------------------------------------
(* The sweep spares live agents.                                            *)

\* The steps of one agent keep its invariant, and that of every other.
LEMMA AgentStepInv ==
    ASSUME PresenceInv, NEW i \in Ids, AgentStep(i), NEW j \in Ids
    PROVE  AgentInv(j)'
<1> USE PeriodsAssumption, TimingAssumption DEF PresenceInv, AgentInv, TypeOK, Grounded, Spent
<1>1. CASE j # i
  <2>1. /\ status'[j] = status[j] /\ age'[j] = age[j] /\ agent'[j] = agent[j]
        /\ timer'[j] = timer[j] /\ flight'[j] = flight[j] /\ slack'[j] = slack[j]
        /\ cp' = cp /\ sweepIn' = sweepIn
    BY <1>1 DEF AgentStep, Register, Join, AgentEnds, SendHeartbeat, HeartbeatArrives,
                HeartbeatLost
  <2> QED BY <2>1 DEF RowInv, JoinInv, FlightInv, LiveInv, SeenLately, SeenBefore, Graced
<1>2. CASE j = i
  <2> USE <1>2
  <2>1. CASE Register(i)
    BY <2>1 DEF Register, RowInv, JoinInv, FlightInv, LiveInv
  <2>2. CASE Join(i)
    <3>1. /\ agent'[i] = "live" /\ timer'[i] = HeartbeatPeriod
          /\ status'[i] = status[i] /\ age'[i] = age[i]
          /\ flight'[i] = flight[i]
          /\ slack'[i] = IF age[i] > HeartbeatPeriod THEN Spent ELSE slack[i]
      BY <2>2 DEF Join
    <3>2. /\ slack[i] = 0 /\ flight[i] = Grounded /\ status[i] # "none"
          /\ age[i] <= HeartbeatPeriod => status[i] = "online"
      BY <2>2 DEF Join, JoinInv, RowInv
    <3> QED BY <3>1, <3>2 DEF RowInv, JoinInv, FlightInv, LiveInv, SeenBefore
  <2>3. CASE AgentEnds(i)
    BY <2>3 DEF AgentEnds, RowInv, JoinInv, FlightInv, LiveInv
  <2>4. CASE SendHeartbeat(i)
    <3>1. /\ agent[i] = "live" /\ timer[i] = 0 /\ flight[i] = Grounded
          /\ agent'[i] = "live" /\ timer'[i] = HeartbeatPeriod /\ flight'[i] = Delay
          /\ status'[i] = status[i] /\ age'[i] = age[i] /\ slack'[i] = slack[i]
          /\ cp' = cp /\ sweepIn' = sweepIn
      BY <2>4 DEF SendHeartbeat
    <3>2. (RowInv(i) /\ JoinInv(i) /\ FlightInv(i))'
      BY <3>1 DEF RowInv, JoinInv, FlightInv
    <3>3. LiveInv(i)'
      BY <3>1 DEF LiveInv, SeenLately, SeenBefore, Graced
    <3> QED BY <3>2, <3>3
  <2>5. CASE HeartbeatArrives(i)
    <3>1. /\ cp' = "up" /\ flight[i] # Grounded /\ flight'[i] = Grounded
          /\ status'[i] = "online" /\ age'[i] = 0 /\ slack'[i] = 1
          /\ agent'[i] = agent[i] /\ timer'[i] = timer[i]
      BY <2>5 DEF HeartbeatArrives
    <3>2. (RowInv(i) /\ JoinInv(i) /\ FlightInv(i))'
      BY <3>1 DEF RowInv, JoinInv, FlightInv
    <3>3. LiveInv(i)'
      BY <3>1 DEF LiveInv, SeenLately
    <3> QED BY <3>2, <3>3
  <2>6. CASE HeartbeatLost(i)
    <3>1. /\ flight[i] # Grounded /\ flight'[i] = Grounded
          /\ status'[i] = status[i] /\ age'[i] = age[i]
          /\ agent'[i] = agent[i] /\ timer'[i] = timer[i]
          /\ cp' = cp /\ sweepIn' = sweepIn
          /\ slack'[i] = IF cp = "up" /\ slack[i] # Spent THEN slack[i] - 1 ELSE slack[i]
      BY <2>6 DEF HeartbeatLost
    <3>2. (RowInv(i) /\ JoinInv(i) /\ FlightInv(i))'
      BY <3>1 DEF RowInv, JoinInv, FlightInv
    <3>3. LiveInv(i)'
      <4>1. CASE cp = "up"
        <5>1. slack'[i] = 0 => slack[i] = 1
          BY <3>1, <4>1
        <5>2. slack'[i] # 1
          BY <3>1, <4>1
        <5> QED BY <3>1, <4>1, <5>1, <5>2 DEF LiveInv, SeenLately, SeenBefore
      <4>2. CASE cp = "down"
        <5>1. slack'[i] = slack[i] /\ slack[i] # 1
          BY <3>1, <4>2
        <5> QED BY <3>1, <4>2, <5>1 DEF LiveInv, Graced
      <4> QED BY <4>1, <4>2
    <3> QED BY <3>2, <3>3
  <2> QED BY <2>1, <2>2, <2>3, <2>4, <2>5, <2>6 DEF AgentStep
<1> QED BY <1>1, <1>2

\* A sweep finds every live agent's row young enough; a failed sweep, a crash
\* and a start of the control plane leave the rows as they are.
LEMMA ControlPlaneStepInv ==
    ASSUME PresenceInv, ControlPlaneStep, NEW j \in Ids
    PROVE  AgentInv(j)'
<1> USE PeriodsAssumption, TimingAssumption DEF PresenceInv, AgentInv, TypeOK, Grounded, Spent
<1>1. CASE Sweep
  <2>1. /\ sweepIn = 0 /\ cp = "up" /\ cp' = cp
        /\ age' = age /\ agent' = agent /\ timer' = timer /\ flight' = flight /\ slack' = slack
        /\ status'[j] = IF Stale(j) THEN "offline" ELSE status[j]
    BY <1>1 DEF Sweep
  <2>2. ~ Graced(j)
    BY <2>1 DEF Graced
  <2>3. agent[j] = "live" /\ slack[j] # Spent => SeenBefore(j)
    BY <2>2 DEF LiveInv, SeenLately, SeenBefore
  <2>4. agent[j] = "live" /\ slack[j] # Spent => age[j] <= OfflineAfter
    BY <2>3 DEF SeenBefore, FlightInv
  <2>5. RowInv(j)' BY <2>1 DEF RowInv, Stale
  <2>6. JoinInv(j)' BY <2>1 DEF JoinInv, Stale
  <2>7. FlightInv(j)' BY <2>1 DEF FlightInv
  <2>8. LiveInv(j)'
    BY <2>1, <2>3, <2>4 DEF LiveInv, Stale, SeenLately, SeenBefore
  <2> QED BY <2>5, <2>6, <2>7, <2>8
<1>2. CASE SweepFails
  BY <1>2 DEF SweepFails, RowInv, JoinInv, FlightInv, LiveInv, SeenLately, SeenBefore, Graced
<1>3. CASE ControlPlaneCrashes
  BY <1>3 DEF ControlPlaneCrashes, Lesser, RowInv, JoinInv, FlightInv, LiveInv, Graced
<1>4. CASE ControlPlaneStarts
  BY <1>4 DEF ControlPlaneStarts, RowInv, JoinInv, FlightInv, LiveInv, SeenBefore, Graced
<1> QED BY <1>1, <1>2, <1>3, <1>4 DEF ControlPlaneStep

\* As time passes ages grow as timers run down.
LEMMA TickInv ==
    ASSUME PresenceInv, Tick, NEW j \in Ids
    PROVE  AgentInv(j)'
<1> USE PeriodsAssumption, TimingAssumption DEF PresenceInv, AgentInv, TypeOK, Grounded, Spent
<1>1. /\ status' = status /\ agent' = agent /\ slack' = slack /\ cp' = cp
      /\ cp = "up" => sweepIn' = sweepIn - 1
      /\ Ticking(j) => timer'[j] = timer[j] - 1
      /\ flight'[j] = IF flight[j] = Grounded THEN Grounded ELSE flight[j] - 1
      /\ flight[j] # 0
  BY DEF Tick
<1>2. age'[j] <= age[j] + 1 /\ age'[j] \in Nat /\ flight'[j] \in Int
  BY DEF Tick, Older, Lesser
<1>3. RowInv(j)' BY <1>1 DEF RowInv
<1>4. JoinInv(j)'
  <2>1. age'[j] <= HeartbeatPeriod => age[j] <= HeartbeatPeriod
    BY DEF Tick, Older, Lesser
  <2> QED BY <1>1, <2>1 DEF JoinInv
<1>5. FlightInv(j)' BY <1>1 DEF FlightInv, Ticking
<1>6. LiveInv(j)'
  BY <1>1, <1>2 DEF LiveInv, Ticking, SeenLately, SeenBefore, Graced
<1> QED BY <1>3, <1>4, <1>5, <1>6

\* A live agent that can still afford the heartbeats it lost is online.
THEOREM SweepSparesLive == Spec => []LiveStaysOnline
<1>1. Init => PresenceInv
  <2>1. Init => TypeOK
    BY PeriodsAssumption DEF Init, TypeOK, ProviderStatus, AgentState, Grounded, Spent
  <2> QED BY <2>1 DEF Init, PresenceInv, AgentInv, RowInv, JoinInv, FlightInv, LiveInv
<1>2. PresenceInv /\ [Next]_vars => PresenceInv'
  <2> SUFFICES ASSUME PresenceInv, [Next]_vars PROVE PresenceInv'
      OBVIOUS
  <2>1. TypeOK' BY TypeInductive DEF PresenceInv
  <2>2. ASSUME cp' = "down", NEW j \in Ids PROVE slack'[j] # 1
    <3> USE PeriodsAssumption, <2>2 DEF PresenceInv, TypeOK, Spent
    <3>1. ASSUME NEW i \in Ids, AgentStep(i) PROVE slack'[j] # 1
      BY <3>1 DEF AgentStep, Register, Join, AgentEnds, SendHeartbeat, HeartbeatArrives,
                  HeartbeatLost
    <3>2. CASE ControlPlaneStep
      BY <3>2 DEF ControlPlaneStep, Sweep, SweepFails, ControlPlaneCrashes,
                  ControlPlaneStarts, Lesser
    <3>3. CASE Tick BY <3>3 DEF Tick
    <3>4. CASE UNCHANGED vars BY <3>4 DEF vars
    <3> QED BY <3>1, <3>2, <3>3, <3>4 DEF Next
  <2>3. ASSUME NEW j \in Ids PROVE AgentInv(j)'
    <3>1. CASE UNCHANGED vars
      BY <3>1 DEF vars, PresenceInv, AgentInv, RowInv, JoinInv, FlightInv, LiveInv,
                  SeenLately, SeenBefore, Graced
    <3> QED BY <3>1, AgentStepInv, ControlPlaneStepInv, TickInv DEF Next
  <2> QED BY <2>1, <2>2, <2>3 DEF PresenceInv
<1>3. PresenceInv => LiveStaysOnline
  BY DEF PresenceInv, AgentInv, LiveInv, LiveStaysOnline
<1> QED BY <1>1, <1>2, <1>3, PTL DEF Spec
-----------------------------------------------------------------------------
(* What the periods add up to while nothing fails.                          *)

\* SweepOffline's ticker and the time since its last sweep share one period.
SweepInv ==
    failures = 0 => cp = "up" /\ sinceSweep + sweepIn <= SweepPeriod

\* While no sweep fails and the control plane stays up, no row that BestProvider
\* can choose is staler than 90 s and one period of the sweep, 150 s in all.
StaleWithinPeriod ==
    failures = 0 => \A i \in Ids : status[i] = "online" => age[i] <= OfflineAfter + SweepPeriod

\* Whatever counts as a failure is counted; nothing else delays a sweep.
LEMMA SweepStep == TypeOK /\ SweepInv /\ [Next]_vars => SweepInv'
<1> SUFFICES ASSUME TypeOK, SweepInv, [Next]_vars PROVE SweepInv'
    OBVIOUS
<1> USE PeriodsAssumption DEF TypeOK, SweepInv
<1>1. ASSUME NEW i \in Ids, AgentStep(i) PROVE SweepInv'
  BY <1>1 DEF AgentStep, Register, Join, AgentEnds, SendHeartbeat, HeartbeatArrives,
              HeartbeatLost
<1>2. CASE ControlPlaneStep
  BY <1>2 DEF ControlPlaneStep, Sweep, SweepFails, ControlPlaneCrashes, ControlPlaneStarts
<1>3. CASE Tick
  BY <1>3 DEF Tick, Older, Lesser
<1>4. CASE UNCHANGED vars
  BY <1>4 DEF vars
<1> QED BY <1>1, <1>2, <1>3, <1>4 DEF Next

\* The sweep comes on time, so the bound of StaleBounded is a number.
THEOREM SweepKeepsPeriod == Spec => []SweepInv
<1>1. Init => SweepInv
  BY PeriodsAssumption DEF Init, SweepInv
<1> QED BY <1>1, SweepStep, TypeCorrect, PTL DEF Spec

\* The registry's threshold and the sweep's period bound how stale a row is.
THEOREM OnlineWithinPeriod == Spec => []StaleWithinPeriod
<1>1. TypeOK /\ StaleBounded /\ SweepInv => StaleWithinPeriod
  BY PeriodsAssumption DEF TypeOK, StaleBounded, SweepInv, StaleWithinPeriod
<1> QED BY <1>1, TypeCorrect, OnlineIsRecent, SweepKeepsPeriod, PTL

\* The agent has ended, none of its heartbeats is on its way, its row is offline.
Gone(i) == agent[i] = "ended" /\ flight[i] = Grounded /\ status[i] = "offline"

\* A provider that is gone stays so: no heartbeat brings its row back online,
\* and its id is never registered again.
GoneForGood == [][\A i \in Ids : Gone(i) => Gone(i)']_vars

\* Only a heartbeat that is on its way turns a row online again, and only a
\* live agent sends one: EndedGoesOffline needs to reach this state but once.
THEOREM GoneStays == Spec => GoneForGood
<1>1. ASSUME TypeOK, Next, NEW j \in Ids, Gone(j) PROVE Gone(j)'
  <2> USE <1>1 DEF TypeOK, Gone
  <2>1. ASSUME NEW i \in Ids, AgentStep(i) PROVE Gone(j)'
    BY <2>1 DEF AgentStep, Register, Join, AgentEnds, SendHeartbeat, HeartbeatArrives,
                HeartbeatLost
  <2>2. CASE ControlPlaneStep
    BY <2>2 DEF ControlPlaneStep, Sweep, SweepFails, ControlPlaneCrashes,
                ControlPlaneStarts, Stale
  <2>3. CASE Tick
    BY <2>3 DEF Tick
  <2> QED BY <1>1, <2>1, <2>2, <2>3 DEF Next
<1>2. TypeOK /\ [Next]_vars => [\A i \in Ids : Gone(i) => Gone(i)']_vars
  BY <1>1
<1> QED BY <1>2, TypeCorrect, PTL DEF Spec, GoneForGood

=============================================================================
