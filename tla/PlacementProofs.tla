-------------------------- MODULE PlacementProofs --------------------------
(***************************************************************************)
(* Theorems about Placement.  Each of its steps is one of Presence, or     *)
(* none, so what PresenceProofs shows of the registry holds of it; the     *)
(* rest is what the column mem_free_mb and the time since an agent ended   *)
(* have to do with the row.                                                *)
(***************************************************************************)
EXTENDS Placement, PresenceProofs

\* A row says something of an agent that has joined, or nothing.
HeardInv ==
    /\ \A i \in Ids : agent[i] = "live" \/ flight[i] # Grounded \/ memFree[i] > 0 => i \in joined
    /\ \A j \in Jobs : choice[j] # NoId /\ need[j] > 0 => choice[j] \in joined

\* The row of an ended agent is hardly younger than its end: only a heartbeat
\* that was on its way can have touched it since.
EndedInv ==
    \A i \in Ids :
        /\ status[i] = "none" => agent[i] = "absent"
        /\ agent[i] # "ended" => endedFor[i] = 0
        /\ agent[i] = "ended" => endedFor[i] <= age[i] + Delay
        /\ agent[i] = "ended" /\ flight[i] # Grounded => endedFor[i] + flight[i] <= Delay

PlacementInv ==
    TypeOK /\ StaleBounded /\ PlacementTypes /\ HeardInv /\ EndedInv

-----------------------------------------------------------------------------
\* The columns of Placement do not disturb those of Presence.
LEMMA StepIsPresence == [PlacementNext]_allVars => [Next]_vars
<1> SUFFICES ASSUME [PlacementNext]_allVars PROVE [Next]_vars
    OBVIOUS
<1>1. ASSUME NEW i \in Ids,
             InsertProvider(i) \/ Joins(i) \/ UpdateHeartbeat(i) \/ Unnoticed(Others(i))
      PROVE  AgentStep(i)
  BY <1>1 DEF InsertProvider, Joins, UpdateHeartbeat, Unnoticed, Others, AgentStep
<1>2. ASSUME NEW j \in Jobs, NEW memory \in Needs, NEW capable \in SUBSET Ids,
             BestProvider(j, memory, capable)
      PROVE  UNCHANGED vars
  BY <1>2 DEF BestProvider
<1>3. ASSUME Unnoticed(ControlPlaneStep) PROVE ControlPlaneStep
  BY <1>3 DEF Unnoticed
<1>4. ASSUME Time PROVE Tick
  BY <1>4 DEF Time
<1>5. CASE UNCHANGED allVars
  BY <1>5 DEF allVars
<1> QED BY <1>1, <1>2, <1>3, <1>4, <1>5 DEF PlacementNext, Next

\* The providers table of Placement is that of Presence.
THEOREM PlacementIsPresence == PlacementSafety => Spec
<1>1. PlacementInit => Init
  BY DEF PlacementInit
<1> QED BY <1>1, StepIsPresence, PTL DEF PlacementSafety, Spec

-----------------------------------------------------------------------------
\* Every report fits the column, and no time since an end exceeds AgeCap.
LEMMA PlacementTypeStep ==
    TypeOK /\ PlacementTypes /\ [PlacementNext]_allVars => PlacementTypes'
<1> SUFFICES ASSUME TypeOK, PlacementTypes, [PlacementNext]_allVars PROVE PlacementTypes'
    OBVIOUS
<1> USE MemoryAssumption, PeriodsAssumption DEF PlacementTypes, placed
<1>1. ASSUME NEW i \in Ids, InsertProvider(i) PROVE PlacementTypes'
  BY <1>1 DEF InsertProvider
<1>2. ASSUME NEW i \in Ids, Joins(i) PROVE PlacementTypes'
  BY <1>2 DEF Joins
<1>3. ASSUME NEW i \in Ids, UpdateHeartbeat(i) PROVE PlacementTypes'
  BY <1>3 DEF UpdateHeartbeat
<1>4. ASSUME NEW j \in Jobs, NEW memory \in Needs, NEW capable \in SUBSET Ids,
             BestProvider(j, memory, capable)
      PROVE  PlacementTypes'
  BY <1>4 DEF BestProvider
<1>5. ASSUME Time PROVE PlacementTypes'
  BY <1>5 DEF Time, Older, Lesser
<1>6. ASSUME UNCHANGED <<memFree, placed, joined, endedFor>> PROVE PlacementTypes'
  BY <1>6
<1>7. ASSUME NEW i \in Ids, Unnoticed(Others(i)) PROVE PlacementTypes'
  BY <1>6, <1>7 DEF Unnoticed
<1> QED BY <1>1, <1>2, <1>3, <1>4, <1>5, <1>6, <1>7 DEF PlacementNext, Unnoticed, allVars

\* Reports come from agents that have joined, and jobs go by what was reported.
LEMMA HeardStep ==
    TypeOK /\ PlacementTypes /\ HeardInv /\ [PlacementNext]_allVars => HeardInv'
<1> SUFFICES ASSUME TypeOK, PlacementTypes, HeardInv, [PlacementNext]_allVars PROVE HeardInv'
    OBVIOUS
<1> USE DEF TypeOK, PlacementTypes, HeardInv, placed
<1>1. ASSUME NEW i \in Ids, InsertProvider(i) PROVE HeardInv'
  BY <1>1 DEF InsertProvider, Register
<1>2. ASSUME NEW i \in Ids, Joins(i) PROVE HeardInv'
  BY <1>2 DEF Joins, Join
<1>3. ASSUME NEW i \in Ids, UpdateHeartbeat(i) PROVE HeardInv'
  <2>1. i \in joined
    BY <1>3 DEF UpdateHeartbeat, HeartbeatArrives
  <2> QED BY <1>3, <2>1 DEF UpdateHeartbeat, HeartbeatArrives
<1>4. ASSUME NEW i \in Ids, Unnoticed(Others(i)) PROVE HeardInv'
  BY <1>4 DEF Unnoticed, Others, AgentEnds, SendHeartbeat, HeartbeatLost
<1>5. ASSUME NEW j \in Jobs, NEW memory \in Needs, NEW capable \in SUBSET Ids,
             BestProvider(j, memory, capable)
      PROVE  HeardInv'
  <2>1. PICK i \in capable : memFree[i] >= memory /\ choice' = [choice EXCEPT ![j] = i]
    BY <1>5 DEF BestProvider, Fits
  <2>2. need' = [need EXCEPT ![j] = memory] /\ memory \in Nat
    BY <1>5, MemoryAssumption DEF BestProvider
  <2>3. memory > 0 => i \in joined
    BY <2>1, <2>2
  <2> QED BY <1>5, <2>1, <2>2, <2>3 DEF BestProvider, vars
<1>6. ASSUME Unnoticed(ControlPlaneStep) PROVE HeardInv'
  BY <1>6 DEF Unnoticed, ControlPlaneStep, Sweep, SweepFails, ControlPlaneCrashes,
              ControlPlaneStarts
<1>7. ASSUME Time PROVE HeardInv'
  <2>1. \A i \in Ids : flight'[i] # Grounded => flight[i] # Grounded
    BY <1>7 DEF Time, Tick
  <2> QED BY <1>7, <2>1 DEF Time, Tick
<1>8. CASE UNCHANGED allVars
  BY <1>8 DEF allVars, vars
<1> QED BY <1>1, <1>2, <1>3, <1>4, <1>5, <1>6, <1>7, <1>8 DEF PlacementNext

\* Only a heartbeat sent before the end makes the row of an ended agent younger.
LEMMA EndedStep ==
    TypeOK /\ PlacementTypes /\ EndedInv /\ [PlacementNext]_allVars => EndedInv'
<1> SUFFICES ASSUME TypeOK, PlacementTypes, EndedInv, [PlacementNext]_allVars PROVE EndedInv'
    OBVIOUS
<1> USE PeriodsAssumption DEF TypeOK, PlacementTypes, EndedInv, Grounded, placed
<1>1. ASSUME NEW i \in Ids, InsertProvider(i) PROVE EndedInv'
  BY <1>1 DEF InsertProvider, Register
<1>2. ASSUME NEW i \in Ids, Joins(i) PROVE EndedInv'
  BY <1>2 DEF Joins, Join
<1>3. ASSUME NEW i \in Ids, UpdateHeartbeat(i) PROVE EndedInv'
  BY <1>3 DEF UpdateHeartbeat, HeartbeatArrives
<1>4. ASSUME NEW i \in Ids, Unnoticed(Others(i)) PROVE EndedInv'
  BY <1>4 DEF Unnoticed, Others, AgentEnds, SendHeartbeat, HeartbeatLost
<1>5. ASSUME NEW j \in Jobs, NEW memory \in Needs, NEW capable \in SUBSET Ids,
             BestProvider(j, memory, capable)
      PROVE  EndedInv'
  BY <1>5 DEF BestProvider, vars
<1>6. ASSUME Unnoticed(ControlPlaneStep) PROVE EndedInv'
  BY <1>6 DEF Unnoticed, ControlPlaneStep, Sweep, SweepFails, ControlPlaneCrashes,
              ControlPlaneStarts
<1>7. ASSUME Time PROVE EndedInv'
  <2>1. agent' = agent /\ status' = status
    BY <1>7 DEF Time, Tick
  <2>2. ASSUME NEW i \in Ids, agent[i] = "ended"
        PROVE  /\ endedFor'[i] = Older(endedFor[i])
               /\ age'[i] = Older(age[i])
               /\ flight'[i] = IF flight[i] = Grounded THEN Grounded ELSE flight[i] - 1
    BY <1>7, <2>2 DEF Time, Tick
  <2>3. \A i \in Ids : agent[i] # "ended" => endedFor'[i] = 0
    BY <1>7 DEF Time
  <2> QED BY <2>1, <2>2, <2>3 DEF Older, Lesser
<1>8. CASE UNCHANGED allVars
  BY <1>8 DEF allVars, vars
<1> QED BY <1>1, <1>2, <1>3, <1>4, <1>5, <1>6, <1>7, <1>8 DEF PlacementNext

-----------------------------------------------------------------------------
\* An empty table satisfies it.
LEMMA PlacementInitInv == PlacementInit => PlacementInv
<1> SUFFICES ASSUME PlacementInit PROVE PlacementInv
    OBVIOUS
<1> USE PeriodsAssumption DEF PlacementInit, Init
<1>1. TypeOK
  BY DEF TypeOK, ProviderStatus, AgentState, Grounded, Spent
<1>2. StaleBounded
  BY DEF StaleBounded
<1>3. PlacementTypes
  BY DEF PlacementTypes
<1>4. HeardInv /\ EndedInv
  BY DEF HeardInv, EndedInv, Grounded
<1> QED BY <1>1, <1>2, <1>3, <1>4 DEF PlacementInv

\* PlacementInv holds in every state, whatever agents, buyers and the control
\* plane do.
THEOREM PlacementInvariant == PlacementSafety => []PlacementInv
<1>1. TypeOK /\ StaleBounded /\ PlacementTypes /\ HeardInv /\ EndedInv /\ [PlacementNext]_allVars
          => PlacementTypes' /\ HeardInv' /\ EndedInv'
  BY PlacementTypeStep, HeardStep, EndedStep
<1>2. PlacementSafety => [](TypeOK /\ StaleBounded)
  BY PlacementIsPresence, TypeCorrect, OnlineIsRecent, PTL
<1>3. PlacementInit => PlacementTypes /\ HeardInv /\ EndedInv
  BY PlacementInitInv DEF PlacementInv
<1> QED BY <1>1, <1>2, <1>3, PTL DEF PlacementSafety, PlacementInv

\* The columns that Submit reads, and the jobs, keep their types.
THEOREM PlacementTyped == PlacementSafety => []PlacementTypes
BY PlacementInvariant, PTL DEF PlacementInv

\* What LiveStaysOnline says of the sweep holds with Submit beside it.
THEOREM PlacementSparesLive == PlacementSafety => []LiveStaysOnline
BY PlacementIsPresence, SweepSparesLive, PTL

\* BestProvider never gives a job that needs memory to an agent that did not
\* learn its id.
THEOREM PlacedAreHeard == PlacementSafety => []PlacedWasHeard
<1>1. PlacementInv => PlacedWasHeard
  BY DEF PlacementInv, HeardInv, PlacedWasHeard
<1> QED BY <1>1, PlacementInvariant, PTL

\* BestProvider places nothing on a provider whose agent is long gone.
THEOREM PlacementIsRecent == PlacementSafety => PlacedLately
<1> DEFINE Lately ==
        \A i \in Ids : agent[i] = "ended" /\ (\E j \in Jobs : choice[j] # i /\ choice'[j] = i)
            => endedFor[i] <= OfflineAfter + Delay + sinceSweep
<1>1. PlacementInv /\ PlacementNext => Lately
  <2> SUFFICES ASSUME PlacementInv, PlacementNext, NEW i \in Ids, agent[i] = "ended",
                      NEW j \in Jobs, choice[j] # i, choice'[j] = i
               PROVE  endedFor[i] <= OfflineAfter + Delay + sinceSweep
      OBVIOUS
  <2>1. PICK k \in Jobs, memory \in Needs, capable \in SUBSET Ids :
            BestProvider(k, memory, capable)
    BY DEF PlacementNext, InsertProvider, Joins, UpdateHeartbeat, Unnoticed, Time, placed
  <2>2. status[i] = "online"
    BY <2>1 DEF BestProvider, Fits, PlacementInv, PlacementTypes
  <2>3. endedFor[i] <= age[i] + Delay /\ age[i] <= OfflineAfter + sinceSweep
    BY <2>2 DEF PlacementInv, EndedInv, StaleBounded
  <2> QED BY <2>3, PeriodsAssumption DEF PlacementInv, TypeOK, PlacementTypes
<1>2. PlacementInv /\ [PlacementNext]_allVars => [Lately]_allVars
  BY <1>1
<1> QED BY <1>2, PlacementInvariant, PTL DEF PlacementSafety, PlacedLately

\* Within 90 s, one HTTP timeout and one period of the sweep, 165 s in all, the
\* row of an agent that has ended is offline, with no heartbeat left to undo it
\* (AgeCap is to exceed the sum, or no age is told from it).
EndedWithinPeriod ==
    failures = 0 => \A i \in Ids :
        agent[i] = "ended" /\ endedFor[i] > OfflineAfter + Delay + SweepPeriod => Gone(i)

\* EndedGoesOffline with a deadline, while no sweep fails and the control plane
\* stays up: liveness made safety by the clock, and by GoneStays for good.
THEOREM EndedIsGoneInTime == PlacementSafety => []EndedWithinPeriod
<1>1. PlacementInv /\ SweepInv => EndedWithinPeriod
  <2> SUFFICES ASSUME PlacementInv, SweepInv, failures = 0, NEW i \in Ids, agent[i] = "ended",
                      endedFor[i] > OfflineAfter + Delay + SweepPeriod
               PROVE  Gone(i)
      BY DEF EndedWithinPeriod
  <2> USE PeriodsAssumption DEF PlacementInv, TypeOK, PlacementTypes
  <2>1. /\ endedFor[i] <= age[i] + Delay
        /\ flight[i] # Grounded => endedFor[i] + flight[i] <= Delay
        /\ status[i] # "none"
    BY DEF EndedInv
  <2>2. sinceSweep <= SweepPeriod
    BY DEF SweepInv
  <2>3. age[i] > OfflineAfter + sinceSweep
    BY <2>1, <2>2
  <2>4. status[i] # "online"
    BY <2>3 DEF StaleBounded
  <2>5. flight[i] = Grounded
    BY <2>1 DEF Grounded
  <2> QED BY <2>1, <2>4, <2>5 DEF Gone, ProviderStatus
<1> QED BY <1>1, PlacementInvariant, PlacementIsPresence, SweepKeepsPeriod, PTL

=============================================================================
