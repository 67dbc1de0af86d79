------------------------------ MODULE Presence ------------------------------
(***************************************************************************)
(* Which providers the control plane takes for online: the status and      *)
(* last_seen columns of the providers table, the heartbeats of the agents  *)
(* and the goroutine SweepOffline.                                         *)
(*                                                                         *)
(* Time is discrete and everybody's deadlines are kept: Tick is enabled    *)
(* only when no timer has run out.  A member of Ids is one run of an       *)
(* agent's process, for every run registers under an id of its own.  A     *)
(* heartbeat is a message: it may arrive at any moment until the agent's   *)
(* HTTP client gives it up, also when its agent has ended meanwhile.  What *)
(* has no deadline in the code has none here: a registered agent waits for *)
(* wg-quick before its first heartbeat.                                    *)
(***************************************************************************)
EXTENDS Integers

CONSTANTS
    Ids,                \* provider ids, one per run of an agent
    HeartbeatPeriod,    \* 30 s
    SweepPeriod,        \* 60 s
    OfflineAfter,       \* 90 s
    Delay,              \* 15 s: the timeout of the agent's HTTP client
    AgeCap,             \* bound: ages beyond this one are not told apart
    MaxFailures         \* bound: crashes of the control plane, failed sweeps

ASSUME PeriodsAssumption ==
    /\ HeartbeatPeriod \in Nat /\ SweepPeriod \in Nat
    /\ OfflineAfter \in Nat /\ Delay \in Nat /\ AgeCap \in Nat /\ MaxFailures \in Nat
    /\ OfflineAfter < AgeCap

\* A heartbeat ends before the next is due, reaches the table before the first
\* sweep of a control plane that has just started, and may be lost once.
ASSUME TimingAssumption ==
    /\ 0 < Delay /\ Delay < HeartbeatPeriod
    /\ HeartbeatPeriod + Delay < SweepPeriod
    /\ 2 * HeartbeatPeriod + Delay <= OfflineAfter

VARIABLES
    status,     \* status[i]: the column, "none" when there is no row
    age,        \* age[i]: NOW() - last_seen
    agent,      \* agent[i]: the process that registered as i
    timer,      \* timer[i]: until the next heartbeat
    flight,     \* flight[i]: until the heartbeat on its way times out
    slack,      \* slack[i]: how many more heartbeats i can afford to lose
    cp,         \* the control plane's process
    sweepIn,    \* until SweepOffline's ticker fires
    sinceSweep, \* since a MarkOffline last succeeded
    failures    \* crashes and failed sweeps so far

vars == <<status, age, agent, timer, flight, slack, cp, sweepIn, sinceSweep, failures>>

ProviderStatus == {"none", "online", "offline"}
AgentState == {"absent", "joining", "live", "ended"}
Grounded == -1      \* no heartbeat on its way
Spent == -1         \* more heartbeats were lost than i can afford

Lesser(a, b) == IF a < b THEN a ELSE b
Older(a) == Lesser(a + 1, AgeCap)

Init ==
    /\ status = [i \in Ids |-> "none"]
    /\ age = [i \in Ids |-> 0]
    /\ agent = [i \in Ids |-> "absent"]
    /\ timer = [i \in Ids |-> 0]
    /\ flight = [i \in Ids |-> Grounded]
    /\ slack = [i \in Ids |-> 0]
    /\ cp = "up"
    /\ sweepIn = SweepPeriod
    /\ sinceSweep = 0
    /\ failures = 0

-----------------------------------------------------------------------------
(* Registration and heartbeats.                                             *)

\* Mutant: the row is inserted with a status no query knows.
MutRegisterActive(i) ==
    /\ cp = "up"
    /\ status[i] = "none"
    /\ status' = [status EXCEPT ![i] = "active"]
    /\ age' = [age EXCEPT ![i] = 0]
    /\ agent' = [agent EXCEPT ![i] = "joining"]
    /\ UNCHANGED <<timer, flight, slack, cp, sweepIn, sinceSweep, failures>>

\* UpsertProvider inserts a row under a fresh id, with last_seen at NOW().
Register(i) ==
    /\ cp = "up"
    /\ status[i] = "none"
    /\ status' = [status EXCEPT ![i] = "online"]
    /\ age' = [age EXCEPT ![i] = 0]
    /\ agent' = [agent EXCEPT ![i] = "joining"]
    /\ UNCHANGED <<timer, flight, slack, cp, sweepIn, sinceSweep, failures>>

\* The agent has its id and its heartbeat ticker starts.  WriteConfig, which may
\* take any time, comes before: the sweep may have had the row already, and an
\* agent that takes longer than one period cannot count on its first heartbeat.
Join(i) ==
    /\ agent[i] = "joining"
    /\ agent' = [agent EXCEPT ![i] = "live"]
    /\ timer' = [timer EXCEPT ![i] = HeartbeatPeriod]
    /\ slack' = [slack EXCEPT ![i] = IF age[i] > HeartbeatPeriod THEN Spent ELSE @]
    /\ UNCHANGED <<status, age, flight, cp, sweepIn, sinceSweep, failures>>

\* The process ends: stopped, crashed, or its registration was not answered.
AgentEnds(i) ==
    /\ agent[i] \in {"joining", "live"}
    /\ agent' = [agent EXCEPT ![i] = "ended"]
    /\ UNCHANGED <<status, age, timer, flight, slack, cp, sweepIn, sinceSweep, failures>>

SendHeartbeat(i) ==
    /\ agent[i] = "live"
    /\ timer[i] = 0
    /\ flight[i] = Grounded
    /\ flight' = [flight EXCEPT ![i] = Delay]
    /\ timer' = [timer EXCEPT ![i] = HeartbeatPeriod]
    /\ UNCHANGED <<status, age, agent, slack, cp, sweepIn, sinceSweep, failures>>

\* Mutant: the UPDATE sets the status and forgets last_seen=NOW().
MutHeartbeatUnseen(i) ==
    /\ cp = "up"
    /\ flight[i] # Grounded
    /\ flight' = [flight EXCEPT ![i] = Grounded]
    /\ status' = [status EXCEPT ![i] = "online"]
    /\ slack' = [slack EXCEPT ![i] = 1]
    /\ UNCHANGED <<age, agent, timer, cp, sweepIn, sinceSweep, failures>>

\* UpdateHeartbeat, which also brings an offline row back online.
HeartbeatArrives(i) ==
    /\ cp = "up"
    /\ flight[i] # Grounded
    /\ flight' = [flight EXCEPT ![i] = Grounded]
    /\ status' = [status EXCEPT ![i] = "online"]
    /\ age' = [age EXCEPT ![i] = 0]
    /\ slack' = [slack EXCEPT ![i] = 1]
    /\ UNCHANGED <<agent, timer, cp, sweepIn, sinceSweep, failures>>

\* The agent logs the failure and waits for its next tick.
HeartbeatLost(i) ==
    /\ flight[i] # Grounded
    /\ flight' = [flight EXCEPT ![i] = Grounded]
    /\ slack' = IF cp = "up" /\ slack[i] # Spent
                THEN [slack EXCEPT ![i] = @ - 1] ELSE slack
    /\ UNCHANGED <<status, age, agent, timer, cp, sweepIn, sinceSweep, failures>>

-----------------------------------------------------------------------------
(* The control plane.                                                       *)

Stale(i) == status[i] = "online" /\ age[i] > OfflineAfter

\* Mutant: int(olderThan), which is in nanoseconds, is formatted as seconds.
MutSweepNanoseconds ==
    /\ cp = "up"
    /\ sweepIn = 0
    /\ sweepIn' = SweepPeriod
    /\ sinceSweep' = 0
    /\ UNCHANGED <<status, age, agent, timer, flight, slack, cp, failures>>

\* MarkOffline: last_seen < NOW() - 90 s, strictly.
Sweep ==
    /\ cp = "up"
    /\ sweepIn = 0
    /\ status' = [i \in Ids |-> IF Stale(i) THEN "offline" ELSE status[i]]
    /\ sweepIn' = SweepPeriod
    /\ sinceSweep' = 0
    /\ UNCHANGED <<age, agent, timer, flight, slack, cp, failures>>

\* MarkOffline fails: SweepOffline logs it and waits for its next tick.
SweepFails ==
    /\ cp = "up"
    /\ sweepIn = 0
    /\ failures < MaxFailures
    /\ sweepIn' = SweepPeriod
    /\ failures' = failures + 1
    /\ UNCHANGED <<status, age, agent, timer, flight, slack, cp, sinceSweep>>

\* The process ends with its ticker and the requests it was serving.
ControlPlaneCrashes ==
    /\ cp = "up"
    /\ failures < MaxFailures
    /\ cp' = "down"
    /\ flight' = [i \in Ids |-> Grounded]
    /\ slack' = [i \in Ids |-> Lesser(slack[i], 0)]
    /\ failures' = failures + 1
    /\ UNCHANGED <<status, age, agent, timer, sweepIn, sinceSweep>>

\* Mutant: the process sweeps as it starts, before any agent was heard.
MutStartSweeps ==
    /\ cp = "down"
    /\ cp' = "up"
    /\ sweepIn' = 0
    /\ UNCHANGED <<status, age, agent, timer, flight, slack, sinceSweep, failures>>

\* systemd starts it again: Serve starts SweepOffline with a new ticker.
ControlPlaneStarts ==
    /\ cp = "down"
    /\ cp' = "up"
    /\ sweepIn' = SweepPeriod
    /\ UNCHANGED <<status, age, agent, timer, flight, slack, sinceSweep, failures>>

-----------------------------------------------------------------------------
(* Time.                                                                    *)

Ticking(i) == agent[i] = "live"

Tick ==
    /\ cp = "up" => sweepIn > 0
    /\ \A i \in Ids : Ticking(i) => timer[i] > 0
    /\ \A i \in Ids : flight[i] # 0
    /\ age' = [i \in Ids |-> IF status[i] = "none" THEN age[i] ELSE Older(age[i])]
    /\ timer' = [i \in Ids |-> IF Ticking(i) THEN timer[i] - 1 ELSE timer[i]]
    /\ flight' = [i \in Ids |-> IF flight[i] = Grounded THEN Grounded ELSE flight[i] - 1]
    /\ sweepIn' = IF cp = "up" THEN sweepIn - 1 ELSE sweepIn
    /\ sinceSweep' = Older(sinceSweep)
    /\ UNCHANGED <<status, agent, slack, cp, failures>>

AgentStep(i) ==
    \/ Register(i)
    \/ Join(i)
    \/ AgentEnds(i)
    \/ SendHeartbeat(i)
    \/ HeartbeatArrives(i)
    \/ HeartbeatLost(i)

ControlPlaneStep ==
    \/ Sweep
    \/ SweepFails
    \/ ControlPlaneCrashes
    \/ ControlPlaneStarts

Next ==
    \/ \E i \in Ids : AgentStep(i)
    \/ ControlPlaneStep
    \/ Tick

Spec == Init /\ [][Next]_vars

-----------------------------------------------------------------------------
(* Properties.                                                              *)

\* Types; in particular no timer the code waits on is ever overrun.
TypeOK ==
    /\ status \in [Ids -> ProviderStatus]
    /\ age \in [Ids -> 0 .. AgeCap]
    /\ agent \in [Ids -> AgentState]
    /\ timer \in [Ids -> 0 .. HeartbeatPeriod]
    /\ flight \in [Ids -> Grounded .. Delay]
    /\ slack \in [Ids -> Spent .. 1]
    /\ cp \in {"up", "down"}
    /\ sweepIn \in 0 .. SweepPeriod
    /\ sinceSweep \in 0 .. AgeCap
    /\ failures \in 0 .. MaxFailures

\* An online row was seen less than OfflineAfter before the last successful
\* sweep, or after it: with a sweep every SweepPeriod no row BestProvider can
\* choose is staler than 150 s, whatever heartbeats of ended agents still come
\* in.  Only a failed sweep or an outage of the control plane adds to that.
StaleBounded ==
    \A i \in Ids : status[i] = "online" => age[i] <= OfflineAfter + sinceSweep

\* The sweep never hits a live provider that has not missed two heartbeats
\* running (one, if it is new or the control plane was away): neither late
\* heartbeats nor an outage of the control plane, however long, are enough.  One
\* that joins later than 30 s after it registered is promised nothing before its
\* first heartbeat has arrived.
LiveStaysOnline ==
    \A i \in Ids : agent[i] = "live" /\ slack[i] # Spent => status[i] = "online"

\* A provider whose agent has ended is offline for good in the end.
EndedGoesOffline ==
    \A i \in Ids : agent[i] = "ended" ~> [](status[i] = "offline")
=============================================================================
