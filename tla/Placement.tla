----------------------------- MODULE Placement -----------------------------
(***************************************************************************)
(* Where jobs are placed: the registry of Presence with the column         *)
(* mem_free_mb, and the SELECT with which Submit reads both.  The column   *)
(* is 0 in a new row and then what the last heartbeat said, so BestProvider*)
(* goes by what an agent reported up to 150 s before, whether or not that  *)
(* agent still is.                                                         *)
(*                                                                         *)
(* What becomes of a placed job is Scheduler's subject.                    *)
(***************************************************************************)
EXTENDS Presence

CONSTANTS
    Jobs,       \* calls of POST /deploy
    NoId,       \* the provider of a job that is not placed
    Reports,    \* the free memory that agents report
    Needs       \* the memory that buyers ask for; nothing is validated

ASSUME NoIdAssumption == NoId \notin Ids
ASSUME MemoryAssumption == Reports \subseteq Nat /\ Needs \subseteq Nat

VARIABLES
    memFree,    \* memFree[i]: the column
    choice,     \* choice[j]: the provider that job j was placed on
    need,       \* need[j]: the memory that it asks for
    joined,     \* the ids whose agent ever learnt that it has that id
    endedFor    \* endedFor[i]: since the agent of i ended

placed == <<choice, need>>
allVars == <<vars, memFree, placed, joined, endedFor>>

PlacementInit ==
    /\ Init
    /\ memFree = [i \in Ids |-> 0]
    /\ choice = [j \in Jobs |-> NoId]
    /\ need = [j \in Jobs |-> 0]
    /\ joined = {}
    /\ endedFor = [i \in Ids |-> 0]

\* Mutant: the row starts with the memory the machine has.
MutInsertProvider(i) ==
    /\ Register(i)
    /\ \E free \in Reports : memFree' = [memFree EXCEPT ![i] = free]
    /\ UNCHANGED <<placed, joined, endedFor>>

\* Mutant: the column starts as -1, for a memory nobody knows.
MutInsertProviderUnknown(i) ==
    /\ Register(i)
    /\ memFree' = [memFree EXCEPT ![i] = -1]
    /\ UNCHANGED <<placed, joined, endedFor>>

\* UpsertProvider leaves mem_free_mb at its default.
InsertProvider(i) ==
    /\ Register(i)
    /\ memFree' = [memFree EXCEPT ![i] = 0]
    /\ UNCHANGED <<placed, joined, endedFor>>

Joins(i) ==
    /\ Join(i)
    /\ joined' = joined \cup {i}
    /\ UNCHANGED <<memFree, placed, endedFor>>

\* Mutant: the UPDATE forgets the column.
MutUpdateHeartbeat(i) ==
    /\ HeartbeatArrives(i)
    /\ UNCHANGED <<memFree, placed, joined, endedFor>>

\* The handler of POST /providers/heartbeat.
UpdateHeartbeat(i) ==
    /\ HeartbeatArrives(i)
    /\ \E free \in Reports : memFree' = [memFree EXCEPT ![i] = free]
    /\ UNCHANGED <<placed, joined, endedFor>>

\* Mutant: the condition on the status is missing.
MutFits(i, memory) == status[i] # "none" /\ memFree[i] >= memory

Fits(i, memory) == status[i] = "online" /\ memFree[i] >= memory

\* BestProvider; capable are the rows with cores enough, which never change.
BestProvider(j, memory, capable) ==
    LET fitting == {i \in capable : Fits(i, memory)} IN
    /\ cp = "up"
    /\ choice[j] = NoId
    /\ \E i \in fitting :
           /\ \A k \in fitting : memFree[k] <= memFree[i]
           /\ choice' = [choice EXCEPT ![j] = i]
    /\ need' = [need EXCEPT ![j] = memory]
    /\ UNCHANGED <<vars, memFree, joined, endedFor>>

Time ==
    /\ Tick
    /\ endedFor' = [i \in Ids |-> IF agent[i] = "ended" THEN Older(endedFor[i]) ELSE 0]
    /\ UNCHANGED <<memFree, placed, joined>>

\* What Presence does and no column of this module notices.
Unnoticed(A) == A /\ UNCHANGED <<memFree, placed, joined, endedFor>>

Others(i) == AgentEnds(i) \/ SendHeartbeat(i) \/ HeartbeatLost(i)

PlacementNext ==
    \/ \E i \in Ids :
           \/ InsertProvider(i)
           \/ Joins(i)
           \/ UpdateHeartbeat(i)
           \/ Unnoticed(Others(i))
    \/ \E j \in Jobs, memory \in Needs, capable \in SUBSET Ids :
           BestProvider(j, memory, capable)
    \/ Unnoticed(ControlPlaneStep)
    \/ Time

\* The registration of i is answered and wg-quick run, or its agent ends; from
\* then on the agent may run for ever.
Joining(i) == agent[i] = "joining"

\* Clocks run, tickers fire, HTTP requests and wg-quick end and systemd restarts
\* the control plane.  No agent is obliged to register or to stop, and no buyer to deploy.
PlacementFairness ==
    /\ WF_allVars(Time)
    /\ WF_allVars(Unnoticed(Sweep))
    /\ WF_allVars(Unnoticed(ControlPlaneStarts))
    /\ \A i \in Ids :
           /\ WF_allVars(Joining(i) /\ (Joins(i) \/ Unnoticed(AgentEnds(i))))
           /\ WF_allVars(Unnoticed(SendHeartbeat(i)))
           /\ WF_allVars(UpdateHeartbeat(i) \/ Unnoticed(HeartbeatLost(i)))

PlacementSafety == PlacementInit /\ [][PlacementNext]_allVars
PlacementSpec == PlacementSafety /\ PlacementFairness

-----------------------------------------------------------------------------
(* Properties.                                                              *)

\* Types of the columns and of the jobs.
PlacementTypes ==
    /\ memFree \in [Ids -> Nat]
    /\ choice \in [Jobs -> Ids \cup {NoId}]
    /\ need \in [Jobs -> Nat]
    /\ joined \subseteq Ids
    /\ endedFor \in [Ids -> 0 .. AgeCap]

\* A registration that its agent never got the answer of, or could not apply,
\* leaves a row that is online for up to 150 s.  No job is placed on it all the
\* same, unless it asks for no memory at all: the column is 0 until a heartbeat
\* comes.
PlacedWasHeard ==
    \A j \in Jobs : choice[j] # NoId /\ need[j] > 0 => choice[j] \in joined

\* No job is placed on a provider whose agent ended earlier than 90 s before
\* the last successful sweep, or 15 s more for a heartbeat then on its way.
PlacedLately ==
    [][\A i \in Ids : agent[i] = "ended" /\ (\E j \in Jobs : choice[j] # i /\ choice'[j] = i)
           => endedFor[i] <= OfflineAfter + Delay + sinceSweep]_allVars

\* A provider that joins is offered jobs in the end (not before its first
\* heartbeat, 30 s later), unless it ends, loses more heartbeats than it can
\* afford or joined too late to lose any.
JoinedBecomesEligible ==
    \A i \in Ids :
        agent[i] = "live" ~>
            (status[i] = "online" /\ memFree[i] > 0) \/ agent[i] = "ended" \/ slack[i] = Spent
=============================================================================
