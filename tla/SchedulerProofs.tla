-------------------------- MODULE SchedulerProofs --------------------------
(***************************************************************************)
(* Theorems about Scheduler, for every set of providers, any number of     *)
(* jobs and of polls in flight, with and without faults.                   *)
(***************************************************************************)
EXTENDS Scheduler, FiniteSetTheorems, TLAPS

\* BestProvider returns a provider.
LEMMA BestProvidersType ==
    ASSUME NEW rows, NEW req
    PROVE  BestProviders(rows, req) \subseteq Providers
BY DEF BestProviders

-----------------------------------------------------------------------------
(* Type correctness: the type invariant is inductive by itself.             *)

\* The initial state is well typed.
LEMMA TypeInit == Init => TypeOK
<1> SUFFICES ASSUME Init PROVE TypeOK
    OBVIOUS
<1> USE DEF Init, JobRow, SubmitState, PollState, NoRow, NotCalled, FreeSlot,
            JobStatus, SubmitStage, PollStage, ClientState
<1>1. calls \in 0 .. MaxJobs
    BY MaxJobsAssumption
<1>2. /\ jobs \in [JobIds -> JobRow]
      /\ left \subseteq JobIds
      /\ submits \in [JobIds -> SubmitState]
      /\ polls \in [Providers -> [Slots -> PollState]]
    OBVIOUS
<1>3. queue \in [Providers -> Seq(JobIds)]
    OBVIOUS
<1>4. QED
    BY <1>1, <1>2, <1>3 DEF TypeOK

\* Updating one field of a record keeps the function of records well typed.

PollsType == [Providers -> [Slots -> PollState]]

\* Moving a poll to another stage keeps the type of polls.
LEMMA PollStageType ==
    ASSUME polls \in PollsType, NEW p \in Providers, NEW s \in Slots, NEW v \in PollStage
    PROVE  [polls EXCEPT ![p][s].stage = v] \in PollsType
<1>1. polls[p][s] \in PollState
    BY DEF PollsType
<1>2. [polls[p][s] EXCEPT !.stage = v] \in PollState
    BY <1>1 DEF PollState
<1>3. QED
    BY <1>2 DEF PollsType

\* Marking the client of a poll keeps the type of polls.
LEMMA PollClientType ==
    ASSUME polls \in PollsType, NEW p \in Providers, NEW s \in Slots, NEW c \in ClientState
    PROVE  [polls EXCEPT ![p][s].client = c] \in PollsType
<1>1. polls[p][s] \in PollState
    BY DEF PollsType
<1>2. [polls[p][s] EXCEPT !.client = c] \in PollState
    BY <1>1 DEF PollState
<1>3. QED
    BY <1>2 DEF PollsType

\* Replacing a poll keeps the type of polls.
LEMMA PollRecordType ==
    ASSUME polls \in PollsType, NEW p \in Providers, NEW s \in Slots, NEW r \in PollState
    PROVE  [polls EXCEPT ![p][s] = r] \in PollsType
BY DEF PollsType

\* What a handler's step leaves in its own slot, and in every other one.

Elsewhere(p, s) ==
    \A q \in Providers, t \in Slots : q # p \/ t # s => polls'[q][t] = polls[q][t]

\* A replaced poll is the new one, and the others stay.
LEMMA PollRecordAt ==
    ASSUME polls \in PollsType, NEW p \in Providers, NEW s \in Slots, NEW r,
           polls' = [polls EXCEPT ![p][s] = r]
    PROVE  polls'[p][s] = r /\ Elsewhere(p, s)
BY DEF PollsType, Elsewhere

\* A poll that moves to another stage keeps its job and client, and the others stay.
LEMMA PollStageAt ==
    ASSUME polls \in PollsType, NEW p \in Providers, NEW s \in Slots, NEW v,
           polls' = [polls EXCEPT ![p][s].stage = v]
    PROVE  /\ polls'[p][s].stage = v
           /\ polls'[p][s].job = polls[p][s].job
           /\ Elsewhere(p, s)
<1>1. polls[p][s] \in PollState
    BY DEF PollsType
<1>2. QED
    BY <1>1 DEF PollsType, PollState, Elsewhere

\* A poll whose client left keeps its stage and its job.
LEMMA PollClientAt ==
    ASSUME polls \in PollsType, NEW p \in Providers, NEW s \in Slots, NEW c,
           polls' = [polls EXCEPT ![p][s].client = c]
    PROVE  /\ polls'[p][s].stage = polls[p][s].stage
           /\ polls'[p][s].job = polls[p][s].job
           /\ Elsewhere(p, s)
<1>1. polls[p][s] \in PollState
    BY DEF PollsType
<1>2. QED
    BY <1>1 DEF PollsType, PollState, Elsewhere

\* The free slot is a poll state.
LEMMA FreeSlotType == FreeSlot \in PollState
BY DEF FreeSlot, PollState, PollStage, ClientState

\* Moving a Submit call to another stage keeps the type of submits.
LEMMA SubmitStageType ==
    ASSUME submits \in [JobIds -> SubmitState], NEW j \in JobIds, NEW v \in SubmitStage
    PROVE  [submits EXCEPT ![j].stage = v] \in [JobIds -> SubmitState]
BY DEF SubmitState

\* Pushing a job id keeps the type of the queues.
LEMMA AppendType ==
    ASSUME queue \in [Providers -> Seq(JobIds)], NEW p, NEW j \in JobIds
    PROVE  [queue EXCEPT ![p] = Append(@, j)] \in [Providers -> Seq(JobIds)]
<1>1. CASE p \in Providers
    BY <1>1
<1>2. CASE p \notin Providers
    BY <1>2
<1>3. QED
    BY <1>1, <1>2

\* Counting one more keeps the type of a counter per provider.
LEMMA CounterType ==
    ASSUME NEW c \in [Providers -> Nat], NEW p
    PROVE  [c EXCEPT ![p] = @ + 1] \in [Providers -> Nat]
<1>1. CASE p \in Providers
    BY <1>1
<1>2. CASE p \notin Providers
    BY <1>2
<1>3. QED
    BY <1>1, <1>2

\* Every step keeps the types, one case per action.
LEMMA TypeStep == TypeOK /\ [Next]_vars => TypeOK'
<1> SUFFICES ASSUME TypeOK, [Next]_vars PROVE TypeOK'
    OBVIOUS
<1>0. /\ polls \in PollsType
      /\ \A q \in Providers, t \in Slots :
             polls[q][t].stage \in {"commit", "respond"} => polls[q][t].job \in JobIds
    BY DEF TypeOK, PollsType
<1>1. ASSUME NEW j \in JobIds, NEW rows \in [Providers -> ProviderRows],
             NEW req \in Requests,
             FindProvider(j, rows, req) \/ NoProviderFits(j, rows, req)
      PROVE  TypeOK'
    <2>1. calls' \in 0 .. MaxJobs
        BY <1>1, MaxJobsAssumption DEF FindProvider, NoProviderFits, JobIds, TypeOK
    <2>2. submits' \in [JobIds -> SubmitState]
        <3>1. CASE FindProvider(j, rows, req)
            BY <3>1, BestProvidersType DEF FindProvider, TypeOK, SubmitState, SubmitStage
        <3>2. CASE NoProviderFits(j, rows, req)
            BY <3>2, SubmitStageType DEF NoProviderFits, TypeOK, SubmitStage
        <3>3. QED
            BY <1>1, <3>1, <3>2
    <2>3. QED
        BY <1>1, <2>1, <2>2 DEF FindProvider, NoProviderFits, TypeOK
<1>2. ASSUME NEW j \in JobIds, InsertJob(j) PROVE TypeOK'
    <2>1. submits' \in [JobIds -> SubmitState]
        BY <1>2, SubmitStageType DEF InsertJob, TypeOK, SubmitStage
    <2>2. jobs' \in [JobIds -> JobRow]
        BY <1>2 DEF InsertJob, TypeOK, JobRow, JobStatus
    <2>3. QED
        BY <1>2, <2>1, <2>2 DEF InsertJob, TypeOK
<1>3. ASSUME NEW j \in JobIds, AssignJob(j) PROVE TypeOK'
    <2>1. submits' \in [JobIds -> SubmitState]
        BY <1>3, SubmitStageType DEF AssignJob, TypeOK, SubmitStage
    <2>2. jobs' \in [JobIds -> JobRow]
        <3>1. submits[j].target \in Providers \cup {NoProvider} /\ jobs[j] \in JobRow
            BY DEF TypeOK, SubmitState
        <3>2. [jobs[j] EXCEPT !.status = "scheduled", !.provider = submits[j].target]
                  \in JobRow
            BY <3>1 DEF JobRow, JobStatus
        <3>3. jobs' = [jobs EXCEPT ![j] = [jobs[j] EXCEPT !.status = "scheduled",
                                                         !.provider = submits[j].target]]
            BY <1>3 DEF AssignJob, TypeOK
        <3>4. QED
            BY <3>2, <3>3 DEF TypeOK
    <2>3. QED
        BY <1>3, <2>1, <2>2 DEF AssignJob, TypeOK
<1>4. ASSUME NEW j \in JobIds, PushJob(j) \/ PushUnacknowledged(j) PROVE TypeOK'
    <2>1. queue' \in [Providers -> Seq(JobIds)]
        <3>1. queue' = [queue EXCEPT ![submits[j].target] = Append(@, j)]
            BY <1>4 DEF PushJob, PushUnacknowledged
        <3>2. QED
            BY <3>1, AppendType DEF TypeOK
    <2>2. submits' \in [JobIds -> SubmitState]
        <3>1. PICK v \in {"accepted", "rejected"} : submits' = [submits EXCEPT ![j].stage = v]
            BY <1>4 DEF PushJob, PushUnacknowledged
        <3>2. QED
            BY <3>1, SubmitStageType DEF TypeOK, SubmitStage
    <2>3. QED
        BY <1>4, <2>1, <2>2 DEF PushJob, PushUnacknowledged, TypeOK
<1>5. ASSUME NEW j \in JobIds, PushJobResent(j) PROVE TypeOK'
    <2> DEFINE p == submits[j].target
    <2>1. submits' \in [JobIds -> SubmitState]
        BY <1>5, SubmitStageType DEF PushJobResent, TypeOK, SubmitStage
    <2>2. [queue EXCEPT ![p] = Append(Append(@, j), j)] \in [Providers -> Seq(JobIds)]
        <3>1. CASE p \in Providers
            BY <3>1 DEF TypeOK
        <3>2. CASE p \notin Providers
            BY <3>2 DEF TypeOK
        <3>3. QED
            BY <3>1, <3>2
    <2>3. resent' \in [Providers -> Nat]
        BY <1>5, CounterType DEF PushJobResent, TypeOK
    <2>4. QED
        BY <1>5, <2>1, <2>2, <2>3 DEF PushJobResent, TypeOK
<1>6. ASSUME NEW j \in JobIds, SubmitFails(j) PROVE TypeOK'
    <2>1. submits' \in [JobIds -> SubmitState]
        BY <1>6, SubmitStageType DEF SubmitFails, TypeOK, SubmitStage
    <2>2. spilled' \in [Providers -> Nat]
        BY <1>6, CounterType DEF SubmitFails, TypeOK
    <2>3. QED
        BY <1>6, <2>1, <2>2 DEF SubmitFails, TypeOK
<1>7. ASSUME NEW p \in Providers, NEW s \in Slots, PopJob(p, s) PROVE TypeOK'
    <2>1. polls' \in PollsType
        BY <1>0, <1>7, PollStageType DEF PopJob, PollStage
    <2>2. queue' \in [Providers -> Seq(JobIds)]
        BY <1>7 DEF PopJob, TypeOK
    <2>3. QED
        BY <1>7, <2>1, <2>2 DEF PopJob, TypeOK, PollsType
<1>8. ASSUME NEW p \in Providers, NEW s \in Slots, PopReplyLost(p, s) PROVE TypeOK'
    <2>1. queue' \in [Providers -> Seq(JobIds)]
        BY <1>8 DEF PopReplyLost, TypeOK
    <2>2. spilled' \in [Providers -> Nat]
        BY <1>8, CounterType DEF PopReplyLost, TypeOK
    <2>3. QED
        BY <1>8, <2>1, <2>2 DEF PopReplyLost, TypeOK
<1>9. ASSUME NEW p \in Providers, NEW s \in Slots, SelectJob(p, s) PROVE TypeOK'
    <2>1. PICK j \in JobIds :
              polls' = [polls EXCEPT ![p][s] = [@ EXCEPT !.stage = "commit", !.job = j]]
        BY <1>9 DEF SelectJob, Oldest, Candidates, Scheduled
    <2> DEFINE r == [polls[p][s] EXCEPT !.stage = "commit", !.job = j]
    <2>2. polls' = [polls EXCEPT ![p][s] = r]
        BY <2>1
    <2>3. r \in PollState /\ r.job = j
        <3>1. polls[p][s] \in PollState
            BY <1>0 DEF PollsType
        <3>2. QED
            BY <3>1 DEF PollState, PollStage
    <2> HIDE DEF r
    <2>4. polls' \in PollsType
        BY <1>0, <2>2, <2>3, PollRecordType
    <2>5. Elsewhere(p, s) /\ polls'[p][s] = r
        BY <1>0, <2>2, PollRecordAt
    <2>6. QED
        BY <1>0, <1>9, <2>3, <2>4, <2>5 DEF SelectJob, TypeOK, PollsType, Elsewhere
<1>10. ASSUME NEW p \in Providers, NEW s \in Slots,
              PopEmpty(p, s) \/ RespondLost(p, s)
       PROVE  TypeOK'
    <2>1. polls' \in PollsType
        BY <1>0, <1>10, PollRecordType, FreeSlotType DEF PopEmpty, RespondLost
    <2>2. Elsewhere(p, s) /\ polls'[p][s] = FreeSlot
        BY <1>0, <1>10, PollRecordAt DEF PopEmpty, RespondLost
    <2>3. ASSUME NEW q \in Providers, NEW t \in Slots,
                 polls'[q][t].stage \in {"commit", "respond"}
          PROVE  polls'[q][t].job \in JobIds
        BY <1>0, <2>2, <2>3 DEF FreeSlot, Elsewhere
    <2>4. QED
        BY <1>10, <2>1, <2>3 DEF PopEmpty, RespondLost, TypeOK, PollsType
<1>11. ASSUME NEW p \in Providers, NEW s \in Slots,
              NoJobFound(p, s) \/ ClaimFails(p, s)
       PROVE  TypeOK'
    <2>1. polls' \in PollsType
        BY <1>0, <1>11, PollRecordType, FreeSlotType DEF NoJobFound, ClaimFails
    <2>2. spilled' = [spilled EXCEPT ![p] = @ + 1]
        BY <1>11 DEF NoJobFound, ClaimFails
    <2>3. spilled' \in [Providers -> Nat]
        BY <2>2, CounterType DEF TypeOK
    <2>4. Elsewhere(p, s) /\ polls'[p][s] = FreeSlot
        <3>1. polls' = [polls EXCEPT ![p][s] = FreeSlot]
            BY <1>11 DEF NoJobFound, ClaimFails
        <3>2. QED
            BY <1>0, <3>1, PollRecordAt
    <2>5. ASSUME NEW q \in Providers, NEW t \in Slots,
                 polls'[q][t].stage \in {"commit", "respond"}
          PROVE  polls'[q][t].job \in JobIds
        BY <1>0, <2>4, <2>5 DEF FreeSlot, Elsewhere
    <2>6. QED
        BY <1>11, <2>1, <2>3, <2>5 DEF NoJobFound, ClaimFails, TypeOK, PollsType
<1>12. ASSUME NEW p \in Providers, NEW s \in Slots, CommitJob(p, s) PROVE TypeOK'
    <2>1. polls' \in PollsType
        BY <1>0, <1>12, PollStageType DEF CommitJob, PollStage
    <2>2. jobs' \in [JobIds -> JobRow]
        BY <1>12 DEF CommitJob, TypeOK, JobRow, JobStatus
    <2>3. QED
        BY <1>12, <2>1, <2>2 DEF CommitJob, TypeOK, PollsType
<1>13. ASSUME NEW p \in Providers, NEW s \in Slots, Respond(p, s) PROVE TypeOK'
    <2>1. polls' \in PollsType
        BY <1>0, <1>13, PollRecordType, FreeSlotType DEF Respond
    <2>2. received' \subseteq JobIds \X Providers
        BY <1>13 DEF Respond, TypeOK
    <2>3. QED
        BY <1>13, <2>1, <2>2 DEF Respond, TypeOK, PollsType, FreeSlot
<1>14. ASSUME NEW p \in Providers, NEW s \in Slots, StartPoll(p, s) PROVE TypeOK'
    <2>1. [stage |-> "pop", job |-> NoJob, client |-> "waiting"] \in PollState
        BY DEF PollState, PollStage, ClientState
    <2>2. polls' \in PollsType
        BY <1>0, <1>14, <2>1, PollRecordType DEF StartPoll
    <2>3. QED
        BY <1>14, <2>2 DEF StartPoll, TypeOK, PollsType
<1>15. ASSUME NEW p \in Providers, NEW s \in Slots, ClientGivesUp(p, s) PROVE TypeOK'
    <2>1. polls' \in PollsType
        BY <1>0, <1>15, PollClientType DEF ClientGivesUp, ClientState
    <2>2. QED
        BY <1>15, <2>1 DEF ClientGivesUp, TypeOK, PollsType
<1>16. ASSUME NEW p \in Providers, AgentStops(p) PROVE TypeOK'
    <2>1. ASSUME NEW s \in Slots
          PROVE  [polls[p][s] EXCEPT !.client = "away"] \in PollState
        <3>1. polls[p][s] \in PollState
            BY <1>0 DEF PollsType
        <3>2. QED
            BY <3>1 DEF PollState, ClientState
    <2>2. polls' = [polls EXCEPT ![p] = [s \in Slots |-> [polls[p][s] EXCEPT !.client = "away"]]]
        BY <1>0, <1>16 DEF AgentStops, PollsType
    <2>3. polls' \in PollsType
        BY <1>0, <2>1, <2>2 DEF PollsType
    <2>4. QED
        BY <1>16, <2>3 DEF AgentStops, TypeOK, PollsType
<1>17. ASSUME NEW j \in JobIds, BuyerLeaves(j) PROVE TypeOK'
    BY <1>17 DEF BuyerLeaves, TypeOK
<1>18. CASE UNCHANGED vars
    BY <1>18 DEF vars, TypeOK
<1>19. QED
    BY <1>1, <1>2, <1>3, <1>4, <1>5, <1>6, <1>7, <1>8, <1>9, <1>10, <1>11, <1>12,
       <1>13, <1>14, <1>15, <1>16, <1>17, <1>18
       DEF Next, SubmitStep, HandlerStep, ClientStep

\* The type invariant holds in every behaviour: the statements of Submit and
\* NextPendingJob keep every row, list and goroutine within its type.
THEOREM TypeCorrect == Spec => []TypeOK
<1>1. QED
    BY TypeInit, TypeStep, PTL DEF Spec

-----------------------------------------------------------------------------
(* What each step does to the poll slots and the job rows, said once in the *)
(* terms the later proofs use: this slot, this row, and all the others.     *)

OtherRows(j) == \A k \in JobIds : k # j => jobs'[k] = jobs[k]
OtherSubmits(j) == \A k \in JobIds : k # j => submits'[k] = submits[k]

\* BRPOP lets one poll into NextPendingJob and leaves the others alone.
LEMMA PopEffect ==
    ASSUME TypeOK, NEW p \in Providers, NEW s \in Slots, PopJob(p, s)
    PROVE  polls'[p][s].stage = "select" /\ Elsewhere(p, s)
<1>1. polls \in PollsType
    BY DEF TypeOK, PollsType
<1> DEFINE r == [polls[p][s] EXCEPT !.stage = "select"]
<1>2. polls' = [polls EXCEPT ![p][s] = r]
    BY DEF PopJob
<1>3. r.stage = "select"
    BY <1>1 DEF PollsType, PollState
<1> HIDE DEF r
<1>4. polls'[p][s] = r /\ Elsewhere(p, s)
    BY <1>1, <1>2, PollRecordAt
<1>5. QED
    BY <1>3, <1>4

\* The SELECT gives a poll one of its candidate rows, locked from then on.
LEMMA SelectEffect ==
    ASSUME TypeOK, NEW p \in Providers, NEW s \in Slots, SelectJob(p, s)
    PROVE  /\ polls'[p][s].stage = "commit"
           /\ polls'[p][s].job \in JobIds
           /\ polls'[p][s].job \in Candidates(p)
           /\ Elsewhere(p, s)
<1>1. polls \in PollsType
    BY DEF TypeOK, PollsType
<1>2. PICK j \in JobIds :
          /\ j \in Candidates(p)
          /\ polls' = [polls EXCEPT ![p][s] = [@ EXCEPT !.stage = "commit", !.job = j]]
    BY DEF SelectJob, Oldest, Candidates, Scheduled
<1> DEFINE r == [polls[p][s] EXCEPT !.stage = "commit", !.job = j]
<1>3. r.stage = "commit" /\ r.job = j
    <2>1. polls[p][s] \in PollState
        BY <1>1 DEF PollsType
    <2>2. QED
        BY <2>1 DEF PollState
<1>4. polls' = [polls EXCEPT ![p][s] = r]
    BY <1>2
<1> HIDE DEF r
<1>5. polls'[p][s] = r /\ Elsewhere(p, s)
    BY <1>1, <1>4, PollRecordAt
<1>6. QED
    BY <1>2, <1>3, <1>5

\* The commit turns a poll's job from scheduled to running, and no other row.
LEMMA CommitEffect ==
    ASSUME TypeOK, NEW p \in Providers, NEW s \in Slots, CommitJob(p, s)
    PROVE  /\ polls'[p][s].stage = "respond"
           /\ polls'[p][s].job = polls[p][s].job
           /\ polls[p][s].job \in JobIds
           /\ Elsewhere(p, s)
           /\ jobs'[polls[p][s].job].status = "running"
           /\ jobs'[polls[p][s].job].provider = jobs[polls[p][s].job].provider
           /\ OtherRows(polls[p][s].job)
<1>1. polls \in PollsType
    BY DEF TypeOK, PollsType
<1>2. polls' = [polls EXCEPT ![p][s].stage = "respond"]
    BY DEF CommitJob
<1>3. /\ polls'[p][s].stage = "respond"
      /\ polls'[p][s].job = polls[p][s].job
      /\ Elsewhere(p, s)
    BY <1>1, <1>2, PollStageAt
<1>4. polls[p][s].job \in JobIds
    BY DEF CommitJob, TypeOK
<1>5. jobs[polls[p][s].job] \in JobRow
    BY <1>4 DEF TypeOK
<1>6. QED
    BY <1>3, <1>4, <1>5 DEF CommitJob, TypeOK, JobRow, OtherRows

\* The handler returns, with or without an answer.
HandlerReturns(p, s) ==
    \/ PopEmpty(p, s)
    \/ NoJobFound(p, s)
    \/ ClaimFails(p, s)
    \/ Respond(p, s)
    \/ RespondLost(p, s)

\* A handler that returns frees its slot and leaves the others alone.
LEMMA ReturnEffect ==
    ASSUME TypeOK, NEW p \in Providers, NEW s \in Slots, HandlerReturns(p, s)
    PROVE  polls'[p][s].stage = "free" /\ Elsewhere(p, s)
<1>1. polls \in PollsType
    BY DEF TypeOK, PollsType
<1>2. polls' = [polls EXCEPT ![p][s] = FreeSlot]
    BY DEF HandlerReturns, PopEmpty, NoJobFound, ClaimFails, Respond, RespondLost
<1>3. polls'[p][s] = FreeSlot /\ Elsewhere(p, s)
    BY <1>1, <1>2, PollRecordAt
<1>4. QED
    BY <1>3 DEF FreeSlot

\* A new poll waits in BRPOP without a job.
LEMMA StartEffect ==
    ASSUME TypeOK, NEW p \in Providers, NEW s \in Slots, StartPoll(p, s)
    PROVE  polls'[p][s].stage = "pop" /\ Elsewhere(p, s)
<1>1. polls \in PollsType
    BY DEF TypeOK, PollsType
<1> DEFINE r == [stage |-> "pop", job |-> NoJob, client |-> "waiting"]
<1>2. polls' = [polls EXCEPT ![p][s] = r]
    BY DEF StartPoll
<1>3. r.stage = "pop"
    OBVIOUS
<1> HIDE DEF r
<1>4. polls'[p][s] = r /\ Elsewhere(p, s)
    BY <1>1, <1>2, PollRecordAt
<1>5. QED
    BY <1>3, <1>4

\* The client's side of a poll ends: its handler does not notice.
ClientLeaves(p) == AgentStops(p) \/ \E s \in Slots : ClientGivesUp(p, s)

\* A client that leaves changes no stage and no job of a poll.
LEMMA LeaveEffect ==
    ASSUME TypeOK, NEW p \in Providers, ClientLeaves(p)
    PROVE  \A q \in Providers, t \in Slots :
               /\ polls'[q][t].stage = polls[q][t].stage
               /\ polls'[q][t].job = polls[q][t].job
<1>1. polls \in PollsType
    BY DEF TypeOK, PollsType
<1>2. ASSUME NEW s \in Slots, ClientGivesUp(p, s),
             NEW q \in Providers, NEW t \in Slots
      PROVE  /\ polls'[q][t].stage = polls[q][t].stage
             /\ polls'[q][t].job = polls[q][t].job
    <2>1. polls' = [polls EXCEPT ![p][s].client = "away"]
        BY <1>2 DEF ClientGivesUp
    <2>2. /\ polls'[p][s].stage = polls[p][s].stage
          /\ polls'[p][s].job = polls[p][s].job
          /\ Elsewhere(p, s)
        BY <1>1, <2>1, PollClientAt
    <2>3. QED
        BY <2>2 DEF Elsewhere
<1>3. ASSUME AgentStops(p), NEW q \in Providers, NEW t \in Slots
      PROVE  /\ polls'[q][t].stage = polls[q][t].stage
             /\ polls'[q][t].job = polls[q][t].job
    <2>1. polls' = [polls EXCEPT ![p] = [s \in Slots |-> [polls[p][s] EXCEPT !.client = "away"]]]
        BY <1>1, <1>3 DEF AgentStops, PollsType
    <2>2. polls[p][t] \in PollState
        BY <1>1 DEF PollsType
    <2>3. CASE q = p
        <3>1. polls'[q][t] = [polls[p][t] EXCEPT !.client = "away"]
            BY <1>1, <2>1, <2>3 DEF PollsType
        <3>2. QED
            BY <2>2, <2>3, <3>1 DEF PollState
    <2>4. CASE q # p
        BY <1>1, <2>1, <2>4 DEF PollsType
    <2>5. QED
        BY <2>3, <2>4
<1>4. QED
    BY <1>2, <1>3 DEF ClientLeaves

\* A step of one Submit keeps its target and the other calls.
LEMMA SubmitEffect ==
    ASSUME TypeOK, NEW j \in JobIds, NEW v, submits' = [submits EXCEPT ![j].stage = v]
    PROVE  /\ submits'[j].stage = v
           /\ submits'[j].target = submits[j].target
           /\ OtherSubmits(j)
<1>1. submits[j] \in SubmitState
    BY DEF TypeOK
<1>2. QED
    BY <1>1 DEF TypeOK, SubmitState, OtherSubmits

\* INSERT adds one pending row without a provider.
LEMMA InsertEffect ==
    ASSUME TypeOK, NEW j \in JobIds, InsertJob(j)
    PROVE  /\ jobs'[j].status = "pending"
           /\ jobs'[j].provider = NoProvider
           /\ OtherRows(j)
           /\ submits'[j].stage = "assign"
           /\ submits'[j].target = submits[j].target
           /\ OtherSubmits(j)
BY SubmitEffect DEF InsertJob, TypeOK, OtherRows

\* AssignJob gives the pending row of one call to its target.
LEMMA AssignEffect ==
    ASSUME TypeOK, NEW j \in JobIds, AssignJob(j)
    PROVE  /\ jobs'[j].status = "scheduled"
           /\ jobs'[j].provider = submits[j].target
           /\ OtherRows(j)
           /\ submits'[j].stage = "push"
           /\ submits'[j].target = submits[j].target
           /\ OtherSubmits(j)
<1>1. jobs[j] \in JobRow
    BY DEF TypeOK
<1>2. /\ jobs'[j].status = "scheduled"
      /\ jobs'[j].provider = submits[j].target
      /\ OtherRows(j)
    BY <1>1 DEF AssignJob, TypeOK, JobRow, OtherRows
<1>3. QED
    BY <1>2, SubmitEffect DEF AssignJob

\* The end of a Submit, with or without a wakeup pushed.
SubmitReturns(j) ==
    \/ PushJob(j)
    \/ PushJobResent(j)
    \/ PushUnacknowledged(j)
    \/ SubmitFails(j)

\* A Submit that returns has accepted or rejected its job and stays so.
LEMMA SubmitReturnEffect ==
    ASSUME TypeOK, NEW j \in JobIds, SubmitReturns(j)
    PROVE  /\ submits'[j].stage \in {"accepted", "rejected"}
           /\ submits'[j].target = submits[j].target
           /\ OtherSubmits(j)
<1>1. PICK v \in {"accepted", "rejected"} : submits' = [submits EXCEPT ![j].stage = v]
    BY DEF SubmitReturns, PushJob, PushJobResent, PushUnacknowledged, SubmitFails
<1>2. QED
    BY <1>1, SubmitEffect

Finding(j) ==
    \E rows \in [Providers -> ProviderRows], req \in Requests :
        FindProvider(j, rows, req) \/ NoProviderFits(j, rows, req)

\* The next call either is refused or goes on to its INSERT with a target.
LEMMA FindEffect ==
    ASSUME TypeOK, NEW j \in JobIds, Finding(j)
    PROVE  /\ j = calls + 1
           /\ calls' = j
           /\ \/ submits'[j].stage = "rejected"
              \/ submits'[j].stage = "insert" /\ submits'[j].target \in Providers
           /\ OtherSubmits(j)
<1>1. PICK rows \in [Providers -> ProviderRows], req \in Requests :
          FindProvider(j, rows, req) \/ NoProviderFits(j, rows, req)
    BY DEF Finding
<1>2. CASE FindProvider(j, rows, req)
    BY <1>2, BestProvidersType DEF FindProvider, TypeOK, OtherSubmits
<1>3. CASE NoProviderFits(j, rows, req)
    BY <1>3, SubmitEffect DEF NoProviderFits
<1>4. QED
    BY <1>1, <1>2, <1>3

-----------------------------------------------------------------------------
(* No job is handed over twice, nor to the agent of another provider.       *)
(*                                                                          *)
(* The two properties are not inductive: that the job of a transaction is   *)
(* still 'scheduled' when it commits rests on the row lock, and that nobody *)
(* resets a row that was claimed rests on AssignJob, whose UPDATE has no    *)
(* guard, running only once, before the row can be claimed.                 *)

SubmitInv ==
    \A j \in JobIds :
        /\ j > calls => submits[j].stage = "idle"
        /\ submits[j].stage \in {"idle", "insert"} => jobs[j].status = "none"
        /\ submits[j].stage = "assign" => jobs[j].status = "pending"
        /\ submits[j].stage \in {"insert", "assign", "push"} =>
               submits[j].target \in Providers

RowInv ==
    \A j \in JobIds :
        jobs[j].status \in {"none", "pending"} <=> jobs[j].provider = NoProvider

HeldInv ==
    \A p \in Providers, s \in Slots :
        /\ polls[p][s].stage = "commit" =>
               /\ jobs[polls[p][s].job].status = "scheduled"
               /\ jobs[polls[p][s].job].provider = p
        /\ polls[p][s].stage = "respond" =>
               /\ jobs[polls[p][s].job].status = "running"
               /\ jobs[polls[p][s].job].provider = p

HandoffInv ==
    TypeOK /\ SubmitInv /\ RowInv /\ HeldInv /\ ExclusiveHandoff /\ HandoffToOwner

\* Before the first call HandoffInv holds.
LEMMA HandoffInit == Init => HandoffInv
<1> SUFFICES ASSUME Init PROVE HandoffInv
    OBVIOUS
<1>1. TypeOK
    BY TypeInit
<1>2. SubmitInv /\ RowInv
    BY DEF Init, SubmitInv, RowInv, NotCalled, NoRow
<1>3. HeldInv /\ ExclusiveHandoff /\ HandoffToOwner
    BY DEF Init, HeldInv, ExclusiveHandoff, HandoffToOwner, Holds, FreeSlot
<1>4. QED
    BY <1>1, <1>2, <1>3 DEF HandoffInv

\* Every step keeps HandoffInv, one case per action.
LEMMA HandoffStep == HandoffInv /\ [Next]_vars => HandoffInv'
<1> SUFFICES ASSUME HandoffInv, [Next]_vars PROVE HandoffInv'
    OBVIOUS
<1> USE DEF HandoffInv
<1>0. /\ TypeOK'
      /\ \A q \in Providers, t \in Slots :
             polls[q][t].stage \in {"commit", "respond"} => polls[q][t].job \in JobIds
    BY TypeStep DEF TypeOK
<1>1. ASSUME NEW j \in JobIds, Finding(j) PROVE HandoffInv'
    <2>1. UNCHANGED <<jobs, polls, received>>
        BY <1>1 DEF Finding, FindProvider, NoProviderFits
    <2>2. SubmitInv'
        BY <1>1, <2>1, FindEffect DEF SubmitInv, OtherSubmits, JobIds, TypeOK
    <2>3. QED
        BY <1>0, <2>1, <2>2
           DEF RowInv, HeldInv, ExclusiveHandoff, HandoffToOwner, Holds
<1>2. ASSUME NEW j \in JobIds, InsertJob(j) PROVE HandoffInv'
    <2>1. UNCHANGED <<calls, polls, received>>
        BY <1>2 DEF InsertJob
    <2>2. jobs[j].status = "none"
        BY <1>2 DEF InsertJob, SubmitInv
    <2>3. /\ jobs'[j].status = "pending" /\ jobs'[j].provider = NoProvider
          /\ OtherRows(j)
          /\ submits'[j].stage = "assign" /\ submits'[j].target = submits[j].target
          /\ OtherSubmits(j)
        BY <1>2, InsertEffect
    <2>4. submits[j].target \in Providers /\ ~ (j > calls)
        BY <1>2 DEF InsertJob, SubmitInv
    <2>5. SubmitInv' /\ RowInv'
        BY <2>1, <2>3, <2>4 DEF SubmitInv, RowInv, OtherRows, OtherSubmits
    <2>6. HeldInv' /\ HandoffToOwner'
        BY <1>0, <2>1, <2>2, <2>3 DEF HeldInv, HandoffToOwner, OtherRows
    <2>7. QED
        BY <1>0, <2>1, <2>5, <2>6 DEF ExclusiveHandoff, Holds
<1>3. ASSUME NEW j \in JobIds, AssignJob(j) PROVE HandoffInv'
    <2>1. UNCHANGED <<calls, polls, received>>
        BY <1>3 DEF AssignJob
    <2>2. jobs[j].status = "pending"
        BY <1>3 DEF AssignJob, SubmitInv
    <2>3. /\ jobs'[j].status = "scheduled" /\ jobs'[j].provider = submits[j].target
          /\ OtherRows(j)
          /\ submits'[j].stage = "push" /\ submits'[j].target = submits[j].target
          /\ OtherSubmits(j)
        BY <1>3, AssignEffect
    <2>4. submits[j].target \in Providers /\ ~ (j > calls)
        BY <1>3 DEF AssignJob, SubmitInv
    <2>5. SubmitInv' /\ RowInv'
        BY <2>1, <2>3, <2>4, NoProviderAssumption
           DEF SubmitInv, RowInv, OtherRows, OtherSubmits
    <2>6. HeldInv' /\ HandoffToOwner'
        BY <1>0, <2>1, <2>2, <2>3 DEF HeldInv, HandoffToOwner, OtherRows
    <2>7. QED
        BY <1>0, <2>1, <2>5, <2>6 DEF ExclusiveHandoff, Holds
<1>4. ASSUME NEW j \in JobIds, SubmitReturns(j) PROVE HandoffInv'
    <2>1. UNCHANGED <<calls, jobs, polls, received>>
        BY <1>4 DEF SubmitReturns, PushJob, PushJobResent, PushUnacknowledged, SubmitFails
    <2>2. /\ submits'[j].stage \in {"accepted", "rejected"}
          /\ OtherSubmits(j)
        BY <1>4, SubmitReturnEffect
    <2>3. ~ (j > calls)
        BY <1>4 DEF SubmitReturns, PushJob, PushJobResent, PushUnacknowledged,
                    SubmitFails, SubmitInv
    <2>4. SubmitInv'
        BY <2>1, <2>2, <2>3 DEF SubmitInv, OtherSubmits
    <2>5. QED
        BY <1>0, <2>1, <2>4
           DEF RowInv, HeldInv, ExclusiveHandoff, HandoffToOwner, Holds
<1>5. ASSUME NEW p \in Providers, NEW s \in Slots,
             PopJob(p, s) \/ StartPoll(p, s) \/ PopEmpty(p, s) \/ NoJobFound(p, s)
                 \/ ClaimFails(p, s) \/ RespondLost(p, s)
      PROVE  HandoffInv'
    <2>1. UNCHANGED <<calls, submits, jobs, received>>
        BY <1>5 DEF PopJob, StartPoll, PopEmpty, NoJobFound, ClaimFails, RespondLost
    <2>2. polls'[p][s].stage \in {"free", "pop", "select"} /\ Elsewhere(p, s)
        BY <1>5, PopEffect, StartEffect, ReturnEffect DEF HandlerReturns
    <2>3. SubmitInv' /\ RowInv' /\ HandoffToOwner'
        BY <2>1 DEF SubmitInv, RowInv, HandoffToOwner
    <2>4. HeldInv' /\ ExclusiveHandoff'
        BY <2>1, <2>2 DEF HeldInv, ExclusiveHandoff, Holds, Elsewhere
    <2>5. QED
        BY <1>0, <2>3, <2>4
<1>6. ASSUME NEW p \in Providers, NEW s \in Slots, SelectJob(p, s) PROVE HandoffInv'
    <2>1. UNCHANGED <<calls, submits, jobs, received>>
        BY <1>6 DEF SelectJob
    <2> DEFINE j == polls'[p][s].job
    <2>2. /\ j \in JobIds
          /\ jobs[j].status = "scheduled"
          /\ jobs[j].provider = p
          /\ \A t \in Slots : polls[p][t].stage = "commit" => polls[p][t].job # j
          /\ polls'[p][s].stage = "commit"
          /\ Elsewhere(p, s)
        BY <1>6, SelectEffect DEF Candidates, Scheduled, Locked
    <2>3. SubmitInv' /\ RowInv' /\ HandoffToOwner'
        BY <2>1 DEF SubmitInv, RowInv, HandoffToOwner
    <2>4. HeldInv'
        BY <2>1, <2>2 DEF HeldInv, Elsewhere
    <2>5. \A q \in Providers, t \in Slots : ~ Holds(q, t, j)
        BY <2>2 DEF HeldInv, Holds
    <2>6. \A q \in Providers : <<j, q>> \notin received
        BY <2>2 DEF HandoffToOwner
    <2>7. ExclusiveHandoff'
        BY <2>1, <2>2, <2>5, <2>6 DEF ExclusiveHandoff, Holds, Elsewhere
    <2>8. QED
        BY <1>0, <2>3, <2>4, <2>7
<1>7. ASSUME NEW p \in Providers, NEW s \in Slots, CommitJob(p, s) PROVE HandoffInv'
    <2>1. UNCHANGED <<calls, submits, received>> /\ polls[p][s].stage = "commit"
        BY <1>7 DEF CommitJob
    <2> DEFINE j == polls[p][s].job
    <2>2. /\ j \in JobIds
          /\ jobs[j].status = "scheduled" /\ jobs[j].provider = p
          /\ jobs'[j].status = "running" /\ jobs'[j].provider = p
          /\ OtherRows(j)
          /\ polls'[p][s].stage = "respond" /\ polls'[p][s].job = j
          /\ Elsewhere(p, s)
        BY <1>7, <2>1, CommitEffect DEF HeldInv
    <2>3. SubmitInv' /\ RowInv' /\ HandoffToOwner'
        BY <2>1, <2>2, NoProviderAssumption
           DEF SubmitInv, RowInv, HandoffToOwner, OtherRows
    <2>4. \A q \in Providers, t \in Slots : q # p \/ t # s => ~ Holds(q, t, j)
        BY <2>1, <2>2 DEF ExclusiveHandoff, Holds
    <2>5. HeldInv'
        BY <1>0, <2>1, <2>2, <2>4 DEF HeldInv, Elsewhere, OtherRows, Holds
    <2>6. ExclusiveHandoff'
        BY <2>1, <2>2 DEF ExclusiveHandoff, Holds, Elsewhere
    <2>7. QED
        BY <1>0, <2>3, <2>5, <2>6
<1>8. ASSUME NEW p \in Providers, NEW s \in Slots, Respond(p, s) PROVE HandoffInv'
    <2> DEFINE j == polls[p][s].job
    <2>1. /\ UNCHANGED <<calls, submits, jobs>>
          /\ polls[p][s].stage = "respond"
          /\ received' = received \cup {<<j, p>>}
        BY <1>8 DEF Respond
    <2>2. /\ j \in JobIds
          /\ jobs[j].status = "running" /\ jobs[j].provider = p
          /\ \A q \in Providers : <<j, q>> \notin received
          /\ \A q \in Providers, t \in Slots : Holds(q, t, j) => q = p /\ t = s
          /\ polls'[p][s].stage = "free" /\ Elsewhere(p, s)
        BY <1>8, <2>1, ReturnEffect
           DEF HandlerReturns, HeldInv, ExclusiveHandoff, Holds, TypeOK
    <2>3. SubmitInv' /\ RowInv' /\ HandoffToOwner'
        BY <2>1, <2>2 DEF SubmitInv, RowInv, HandoffToOwner
    <2>4. HeldInv' /\ ExclusiveHandoff'
        BY <2>1, <2>2 DEF HeldInv, ExclusiveHandoff, Holds, Elsewhere
    <2>5. QED
        BY <1>0, <2>3, <2>4
<1>9. ASSUME NEW p \in Providers, ClientLeaves(p) PROVE HandoffInv'
    <2>1. UNCHANGED <<calls, submits, jobs, received>>
        BY <1>9 DEF ClientLeaves, AgentStops, ClientGivesUp
    <2>2. QED
        BY <1>0, <1>9, <2>1, LeaveEffect
           DEF SubmitInv, RowInv, HeldInv, ExclusiveHandoff, HandoffToOwner, Holds
<1>10. ASSUME NEW p \in Providers, NEW s \in Slots, PopReplyLost(p, s) PROVE HandoffInv'
    BY <1>0, <1>10
       DEF PopReplyLost, SubmitInv, RowInv, HeldInv, ExclusiveHandoff, HandoffToOwner, Holds
<1>11. ASSUME NEW j \in JobIds, BuyerLeaves(j) PROVE HandoffInv'
    BY <1>0, <1>11
       DEF BuyerLeaves, SubmitInv, RowInv, HeldInv, ExclusiveHandoff, HandoffToOwner, Holds
<1>12. CASE UNCHANGED vars
    BY <1>0, <1>12
       DEF vars, SubmitInv, RowInv, HeldInv, ExclusiveHandoff, HandoffToOwner, Holds
<1>13. QED
    BY <1>1, <1>2, <1>3, <1>4, <1>5, <1>6, <1>7, <1>8, <1>9, <1>10, <1>11, <1>12
       DEF Next, SubmitStep, HandlerStep, ClientStep, Finding, SubmitReturns, ClientLeaves

\* For every job, at most one handler holds it, and none once an agent has
\* decoded it: pollJobs never hands a job over twice.
THEOREM HandedOverOnce == Spec => []ExclusiveHandoff
<1>1. HandoffInv => ExclusiveHandoff
    BY DEF HandoffInv
<1>2. QED
    BY <1>1, HandoffInit, HandoffStep, PTL DEF Spec

\* The agent that decodes a job is the agent of the provider the job was
\* assigned to, whichever wakeup let its poll through.
THEOREM HandedToOwner == Spec => []HandoffToOwner
<1>1. HandoffInv => HandoffToOwner
    BY DEF HandoffInv
<1>2. QED
    BY <1>1, HandoffInit, HandoffStep, PTL DEF Spec

-----------------------------------------------------------------------------
(* Rows only move forward, and stay with their provider.                    *)

\* No step takes a job row back or gives it to another provider.
LEMMA AdvanceStep == HandoffInv /\ [Next]_vars => [\A j \in JobIds : Advances(j)]_vars
<1> SUFFICES ASSUME HandoffInv, Next, NEW k \in JobIds PROVE Advances(k)
    OBVIOUS
<1> USE DEF Advances
<1>0. TypeOK /\ SubmitInv /\ RowInv /\ HeldInv
    BY DEF HandoffInv
<1>1. Rank(jobs[k].status) \in Nat
    BY <1>0 DEF TypeOK, JobRow, JobStatus, Rank
<1>2. CASE jobs'[k] = jobs[k]
    BY <1>1, <1>2
<1>3. ASSUME NEW j \in JobIds, InsertJob(j) PROVE Advances(k)
    <2>1. CASE k = j
        <3>1. jobs[k].status = "none" /\ jobs[k].provider = NoProvider
            BY <1>0, <1>3, <2>1 DEF InsertJob, SubmitInv, RowInv
        <3>2. jobs'[k].status = "pending"
            BY <1>0, <1>3, <2>1, InsertEffect
        <3>3. QED
            BY <3>1, <3>2 DEF Rank
    <2>2. CASE k # j
        BY <1>0, <1>2, <1>3, <2>2, InsertEffect DEF OtherRows
    <2>3. QED
        BY <2>1, <2>2
<1>4. ASSUME NEW j \in JobIds, AssignJob(j) PROVE Advances(k)
    <2>1. CASE k = j
        <3>1. jobs[k].status = "pending" /\ jobs[k].provider = NoProvider
            BY <1>0, <1>4, <2>1 DEF AssignJob, SubmitInv, RowInv
        <3>2. jobs'[k].status = "scheduled"
            BY <1>0, <1>4, <2>1, AssignEffect
        <3>3. QED
            BY <3>1, <3>2 DEF Rank
    <2>2. CASE k # j
        BY <1>0, <1>2, <1>4, <2>2, AssignEffect DEF OtherRows
    <2>3. QED
        BY <2>1, <2>2
<1>5. ASSUME NEW p \in Providers, NEW s \in Slots, CommitJob(p, s) PROVE Advances(k)
    <2>1. CASE k = polls[p][s].job
        <3>1. jobs[k].status = "scheduled"
            BY <1>0, <1>5, <2>1 DEF CommitJob, HeldInv
        <3>2. jobs'[k].status = "running" /\ jobs'[k].provider = jobs[k].provider
            BY <1>0, <1>5, <2>1, CommitEffect
        <3>3. QED
            BY <3>1, <3>2 DEF Rank
    <2>2. CASE k # polls[p][s].job
        BY <1>0, <1>2, <1>5, <2>2, CommitEffect DEF OtherRows
    <2>3. QED
        BY <2>1, <2>2
<1>6. CASE UNCHANGED jobs
    BY <1>2, <1>6
<1>7. \/ \E j \in JobIds : InsertJob(j) \/ AssignJob(j)
      \/ \E p \in Providers, s \in Slots : CommitJob(p, s)
      \/ UNCHANGED jobs
    <2>1. CASE \E j \in JobIds : SubmitStep(j)
        <3>1. PICK j \in JobIds : SubmitStep(j)
            BY <2>1
        <3>2. InsertJob(j) \/ AssignJob(j) \/ UNCHANGED jobs
            BY <3>1 DEF SubmitStep, FindProvider, NoProviderFits, PushJob, PushJobResent,
                        PushUnacknowledged, SubmitFails
        <3>3. QED
            BY <3>2
    <2>2. CASE \E p \in Providers, s \in Slots : HandlerStep(p, s)
        <3>1. PICK p \in Providers, s \in Slots : HandlerStep(p, s)
            BY <2>2
        <3>2. CommitJob(p, s) \/ UNCHANGED jobs
            BY <3>1 DEF HandlerStep, PopJob, PopEmpty, PopReplyLost, SelectJob,
                        NoJobFound, ClaimFails, Respond, RespondLost
        <3>3. QED
            BY <3>2
    <2>3. CASE \E p \in Providers : ClientStep(p)
        BY <2>3 DEF ClientStep, StartPoll, ClientGivesUp, AgentStops
    <2>4. CASE \E j \in JobIds : BuyerLeaves(j)
        BY <2>4 DEF BuyerLeaves
    <2>5. QED
        BY <1>2, <2>1, <2>2, <2>3, <2>4 DEF Next
<1>8. QED
    BY <1>3, <1>4, <1>5, <1>6, <1>7

\* The unguarded UPDATEs of AssignJob and NextPendingJob never take a row back
\* to an earlier status, nor to another provider.
THEOREM RowsAdvance == Spec => NoRegress
<1>1. QED
    BY HandoffInit, HandoffStep, AdvanceStep, PTL DEF Spec, NoRegress

-----------------------------------------------------------------------------
(* Scheduler implements JobLifecycle.                                       *)

Held(j) == \E p \in Providers, s \in Slots : Holds(p, s, j)
Got(j) == {p \in Providers : <<j, p>> \in received}

\* A job's phase changes only with its row, its delivery, or the handler that
\* holds it once it is running.
LEMMA PhaseStutters ==
    ASSUME NEW j \in JobIds, jobs'[j] = jobs[j], Got(j)' = Got(j),
           jobs[j].status = "running" => (Held(j)' <=> Held(j))
    PROVE  Phase(j)' = Phase(j)
<1>1. (\E p \in Providers : <<j, p>> \in received') <=> Got(j)' # {}
    BY DEF Got
<1>2. (\E p \in Providers : <<j, p>> \in received) <=> Got(j) # {}
    BY DEF Got
<1>3. QED
    BY <1>1, <1>2 DEF Phase, Held

\* The mapped state of one job; the abstract functions are made of these.
MapPhase == [j \in JobIds |-> Phase(j)]
MapOwner == [j \in JobIds |-> jobs[j].provider]
MapGot == [j \in JobIds |-> Got(j)]

Stutters(j) == Phase(j)' = Phase(j) /\ jobs'[j].provider = jobs[j].provider /\ Got(j)' = Got(j)

\* A step that changes nothing of any job's life is a stutter of JobLifecycle.
LEMMA StutterStep ==
    ASSUME \A j \in JobIds : Stutters(j)
    PROVE  UNCHANGED <<MapPhase, MapOwner, MapGot>>
BY DEF Stutters, MapPhase, MapOwner, MapGot

\* A step that leaves rows and hand-overs alone is a stutter of JobLifecycle.
LEMMA QuietStep ==
    ASSUME UNCHANGED <<jobs, received>>,
           \A j \in JobIds : jobs[j].status = "running" => (Held(j)' <=> Held(j))
    PROVE  UNCHANGED <<MapPhase, MapOwner, MapGot>>
<1>1. ASSUME NEW j \in JobIds PROVE Stutters(j)
    <2>1. jobs'[j] = jobs[j] /\ Got(j)' = Got(j)
        BY DEF Got
    <2>2. QED
        BY <2>1, PhaseStutters DEF Stutters
<1>2. QED
    BY <1>1, StutterStep

\* One job k moves, in the way of one of JobLifecycle's actions; the rest stay.
LEMMA MoveStep ==
    ASSUME NEW k \in JobIds, \A j \in JobIds : j # k => Stutters(j)
    PROVE  /\ MapPhase' = [MapPhase EXCEPT ![k] = Phase(k)']
           /\ MapOwner' = [MapOwner EXCEPT ![k] = jobs'[k].provider]
           /\ MapGot' = [MapGot EXCEPT ![k] = Got(k)']
BY DEF Stutters, MapPhase, MapOwner, MapGot

\* The initial states map to those of JobLifecycle.
LEMMA LifecycleInit == Init => Lifecycle!Init
BY DEF Init, Lifecycle!Init, Phase, NoRow

\* Every step maps to a step of JobLifecycle or to a stutter.
LEMMA LifecycleStep == HandoffInv /\ [Next]_vars => [Lifecycle!Next]_(Lifecycle!vars)
<1> SUFFICES ASSUME HandoffInv, [Next]_vars
             PROVE  [Lifecycle!Next]_(Lifecycle!vars)
    OBVIOUS
<1>0. /\ TypeOK /\ SubmitInv /\ RowInv /\ HeldInv /\ ExclusiveHandoff /\ HandoffToOwner
      /\ \A q \in Providers, t \in Slots :
             polls[q][t].stage \in {"commit", "respond"} => polls[q][t].job \in JobIds
    BY DEF HandoffInv, TypeOK
<1>a. ASSUME UNCHANGED <<MapPhase, MapOwner, MapGot>> PROVE UNCHANGED Lifecycle!vars
    BY <1>a DEF Lifecycle!vars, MapPhase, MapOwner, MapGot, Got
<1>1. ASSUME UNCHANGED <<jobs, received, polls>> PROVE UNCHANGED <<MapPhase, MapOwner, MapGot>>
    <2>1. \A j \in JobIds : Held(j)' <=> Held(j)
        BY <1>1 DEF Held, Holds
    <2>2. QED
        BY <1>1, <2>1, QuietStep
<1>2. ASSUME NEW j \in JobIds, InsertJob(j) PROVE UNCHANGED <<MapPhase, MapOwner, MapGot>>
    <2>1. ASSUME NEW k \in JobIds PROVE Stutters(k)
        <3>1. Got(k)' = Got(k) /\ (Held(k)' <=> Held(k))
            BY <1>2 DEF InsertJob, Got, Held, Holds
        <3>2. CASE k = j
            <4>1. jobs[k].status = "none" /\ jobs[k].provider = NoProvider
                BY <1>0, <1>2, <3>2 DEF InsertJob, SubmitInv, RowInv
            <4>2. jobs'[k].status = "pending" /\ jobs'[k].provider = NoProvider
                BY <1>0, <1>2, <3>2, InsertEffect
            <4>3. QED
                BY <3>1, <4>1, <4>2 DEF Stutters, Phase
        <3>3. CASE k # j
            <4>1. jobs'[k] = jobs[k]
                BY <1>0, <1>2, <3>3, InsertEffect DEF OtherRows
            <4>2. QED
                BY <3>1, <4>1, PhaseStutters DEF Stutters
        <3>4. QED
            BY <3>2, <3>3
    <2>2. QED
        BY <2>1, StutterStep
<1>3. ASSUME NEW j \in JobIds, AssignJob(j) PROVE Lifecycle!Next
    <2>0. PICK p \in Providers : p = submits[j].target
        BY <1>0, <1>3 DEF AssignJob, SubmitInv
    <2>1. ASSUME NEW k \in JobIds, k # j PROVE Stutters(k)
        <3>1. Got(k)' = Got(k) /\ (Held(k)' <=> Held(k))
            BY <1>3 DEF AssignJob, Got, Held, Holds
        <3>2. jobs'[k] = jobs[k]
            BY <1>0, <1>3, <2>1, AssignEffect DEF OtherRows
        <3>3. QED
            BY <3>1, <3>2, PhaseStutters DEF Stutters
    <2>2. Phase(j) = "unplaced"
        BY <1>0, <1>3 DEF AssignJob, SubmitInv, Phase
    <2>3. Phase(j)' = "placed" /\ jobs'[j].provider = p
        BY <1>0, <1>3, <2>0, AssignEffect DEF Phase
    <2>4. MapGot' = MapGot
        BY <1>3 DEF AssignJob, MapGot, Got
    <2>5. Lifecycle!Place(j, p)
        BY <2>1, <2>2, <2>3, <2>4, MoveStep
           DEF Lifecycle!Place, MapPhase, MapOwner, MapGot, Got
    <2>6. QED
        BY <2>2, <2>5 DEF Lifecycle!Next
<1>4. ASSUME NEW p \in Providers, NEW s \in Slots, CommitJob(p, s) PROVE Lifecycle!Next
    <2>0. PICK j \in JobIds : j = polls[p][s].job
        BY <1>0, <1>4 DEF CommitJob
    <2>1. /\ polls[p][s].stage = "commit" /\ polls[p][s].job = j
          /\ jobs[j].status = "scheduled"
          /\ polls'[p][s].stage = "respond" /\ polls'[p][s].job = j
          /\ jobs'[j].status = "running" /\ jobs'[j].provider = jobs[j].provider
          /\ OtherRows(j) /\ Elsewhere(p, s)
          /\ received' = received
        <3>1. polls[p][s].stage = "commit" /\ received' = received
            BY <1>4 DEF CommitJob
        <3>2. jobs[j].status = "scheduled"
            BY <1>0, <2>0, <3>1 DEF HeldInv
        <3>3. QED
            BY <1>0, <1>4, <2>0, <3>1, <3>2, CommitEffect
    <2>2. ASSUME NEW k \in JobIds, k # j PROVE Stutters(k)
        <3>1. Got(k)' = Got(k) /\ jobs'[k] = jobs[k]
            BY <2>1, <2>2 DEF Got, OtherRows
        <3>2. Held(k)' <=> Held(k)
            BY <2>1, <2>2 DEF Held, Holds, Elsewhere
        <3>3. QED
            BY <3>1, <3>2, PhaseStutters DEF Stutters
    <2>3. Phase(j) = "placed"
        BY <2>1 DEF Phase
    <2>4. \A q \in Providers : <<j, q>> \notin received
        BY <1>0, <2>1 DEF HandoffToOwner
    <2>5. Held(j)'
        BY <2>1 DEF Held, Holds
    <2>6. Phase(j)' = "handed"
        BY <2>1, <2>4, <2>5 DEF Phase, Held
    <2>7. MapGot' = MapGot
        BY <2>1 DEF MapGot, Got
    <2>8. Lifecycle!HandOver(j)
        BY <2>1, <2>2, <2>3, <2>6, <2>7, MoveStep
           DEF Lifecycle!HandOver, MapPhase, MapOwner, MapGot, Got
    <2>9. QED
        BY <2>1, <2>8 DEF Lifecycle!Next
<1>5. ASSUME NEW p \in Providers, NEW s \in Slots, Respond(p, s) \/ RespondLost(p, s)
      PROVE  Lifecycle!Next
    <2>0. PICK j \in JobIds : j = polls[p][s].job
        BY <1>0, <1>5 DEF Respond, RespondLost
    <2>1. /\ polls[p][s].stage = "respond" /\ polls[p][s].job = j
          /\ jobs[j].status = "running" /\ jobs[j].provider = p
          /\ jobs' = jobs
          /\ polls'[p][s].stage = "free" /\ Elsewhere(p, s)
        BY <1>0, <1>5, <2>0, ReturnEffect
           DEF Respond, RespondLost, HeldInv, HandlerReturns
    <2>2. \A q \in Providers, t \in Slots : Holds(q, t, j) => q = p /\ t = s
        BY <1>0, <2>1 DEF ExclusiveHandoff, Holds
    <2>3. \A q \in Providers : <<j, q>> \notin received
        BY <1>0, <2>1 DEF ExclusiveHandoff, Holds
    <2>4. ~ Held(j)'
        BY <2>1, <2>2 DEF Held, Holds, Elsewhere
    <2>5. Phase(j) = "handed"
        <3>1. Held(j)
            BY <2>1 DEF Held, Holds
        <3>2. QED
            BY <2>1, <2>3, <3>1 DEF Phase, Held
    <2>6. ASSUME NEW k \in JobIds, k # j PROVE Stutters(k)
        <3>1. Got(k)' = Got(k)
            BY <1>5, <2>0, <2>6 DEF Respond, RespondLost, Got
        <3>2. Held(k)' <=> Held(k)
            BY <2>1, <2>6 DEF Held, Holds, Elsewhere
        <3>3. QED
            BY <2>1, <3>1, <3>2, PhaseStutters DEF Stutters
    <2>7. CASE Respond(p, s)
        <3>1. received' = received \cup {<<j, p>>}
            BY <2>0, <2>7 DEF Respond
        <3>2. Got(j)' = {p}
            BY <2>3, <3>1 DEF Got
        <3>3. Phase(j)' = "delivered"
            BY <2>1, <3>1 DEF Phase
        <3>4. MapOwner' = MapOwner
            BY <2>1 DEF MapOwner
        <3>5. Lifecycle!Deliver(j)
            BY <2>1, <2>5, <2>6, <3>2, <3>3, <3>4, MoveStep
               DEF Lifecycle!Deliver, MapPhase, MapOwner, MapGot, Got
        <3>6. QED
            BY <2>1, <3>5 DEF Lifecycle!Next
    <2>8. CASE RespondLost(p, s)
        <3>1. received' = received
            BY <2>8 DEF RespondLost
        <3>2. Phase(j)' = "dropped"
            BY <2>1, <2>3, <2>4, <3>1 DEF Phase, Held
        <3>3. MapOwner' = MapOwner /\ MapGot' = MapGot
            BY <2>1, <3>1 DEF MapOwner, MapGot, Got
        <3>4. Lifecycle!Drop(j)
            BY <2>1, <2>5, <2>6, <3>2, <3>3, MoveStep
               DEF Lifecycle!Drop, MapPhase, MapOwner, MapGot, Got
        <3>5. QED
            BY <2>1, <3>4 DEF Lifecycle!Next
    <2>9. QED
        BY <1>5, <2>7, <2>8
<1>6. ASSUME NEW p \in Providers, NEW s \in Slots,
             PopJob(p, s) \/ PopEmpty(p, s) \/ SelectJob(p, s) \/ NoJobFound(p, s)
                 \/ ClaimFails(p, s) \/ StartPoll(p, s)
      PROVE  UNCHANGED <<MapPhase, MapOwner, MapGot>>
    <2>1. UNCHANGED <<jobs, received>> /\ Elsewhere(p, s)
        BY <1>0, <1>6, PopEffect, SelectEffect, ReturnEffect, StartEffect
           DEF HandlerReturns, PopJob, PopEmpty, SelectJob, NoJobFound, ClaimFails, StartPoll
    <2>2. polls[p][s].stage # "respond" /\ polls'[p][s].stage # "respond"
        BY <1>0, <1>6, PopEffect, SelectEffect, ReturnEffect, StartEffect
           DEF HandlerReturns, PopJob, PopEmpty, SelectJob, NoJobFound, ClaimFails, StartPoll
    <2>3. polls'[p][s].stage = "commit" => jobs[polls'[p][s].job].status = "scheduled"
        BY <1>0, <1>6, PopEffect, SelectEffect, ReturnEffect, StartEffect
           DEF HandlerReturns, Candidates, Scheduled
    <2>4. \A j \in JobIds : jobs[j].status = "running" => (Held(j)' <=> Held(j))
        BY <1>0, <2>1, <2>2, <2>3 DEF Held, Holds, Elsewhere, HeldInv
    <2>5. QED
        BY <2>1, <2>4, QuietStep
<1>7. ASSUME NEW p \in Providers, ClientLeaves(p)
      PROVE  UNCHANGED <<MapPhase, MapOwner, MapGot>>
    <2>1. UNCHANGED <<jobs, received>>
        BY <1>7 DEF ClientLeaves, AgentStops, ClientGivesUp
    <2>2. \A j \in JobIds : Held(j)' <=> Held(j)
        BY <1>0, <1>7, LeaveEffect DEF Held, Holds
    <2>3. QED
        BY <2>1, <2>2, QuietStep
<1>8. CASE UNCHANGED <<jobs, received, polls>>
    BY <1>1, <1>8, <1>a
<1>9. QED
    BY <1>2, <1>3, <1>4, <1>5, <1>6, <1>7, <1>8, <1>a
       DEF Next, SubmitStep, HandlerStep, ClientStep, ClientLeaves, vars,
           FindProvider, NoProviderFits, PushJob, PushJobResent, PushUnacknowledged,
           SubmitFails, BuyerLeaves, PopReplyLost

\* Every behaviour of the deploy path is one JobLifecycle allows: placed once,
\* handed over at most once, and only to the agent of the job's provider.
THEOREM Implements == Spec => ImplementsLifecycle
<1>1. QED
    BY HandoffInit, HandoffStep, LifecycleInit, LifecycleStep, PTL
       DEF Spec, ImplementsLifecycle, Lifecycle!Spec
=============================================================================
