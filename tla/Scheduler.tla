----------------------------- MODULE Scheduler -----------------------------
(***************************************************************************)
(* The deploy path of the control plane: a buyer's POST /deploy            *)
(* (Scheduler.Submit), the Redis list of wakeups each provider has, the    *)
(* provider's long poll (pollJobs, PollForProvider, NextPendingJob) and    *)
(* the poll loop of the provider's agent.                                  *)
(*                                                                         *)
(* Every statement to Postgres, every command to Redis and every HTTP      *)
(* answer is one atomic step; Submit and pollJobs are goroutines whose     *)
(* steps interleave freely.  A wakeup in a Redis list carries a job id,    *)
(* but PollForProvider only looks whether it got one: the job it returns   *)
(* is whatever NextPendingJob finds, so wakeups and jobs are matched by    *)
(* number, never by name.                                                  *)
(*                                                                         *)
(* A crash of the control plane ends its goroutines one by one with the    *)
(* failure step of the stage each is in; Postgres and Redis keep theirs.   *)
(***************************************************************************)
EXTENDS Integers, Sequences, FiniteSets

CONSTANTS
    Providers,      \* ids in the providers table
    NoProvider,     \* provider_id of a job that was never assigned ('')
    Slots,          \* bound: poll requests of one provider in flight at once
    MaxJobs,        \* bound: calls of Submit that find a provider or fail to
    ProviderRows,   \* the rows BestProvider may read: status, cpu, free memory
    Requests,       \* the cpu and memory a buyer may ask for
    Faults,         \* whether a store or the network may fail
    MaxResent       \* bound: LPUSHes the Redis client sends twice, per provider

ASSUME NoProviderAssumption == NoProvider \notin Providers
ASSUME SlotsAssumption == IsFiniteSet(Slots)
ASSUME MaxJobsAssumption == MaxJobs \in Nat
ASSUME MaxResentAssumption == MaxResent \in Nat
ASSUME FaultsAssumption == Faults \in BOOLEAN

VARIABLES
    calls,      \* how many calls of Submit have begun
    jobs,       \* the jobs table; "none" is a row that is not there
    queue,      \* queue[p]: the Redis list of p, oldest wakeup first
    submits,    \* submits[j]: the goroutine of the j-th Submit
    polls,      \* polls[p][s]: the pollJobs goroutines serving p
    received,   \* <<j, p>> once the agent of p has decoded job j
    gone,       \* providers whose agent process has ended for good
    resent,     \* resent[p]: how many wakeups the Redis client duplicated
    spilled,    \* spilled[p]: wakeups that ended without a job handed over
    left        \* calls of Submit whose buyer has disconnected

vars == <<calls, jobs, queue, submits, polls, received, gone, resent, spilled, left>>

JobIds == 1 .. MaxJobs
NoJob == 0
ZeroTime == 0       \* Submit leaves store.Job.CreatedAt at Go's zero time

JobStatus == {"none", "pending", "scheduled", "running"}
SubmitStage == {"idle", "insert", "assign", "push", "accepted", "rejected"}
PollStage == {"free", "pop", "select", "commit", "respond"}
ClientState == {"waiting", "away"}

JobRow == [status : JobStatus, provider : Providers \cup {NoProvider},
           createdAt : {ZeroTime}]
SubmitState == [stage : SubmitStage, target : Providers \cup {NoProvider}]
PollState == [stage : PollStage, job : JobIds \cup {NoJob}, client : ClientState]

NoRow == [status |-> "none", provider |-> NoProvider, createdAt |-> ZeroTime]
NotCalled == [stage |-> "idle", target |-> NoProvider]
FreeSlot == [stage |-> "free", job |-> NoJob, client |-> "away"]

Init ==
    /\ calls = 0
    /\ jobs = [j \in JobIds |-> NoRow]
    /\ queue = [p \in Providers |-> <<>>]
    /\ submits = [j \in JobIds |-> NotCalled]
    /\ polls = [p \in Providers |-> [s \in Slots |-> FreeSlot]]
    /\ received = {}
    /\ gone = {}
    /\ resent = [p \in Providers |-> 0]
    /\ spilled = [p \in Providers |-> 0]
    /\ left = {}

-----------------------------------------------------------------------------
(* Submit: BestProvider, InsertJob, AssignJob, PushJob, in that order.      *)
(* The rows of the providers table belong to the registry: here they are    *)
(* whatever they are when BestProvider's SELECT runs.                       *)

Fits(row, req) ==
    /\ row.status = "online"
    /\ row.cpuCores >= req.cpuCores
    /\ row.memFree >= req.memory

BestProviders(rows, req) ==
    LET fitting == {p \in Providers : Fits(rows[p], req)}
    IN  {p \in fitting : \A q \in fitting : rows[q].memFree <= rows[p].memFree}

FindProvider(j, rows, req) ==
    /\ j = calls + 1
    /\ calls' = j
    /\ \E p \in BestProviders(rows, req) :
           submits' = [submits EXCEPT ![j] = [stage |-> "insert", target |-> p]]
    /\ UNCHANGED <<jobs, queue, polls, received, gone, resent, spilled, left>>

NoProviderFits(j, rows, req) ==
    /\ j = calls + 1
    /\ calls' = j
    /\ BestProviders(rows, req) = {}
    /\ submits' = [submits EXCEPT ![j].stage = "rejected"]
    /\ UNCHANGED <<jobs, queue, polls, received, gone, resent, spilled, left>>

\* Mutant: the row is inserted with a status no query knows.
MutInsertQueued(j) ==
    /\ submits[j].stage = "insert"
    /\ submits' = [submits EXCEPT ![j].stage = "assign"]
    /\ jobs' = [jobs EXCEPT ![j].status = "queued"]
    /\ UNCHANGED <<calls, queue, polls, received, gone, resent, spilled, left>>

InsertJob(j) ==
    /\ submits[j].stage = "insert"
    /\ submits' = [submits EXCEPT ![j].stage = "assign"]
    /\ jobs' = [jobs EXCEPT ![j] = [status |-> "pending", provider |-> NoProvider,
                                    createdAt |-> ZeroTime]]
    /\ UNCHANGED <<calls, queue, polls, received, gone, resent, spilled, left>>

\* Mutant: the UPDATE names the provider and forgets the status.
MutAssignLeavesPending(j) ==
    /\ submits[j].stage = "assign"
    /\ submits' = [submits EXCEPT ![j].stage = "push"]
    /\ jobs' = [jobs EXCEPT ![j].provider = submits[j].target]
    /\ UNCHANGED <<calls, queue, polls, received, gone, resent, spilled, left>>

AssignJob(j) ==
    /\ submits[j].stage = "assign"
    /\ submits' = [submits EXCEPT ![j].stage = "push"]
    /\ jobs' = [jobs EXCEPT ![j].status = "scheduled",
                            ![j].provider = submits[j].target]
    /\ UNCHANGED <<calls, queue, polls, received, gone, resent, spilled, left>>

\* Mutant: the wakeup goes to a key that no poll of the provider reads.
MutPushElsewhere(j) ==
    /\ submits[j].stage = "push"
    /\ submits' = [submits EXCEPT ![j].stage = "accepted"]
    /\ UNCHANGED <<calls, jobs, queue, polls, received, gone, resent, spilled, left>>

PushJob(j) ==
    LET p == submits[j].target IN
    /\ submits[j].stage = "push"
    /\ submits' = [submits EXCEPT ![j].stage = "accepted"]
    /\ queue' = [queue EXCEPT ![p] = Append(@, j)]
    /\ UNCHANGED <<calls, jobs, polls, received, gone, resent, spilled, left>>

\* go-redis retries a command whose connection broke: the list gets j twice.
PushJobResent(j) ==
    LET p == submits[j].target IN
    /\ Faults
    /\ submits[j].stage = "push"
    /\ resent[p] < MaxResent
    /\ submits' = [submits EXCEPT ![j].stage = "accepted"]
    /\ queue' = [queue EXCEPT ![p] = Append(Append(@, j), j)]
    /\ resent' = [resent EXCEPT ![p] = @ + 1]
    /\ UNCHANGED <<calls, jobs, polls, received, gone, spilled, left>>

\* The LPUSH took effect but its reply never came: the buyer is told 503.
PushUnacknowledged(j) ==
    LET p == submits[j].target IN
    /\ Faults
    /\ submits[j].stage = "push"
    /\ submits' = [submits EXCEPT ![j].stage = "rejected"]
    /\ queue' = [queue EXCEPT ![p] = Append(@, j)]
    /\ UNCHANGED <<calls, jobs, polls, received, gone, resent, spilled, left>>

\* The buyer's connection ends while Submit works on the request's context.
BuyerLeaves(j) ==
    /\ submits[j].stage \in {"insert", "assign", "push"}
    /\ j \notin left
    /\ left' = left \cup {j}
    /\ UNCHANGED <<calls, jobs, queue, submits, polls, received, gone, resent, spilled>>

\* A statement failed without effect, or was refused because the context is
\* cancelled, its buyer being gone: Submit returns, undoing nothing.
SubmitFails(j) ==
    LET p == submits[j].target IN
    /\ Faults \/ j \in left
    /\ submits[j].stage \in {"insert", "assign", "push"}
    /\ submits' = [submits EXCEPT ![j].stage = "rejected"]
    /\ spilled' = IF submits[j].stage = "push"
                  THEN [spilled EXCEPT ![p] = @ + 1] ELSE spilled
    /\ UNCHANGED <<calls, jobs, queue, polls, received, gone, resent, left>>

-----------------------------------------------------------------------------
(* The poll loop of the agent and the pollJobs handler behind it.           *)

\* The agent's loop is sequential: one poll of its own at a time.  A poll it
\* gave up on may still be served by the control plane.
Waiting(p) == \E s \in Slots : polls[p][s].client = "waiting"

StartPoll(p, s) ==
    /\ p \notin gone
    /\ ~ Waiting(p)
    /\ polls[p][s].stage = "free"
    /\ polls' = [polls EXCEPT ![p][s] = [stage |-> "pop", job |-> NoJob, client |-> "waiting"]]
    /\ UNCHANGED <<calls, jobs, queue, submits, received, gone, resent, spilled, left>>

\* The HTTP client times out (15 s, before the 25 s of the server's BRPOP).
ClientGivesUp(p, s) ==
    /\ polls[p][s].client = "waiting"
    /\ polls' = [polls EXCEPT ![p][s].client = "away"]
    /\ UNCHANGED <<calls, jobs, queue, submits, received, gone, resent, spilled, left>>

\* The agent process ends.  Its successor registers anew, under another id.
AgentStops(p) ==
    /\ p \notin gone
    /\ gone' = gone \cup {p}
    /\ polls' = [polls EXCEPT ![p] = [s \in Slots |-> [@[s] EXCEPT !.client = "away"]]]
    /\ UNCHANGED <<calls, jobs, queue, submits, received, resent, spilled, left>>

\* BRPOP returns a wakeup, also to a handler whose client is gone: the Redis
\* client does not interrupt a blocked command when the request is cancelled.
PopJob(p, s) ==
    /\ polls[p][s].stage = "pop"
    /\ queue[p] # <<>>
    /\ queue' = [queue EXCEPT ![p] = Tail(@)]
    /\ polls' = [polls EXCEPT ![p][s].stage = "select"]
    /\ UNCHANGED <<calls, jobs, submits, received, gone, resent, spilled, left>>

\* Mutant: a waitSec of zero, for which BRPOP blocks until a wakeup comes.
MutPopForever(p, s) ==
    /\ Faults
    /\ polls[p][s].stage = "pop"
    /\ polls' = [polls EXCEPT ![p][s] = FreeSlot]
    /\ UNCHANGED <<calls, jobs, queue, submits, received, gone, resent, spilled, left>>

\* BRPOP times out on an empty list (204), or fails (500).
PopEmpty(p, s) ==
    /\ polls[p][s].stage = "pop"
    /\ queue[p] = <<>> \/ Faults
    /\ polls' = [polls EXCEPT ![p][s] = FreeSlot]
    /\ UNCHANGED <<calls, jobs, queue, submits, received, gone, resent, spilled, left>>

\* BRPOP took effect, its reply was lost, and the Redis client sends it again.
PopReplyLost(p, s) ==
    /\ Faults
    /\ polls[p][s].stage = "pop"
    /\ queue[p] # <<>>
    /\ queue' = [queue EXCEPT ![p] = Tail(@)]
    /\ spilled' = [spilled EXCEPT ![p] = @ + 1]
    /\ UNCHANGED <<calls, jobs, submits, polls, received, gone, resent, left>>

Scheduled(p) == {j \in JobIds : jobs[j].status = "scheduled" /\ jobs[j].provider = p}

\* Rows that NextPendingJob's FOR UPDATE holds until its transaction ends.
Locked(p) == {polls[p][s].job : s \in {t \in Slots : polls[p][t].stage = "commit"}}

\* Mutant: the SELECT takes no row lock.
MutCandidatesUnlocked(p) == Scheduled(p)

\* Mutant: the SELECT forgets provider_id=$1.
MutCandidatesOfAnyone(p) == {j \in JobIds : jobs[j].status = "scheduled"} \ Locked(p)

\* Mutant: the SELECT looks for 'pending' rows, as its comment says.
MutCandidatesPending(p) ==
    {j \in JobIds : jobs[j].status = "pending" /\ jobs[j].provider = p} \ Locked(p)

\* SKIP LOCKED: the rows another transaction holds are not waited for.
Candidates(p) == Scheduled(p) \ Locked(p)

Oldest(S) == {j \in S : \A k \in S : jobs[j].createdAt <= jobs[k].createdAt}

SelectJob(p, s) ==
    /\ polls[p][s].stage = "select"
    /\ \E j \in Oldest(Candidates(p)) :
           polls' = [polls EXCEPT ![p][s] = [@ EXCEPT !.stage = "commit", !.job = j]]
    /\ UNCHANGED <<calls, jobs, queue, submits, received, gone, resent, spilled, left>>

NoJobFound(p, s) ==
    /\ polls[p][s].stage = "select"
    /\ Candidates(p) = {}
    /\ polls' = [polls EXCEPT ![p][s] = FreeSlot]
    /\ spilled' = [spilled EXCEPT ![p] = @ + 1]
    /\ UNCHANGED <<calls, jobs, queue, submits, received, gone, resent, left>>

\* Mutant: the row is marked 'scheduled', as the comment of NextPendingJob says.
MutCommitKeepsScheduled(p, s) ==
    /\ polls[p][s].stage = "commit"
    /\ polls' = [polls EXCEPT ![p][s].stage = "respond"]
    /\ UNCHANGED <<calls, jobs, queue, submits, received, gone, resent, spilled, left>>

\* The transaction's UPDATE becomes visible and its row lock ends.
CommitJob(p, s) ==
    /\ polls[p][s].stage = "commit"
    /\ polls' = [polls EXCEPT ![p][s].stage = "respond"]
    /\ jobs' = [jobs EXCEPT ![polls[p][s].job].status = "running"]
    /\ UNCHANGED <<calls, queue, submits, received, gone, resent, spilled, left>>

\* A database call fails, or the request's context is cancelled because its
\* client is gone: the transaction rolls back, the wakeup is not put back.
ClaimFails(p, s) ==
    /\ polls[p][s].stage \in {"select", "commit"}
    /\ Faults \/ polls[p][s].client = "away"
    /\ polls' = [polls EXCEPT ![p][s] = FreeSlot]
    /\ spilled' = [spilled EXCEPT ![p] = @ + 1]
    /\ UNCHANGED <<calls, jobs, queue, submits, received, gone, resent, left>>

Respond(p, s) ==
    /\ polls[p][s].stage = "respond"
    /\ polls[p][s].client = "waiting"
    /\ polls' = [polls EXCEPT ![p][s] = FreeSlot]
    /\ received' = received \cup {<<polls[p][s].job, p>>}
    /\ UNCHANGED <<calls, jobs, queue, submits, gone, resent, spilled, left>>

\* Mutant: a job whose answer was lost is put back for the next poll.
MutRespondLostRequeues(p, s) ==
    /\ polls[p][s].stage = "respond"
    /\ Faults \/ polls[p][s].client = "away"
    /\ polls' = [polls EXCEPT ![p][s] = FreeSlot]
    /\ jobs' = [jobs EXCEPT ![polls[p][s].job].status = "scheduled"]
    /\ UNCHANGED <<calls, queue, submits, received, gone, resent, spilled, left>>

\* The answer does not arrive, or the commit was not acknowledged (500): the
\* job is 'running' and no agent has it.
RespondLost(p, s) ==
    /\ polls[p][s].stage = "respond"
    /\ Faults \/ polls[p][s].client = "away"
    /\ polls' = [polls EXCEPT ![p][s] = FreeSlot]
    /\ UNCHANGED <<calls, jobs, queue, submits, received, gone, resent, spilled, left>>

-----------------------------------------------------------------------------
SubmitStep(j) ==
    \/ \E rows \in [Providers -> ProviderRows], req \in Requests :
           FindProvider(j, rows, req) \/ NoProviderFits(j, rows, req)
    \/ InsertJob(j)
    \/ AssignJob(j)
    \/ PushJob(j)
    \/ PushJobResent(j)
    \/ PushUnacknowledged(j)
    \/ SubmitFails(j)

HandlerStep(p, s) ==
    \/ PopJob(p, s)
    \/ PopEmpty(p, s)
    \/ PopReplyLost(p, s)
    \/ SelectJob(p, s)
    \/ NoJobFound(p, s)
    \/ CommitJob(p, s)
    \/ ClaimFails(p, s)
    \/ Respond(p, s)
    \/ RespondLost(p, s)

ClientStep(p) ==
    \/ \E s \in Slots : StartPoll(p, s) \/ ClientGivesUp(p, s)
    \/ AgentStops(p)

Next ==
    \/ \E j \in JobIds : SubmitStep(j)
    \/ \E p \in Providers, s \in Slots : HandlerStep(p, s)
    \/ \E p \in Providers : ClientStep(p)
    \/ \E j \in JobIds : BuyerLeaves(j)

Spec == Init /\ [][Next]_vars

\* Goroutines run on and BRPOP ends by itself; a live agent's loop polls again.
\* No buyer is obliged to call or to leave, no client to wait or to give up.
Fairness ==
    /\ \A j \in JobIds : WF_vars(InsertJob(j) \/ AssignJob(j) \/ PushJob(j))
    /\ \A p \in Providers, s \in Slots : WF_vars(HandlerStep(p, s))
    /\ \A p \in Providers : WF_vars(\E s \in Slots : StartPoll(p, s))

FairSpec == Spec /\ Fairness

-----------------------------------------------------------------------------
(* Properties.                                                              *)

\* Types of the tables, the lists and the goroutines' local state; what
\* InsertJob, AssignJob and the pollJobs handlers write stays in the columns'
\* documented values.
TypeOK ==
    /\ calls \in 0 .. MaxJobs
    /\ jobs \in [JobIds -> JobRow]
    /\ queue \in [Providers -> Seq(JobIds)]
    /\ submits \in [JobIds -> SubmitState]
    /\ polls \in [Providers -> [Slots -> PollState]]
    /\ \A p \in Providers, s \in Slots :
           polls[p][s].stage \in {"commit", "respond"} => polls[p][s].job \in JobIds
    /\ received \subseteq JobIds \X Providers
    /\ gone \subseteq Providers
    /\ resent \in [Providers -> Nat]
    /\ spilled \in [Providers -> Nat]
    /\ left \subseteq JobIds

Holds(p, s, j) == polls[p][s].stage \in {"commit", "respond"} /\ polls[p][s].job = j

\* No job is handed over twice: two handlers never hold the same job, however
\* many polls (of the same agent, after a timeout) NextPendingJob serves at
\* once, and a job some agent has decoded is never held again.
ExclusiveHandoff ==
    /\ \A p, q \in Providers, s, t \in Slots, j \in JobIds :
           Holds(p, s, j) /\ Holds(q, t, j) => p = q /\ s = t
    /\ \A p, q \in Providers, s \in Slots, j \in JobIds :
           Holds(p, s, j) => <<j, q>> \notin received
    /\ \A p, q \in Providers, j \in JobIds :
           <<j, p>> \in received /\ <<j, q>> \in received => p = q

\* An agent only ever gets jobs that AssignJob gave to its provider, although
\* the wakeup that let its poll through may have been pushed for another job.
HandoffToOwner ==
    \A p \in Providers, j \in JobIds :
        <<j, p>> \in received => jobs[j].provider = p /\ jobs[j].status = "running"

Holders(p) == {s \in Slots : polls[p][s].stage \in {"select", "commit"}}
Pushing(p) == {j \in JobIds : submits[j].stage = "push" /\ submits[j].target = p}

\* Wakeups are conserved: those in the list, in the hands of a handler, about
\* to be pushed, or spilled by a failure are exactly the scheduled jobs of the
\* provider plus the duplicates the Redis client made.  Submit writes Postgres
\* before Redis and NextPendingJob consumes one of each, so nothing else can
\* unbalance the two stores.
WakeupsConserved ==
    \A p \in Providers :
        Len(queue[p]) + Cardinality(Holders(p)) + Cardinality(Pushing(p)) + spilled[p]
            = Cardinality(Scheduled(p)) + resent[p]

\* A poll that consumed a wakeup finds a job to return, unless the Redis
\* client duplicated a push: in particular SKIP LOCKED never makes it skip the
\* last row there is, and no wakeup overtakes the AssignJob it announces.
WokenFindsJob ==
    \A p \in Providers, s \in Slots :
        polls[p][s].stage = "select" /\ resent[p] = 0 => Candidates(p) # {}

Rank(status) ==
    CASE status = "none" -> 0 [] status = "pending" -> 1
      [] status = "scheduled" -> 2 [] status = "running" -> 3

Advances(j) ==
    /\ Rank(jobs[j].status) <= Rank(jobs'[j].status)
    /\ jobs[j].provider # NoProvider => jobs'[j].provider = jobs[j].provider

\* A job row only moves forward, and once AssignJob has named a provider the
\* job never moves to another one, whatever later fails (the statements of
\* AssignJob and NextPendingJob carry no guard on the status they replace).
NoRegress == [][\A j \in JobIds : Advances(j)]_vars

\* The job is marked running, but no handler and no agent has it any more.
Dropped(j) ==
    /\ jobs[j].status = "running"
    /\ \A p \in Providers : <<j, p>> \notin received
    /\ \A p \in Providers, s \in Slots : ~ Holds(p, s, j)

\* Nothing more is owed to the buyer of j, or the provider p cannot deliver it.
Settled(j, p) ==
    \/ <<j, p>> \in received
    \/ Dropped(j)
    \/ p \in gone
    \/ spilled[p] > 0

\* A job the buyer was told is dispatched reaches its agent, unless the agent's
\* process ends, the answer carrying it is lost, or its provider lost a wakeup.
AcceptedSettles ==
    \A j \in JobIds, p \in Providers :
        submits[j].stage = "accepted" /\ submits[j].target = p ~> Settled(j, p)

\* Somebody did not wait for the answer: the buyer of a Submit that is about to
\* push p's wakeup, or the client of a poll that holds one of p.
Abandoned(p) ==
    \/ \E j \in Pushing(p) : j \in left
    \/ \E s \in Holders(p) : polls[p][s].client = "away"

\* While stores and network work, wakeups and jobs are lost to disconnected
\* clients alone: a wakeup ends without a job only with a handler, between
\* BRPOP and commit, whose client is away, or with a Submit, between AssignJob
\* and PushJob, whose buyer has left; and a job that is marked running loses
\* its last holder only with a handler that answers a client that is away.
LossesAbandoned ==
    [][~ Faults =>
        /\ \A p \in Providers : spilled'[p] # spilled[p] => Abandoned(p)
        /\ \A j \in JobIds : Dropped(j)' /\ ~ Dropped(j) =>
               \E p \in Providers, s \in Slots :
                   Holds(p, s, j) /\ polls[p][s].client = "away"]_vars

\* An abandoned poll does not stay in the control plane for ever.
AbandonedPollEnds ==
    \A p \in Providers, s \in Slots :
        polls[p][s].stage # "free" /\ polls[p][s].client = "away"
            ~> polls[p][s].stage = "free"

\* "Wake up the provider via Redis queue" (scheduler.go:63): a job the buyer
\* was told is dispatched, and that no agent has been given, has a wakeup in
\* its provider's list, in the hands of a handler, or on its way to the list.
AcceptedHasWakeup ==
    \A j \in JobIds :
        submits[j].stage = "accepted" /\ jobs[j].status = "scheduled" =>
            \/ queue[submits[j].target] # <<>>
            \/ Holders(submits[j].target) # {}
            \/ Pushing(submits[j].target) # {}

\* What the deploy path promises about each job.
Phase(j) ==
    CASE jobs[j].status \in {"none", "pending"} -> "unplaced"
      [] jobs[j].status = "scheduled" -> "placed"
      [] jobs[j].status = "running" ->
            IF \E p \in Providers : <<j, p>> \in received THEN "delivered"
            ELSE IF \E p \in Providers, s \in Slots : Holds(p, s, j) THEN "handed"
            ELSE "dropped"

Lifecycle == INSTANCE JobLifecycle WITH
    Jobs <- JobIds,
    Owners <- Providers,
    NoOwner <- NoProvider,
    phase <- [j \in JobIds |-> Phase(j)],
    owner <- [j \in JobIds |-> jobs[j].provider],
    got <- [j \in JobIds |-> {p \in Providers : <<j, p>> \in received}]

\* The deploy path implements JobLifecycle: placed once, handed over at most
\* once, and only to the agent of the provider the job was placed on.
ImplementsLifecycle == Lifecycle!Spec

=============================================================================
