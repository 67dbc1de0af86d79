-------------------------- MODULE SchedulerWakeups --------------------------
(***************************************************************************)
(* Wakeups are conserved, so a woken poll finds a job: theorems about the  *)
(* counters that tie the Redis lists to the jobs table.                    *)
(***************************************************************************)
EXTENDS SchedulerProofs

\* Counting: one element more, one element less.

\* Adding a new element to a finite set adds one to its size.
LEMMA CountAdd ==
    ASSUME NEW S, NEW T, NEW x, IsFiniteSet(S), x \notin S, T = S \cup {x}
    PROVE  Cardinality(T) = Cardinality(S) + 1
BY FS_AddElement

\* Removing an element of a finite set takes one from its size.
LEMMA CountRemove ==
    ASSUME NEW S, NEW T, NEW x, IsFiniteSet(S), x \in S, T = S \ {x}
    PROVE  Cardinality(T) = Cardinality(S) - 1
BY FS_RemoveElement

\* The sets that the balance of wakeups counts are finite.
LEMMA FiniteParts ==
    ASSUME NEW q
    PROVE  IsFiniteSet(Holders(q)) /\ IsFiniteSet(Pushing(q)) /\ IsFiniteSet(Scheduled(q))
<1>1. IsFiniteSet(JobIds)
    BY FS_Interval, MaxJobsAssumption DEF JobIds
<1>2. QED
    BY <1>1, FS_Subset, SlotsAssumption DEF Holders, Pushing, Scheduled

\* The counts in the balance of wakeups are natural numbers.
LEMMA CountTypes ==
    ASSUME NEW q
    PROVE  /\ Cardinality(Holders(q)) \in Nat
           /\ Cardinality(Pushing(q)) \in Nat
           /\ Cardinality(Scheduled(q)) \in Nat
BY FiniteParts, FS_CardinalityType

Balance(q) ==
    Len(queue[q]) + Cardinality(Holders(q)) + Cardinality(Pushing(q)) + spilled[q]
        = Cardinality(Scheduled(q)) + resent[q]

WakeupInv == HandoffInv /\ WakeupsConserved

-----------------------------------------------------------------------------
(* The set a step changes, and by what.                                     *)

\* The holders of a wakeup stay while no poll of the provider changes its stage.
LEMMA HoldersKept ==
    ASSUME NEW q \in Providers, \A t \in Slots : polls'[q][t].stage = polls[q][t].stage
    PROVE  Holders(q)' = Holders(q)
BY DEF Holders

\* A step of one provider's poll leaves the holders of the others alone.
LEMMA HoldersElsewhere ==
    ASSUME NEW p \in Providers, NEW s \in Slots, Elsewhere(p, s),
           NEW q \in Providers, q # p
    PROVE  Holders(q)' = Holders(q)
BY DEF Holders, Elsewhere

\* A poll that leaves NextPendingJob is one holder less.
LEMMA HoldersLeft ==
    ASSUME NEW p \in Providers, NEW s \in Slots, Elsewhere(p, s),
           polls[p][s].stage \in {"select", "commit"},
           polls'[p][s].stage \notin {"select", "commit"}
    PROVE  Cardinality(Holders(p)') = Cardinality(Holders(p)) - 1
<1>1. s \in Holders(p)
    BY DEF Holders
<1>2. Holders(p)' = Holders(p) \ {s}
    BY DEF Holders, Elsewhere
<1>3. QED
    BY <1>1, <1>2, CountRemove, FiniteParts

\* The scheduled jobs stay while the jobs table does.
LEMMA ScheduledKept ==
    ASSUME NEW q, jobs' = jobs
    PROVE  Scheduled(q)' = Scheduled(q)
BY DEF Scheduled

\* The pushes under way stay while the Submit calls do.
LEMMA PushingKept ==
    ASSUME NEW q, submits' = submits
    PROVE  Pushing(q)' = Pushing(q)
BY DEF Pushing

\* A Submit whose LPUSH has ended is one push less, of its own provider only.
LEMMA PushingLeft ==
    ASSUME NEW j \in JobIds, OtherSubmits(j), submits[j].stage = "push",
           submits'[j].stage # "push"
    PROVE  \A q \in Providers :
               Cardinality(Pushing(q)') =
                   IF q = submits[j].target THEN Cardinality(Pushing(q)) - 1
                   ELSE Cardinality(Pushing(q))
<1> SUFFICES ASSUME NEW q \in Providers
             PROVE  Cardinality(Pushing(q)') =
                        IF q = submits[j].target THEN Cardinality(Pushing(q)) - 1
                        ELSE Cardinality(Pushing(q))
    OBVIOUS
<1>1. CASE q = submits[j].target
    <2>1. j \in Pushing(q) /\ Pushing(q)' = Pushing(q) \ {j}
        BY <1>1 DEF Pushing, OtherSubmits
    <2>2. QED
        BY <1>1, <2>1, CountRemove, FiniteParts
<1>2. CASE q # submits[j].target
    <2>1. Pushing(q)' = Pushing(q)
        BY <1>2 DEF Pushing, OtherSubmits
    <2>2. QED
        BY <1>2, <2>1
<1>3. QED
    BY <1>1, <1>2

\* A step of a Submit outside LPUSH changes no push under way.
LEMMA PushingOthers ==
    ASSUME NEW j \in JobIds, OtherSubmits(j), submits[j].stage # "push",
           submits'[j].stage # "push", NEW q
    PROVE  Pushing(q)' = Pushing(q)
BY DEF Pushing, OtherSubmits

-----------------------------------------------------------------------------
\* Nothing is queued or scheduled at first: the balance holds.
LEMMA WakeupInit == Init => WakeupInv
<1> SUFFICES ASSUME Init PROVE WakeupInv
    OBVIOUS
<1>1. ASSUME NEW q \in Providers PROVE Balance(q)
    <2>1. Holders(q) = {} /\ Pushing(q) = {} /\ Scheduled(q) = {}
        BY <1>1 DEF Init, Holders, Pushing, Scheduled, FreeSlot, NotCalled, NoRow
    <2>2. Len(queue[q]) = 0 /\ spilled[q] = 0 /\ resent[q] = 0
        BY <1>1 DEF Init
    <2>3. QED
        BY <2>1, <2>2, FS_EmptySet DEF Balance
<1>2. QED
    BY <1>1, HandoffInit DEF WakeupInv, WakeupsConserved, Balance

\* Every step keeps the balance of every provider, one case per action.
LEMMA WakeupStep == WakeupInv /\ [Next]_vars => WakeupInv'
<1> SUFFICES ASSUME WakeupInv, [Next]_vars, NEW q \in Providers PROVE Balance(q)'
    BY HandoffStep DEF WakeupInv, WakeupsConserved, Balance
<1>0. HandoffInv /\ TypeOK /\ SubmitInv /\ HeldInv /\ Balance(q)
    BY DEF WakeupInv, WakeupsConserved, Balance, HandoffInv
<1>t. /\ Cardinality(Holders(q)) \in Nat
      /\ Cardinality(Pushing(q)) \in Nat
      /\ Cardinality(Scheduled(q)) \in Nat
      /\ Len(queue[q]) \in Nat
      /\ spilled[q] \in Nat
      /\ resent[q] \in Nat
    BY <1>0, CountTypes DEF TypeOK
<1>b. PICK len \in Nat, hold \in Nat, push \in Nat, spill \in Nat,
           sched \in Nat, dup \in Nat :
          /\ len = Len(queue[q]) /\ hold = Cardinality(Holders(q))
          /\ push = Cardinality(Pushing(q)) /\ spill = spilled[q]
          /\ sched = Cardinality(Scheduled(q)) /\ dup = resent[q]
          /\ len + hold + push + spill = sched + dup
    BY <1>0, <1>t DEF Balance
<1>c. len + hold + push + spill = sched + dup
    BY <1>b
<1>1. ASSUME NEW j \in JobIds, Finding(j) PROVE Balance(q)'
    <2>1. UNCHANGED <<jobs, queue, polls, resent, spilled>>
        BY <1>1 DEF Finding, FindProvider, NoProviderFits
    <2>2. submits[j].stage # "push" /\ submits'[j].stage # "push" /\ OtherSubmits(j)
        <3>1. j = calls + 1 /\ submits'[j].stage # "push" /\ OtherSubmits(j)
            BY <1>0, <1>1, FindEffect
        <3>2. j > calls
            BY <1>0, <3>1 DEF TypeOK
        <3>3. QED
            BY <1>0, <3>1, <3>2 DEF SubmitInv
    <2>3. Holders(q)' = Holders(q) /\ Scheduled(q)' = Scheduled(q)
        BY <2>1 DEF Holders, Scheduled
    <2>4. Pushing(q)' = Pushing(q)
        BY <2>2, PushingOthers
    <2>5. QED
        BY <1>0, <2>1, <2>3, <2>4 DEF Balance
<1>2. ASSUME NEW j \in JobIds, InsertJob(j) PROVE Balance(q)'
    <2>1. UNCHANGED <<queue, polls, resent, spilled>>
        BY <1>2 DEF InsertJob
    <2>2. Holders(q)' = Holders(q)
        BY <2>1 DEF Holders
    <2>3. Pushing(q)' = Pushing(q)
        BY <1>0, <1>2, InsertEffect, PushingOthers DEF InsertJob
    <2>4. jobs[j].status = "none"
        BY <1>0, <1>2 DEF InsertJob, SubmitInv
    <2>5. jobs'[j].status = "pending" /\ OtherRows(j)
        BY <1>0, <1>2, InsertEffect
    <2>6. Scheduled(q)' = Scheduled(q)
        BY <2>4, <2>5 DEF Scheduled, OtherRows
    <2>7. QED
        BY <1>0, <2>1, <2>2, <2>3, <2>6 DEF Balance
<1>3. ASSUME NEW j \in JobIds, AssignJob(j) PROVE Balance(q)'
    <2>1. UNCHANGED <<queue, polls, resent, spilled>>
        BY <1>3 DEF AssignJob
    <2>2. Holders(q)' = Holders(q)
        BY <2>1 DEF Holders
    <2>3. submits[j].stage = "assign" /\ jobs[j].status = "pending"
        BY <1>0, <1>3 DEF AssignJob, SubmitInv
    <2>4. /\ jobs'[j].status = "scheduled" /\ jobs'[j].provider = submits[j].target
          /\ OtherRows(j)
          /\ submits'[j].stage = "push" /\ submits'[j].target = submits[j].target
          /\ OtherSubmits(j)
        BY <1>0, <1>3, AssignEffect
    <2>5. CASE q = submits[j].target
        <3>1. j \notin Pushing(q) /\ Pushing(q)' = Pushing(q) \cup {j}
            BY <2>3, <2>4, <2>5 DEF Pushing, OtherSubmits
        <3>2. j \notin Scheduled(q) /\ Scheduled(q)' = Scheduled(q) \cup {j}
            BY <2>3, <2>4, <2>5 DEF Scheduled, OtherRows
        <3>3. /\ Cardinality(Pushing(q)') = Cardinality(Pushing(q)) + 1
              /\ Cardinality(Scheduled(q)') = Cardinality(Scheduled(q)) + 1
            BY <3>1, <3>2, CountAdd, FiniteParts
        <3>4. QED
            <4>1. /\ Len(queue'[q]) = len
                  /\ Cardinality(Holders(q)') = hold
                  /\ Cardinality(Pushing(q)') = push + 1
                  /\ spilled'[q] = spill
                  /\ Cardinality(Scheduled(q)') = sched + 1
                  /\ resent'[q] = dup
                BY <1>b, <2>1, <2>2, <3>3
            <4>2. len + hold + (push + 1) + spill = (sched + 1) + dup
                BY <1>c
            <4>3. QED
                BY <4>1, <4>2 DEF Balance
    <2>6. CASE q # submits[j].target
        <3>1. Pushing(q)' = Pushing(q) /\ Scheduled(q)' = Scheduled(q)
            BY <2>3, <2>4, <2>6 DEF Pushing, Scheduled, OtherSubmits, OtherRows
        <3>2. QED
            BY <1>0, <2>1, <2>2, <3>1 DEF Balance
    <2>7. QED
        BY <2>5, <2>6
<1>4. ASSUME NEW j \in JobIds, SubmitReturns(j) PROVE Balance(q)'
    <2>1. UNCHANGED <<jobs, polls>>
        BY <1>4 DEF SubmitReturns, PushJob, PushJobResent, PushUnacknowledged, SubmitFails
    <2>2. Holders(q)' = Holders(q) /\ Scheduled(q)' = Scheduled(q)
        BY <2>1 DEF Holders, Scheduled
    <2>3. submits'[j].stage # "push" /\ OtherSubmits(j)
        BY <1>0, <1>4, SubmitReturnEffect
    <2>4. CASE submits[j].stage # "push"
        <3>1. UNCHANGED <<queue, resent, spilled>>
            BY <1>4, <2>4
               DEF SubmitReturns, PushJob, PushJobResent, PushUnacknowledged, SubmitFails
        <3>2. Pushing(q)' = Pushing(q)
            BY <2>3, <2>4, PushingOthers
        <3>3. QED
            BY <1>0, <2>2, <3>1, <3>2 DEF Balance
    <2>5. CASE submits[j].stage = "push"
        <3>1. Cardinality(Pushing(q)') =
                  IF q = submits[j].target THEN Cardinality(Pushing(q)) - 1
                  ELSE Cardinality(Pushing(q))
            BY <2>3, <2>5, PushingLeft
        <3>2. CASE PushJob(j) \/ PushUnacknowledged(j)
            <4>1. UNCHANGED <<resent, spilled>>
                BY <3>2 DEF PushJob, PushUnacknowledged
            <4>2. queue' = [queue EXCEPT ![submits[j].target] = Append(@, j)]
                BY <3>2 DEF PushJob, PushUnacknowledged
            <4>3. Len(queue'[q]) = Len(queue[q]) + (IF q = submits[j].target THEN 1 ELSE 0)
                BY <1>0, <4>2 DEF TypeOK
            <4>4. CASE q = submits[j].target
                <5>1. /\ Len(queue'[q]) = len + 1
                      /\ Cardinality(Holders(q)') = hold
                      /\ Cardinality(Pushing(q)') = push - 1
                      /\ spilled'[q] = spill
                      /\ Cardinality(Scheduled(q)') = sched
                      /\ resent'[q] = dup
                    BY <1>b, <2>2, <3>1, <4>1, <4>3, <4>4
                <5>2. (len + 1) + hold + (push - 1) + spill = sched + dup
                    BY <1>c
                <5>3. QED
                    BY <5>1, <5>2 DEF Balance
            <4>5. CASE q # submits[j].target
                BY <1>0, <2>2, <3>1, <4>1, <4>3, <4>5 DEF Balance
            <4>6. QED
                BY <4>4, <4>5
        <3>3. CASE PushJobResent(j)
            <4>1. /\ spilled' = spilled
                  /\ resent' = [resent EXCEPT ![submits[j].target] = @ + 1]
                  /\ queue' = [queue EXCEPT ![submits[j].target] = Append(Append(@, j), j)]
                BY <3>3 DEF PushJobResent
            <4>2. Len(queue'[q]) = Len(queue[q]) + (IF q = submits[j].target THEN 2 ELSE 0)
                BY <1>0, <4>1 DEF TypeOK
            <4>3. resent'[q] = resent[q] + (IF q = submits[j].target THEN 1 ELSE 0)
                BY <1>0, <4>1 DEF TypeOK
            <4>4. CASE q = submits[j].target
                <5>1. /\ Len(queue'[q]) = len + 2
                      /\ Cardinality(Holders(q)') = hold
                      /\ Cardinality(Pushing(q)') = push - 1
                      /\ spilled'[q] = spill
                      /\ Cardinality(Scheduled(q)') = sched
                      /\ resent'[q] = dup + 1
                    BY <1>b, <2>2, <3>1, <4>1, <4>2, <4>3, <4>4
                <5>2. (len + 2) + hold + (push - 1) + spill = sched + (dup + 1)
                    BY <1>c
                <5>3. QED
                    BY <5>1, <5>2 DEF Balance
            <4>5. CASE q # submits[j].target
                BY <1>0, <2>2, <3>1, <4>1, <4>2, <4>3, <4>5 DEF Balance
            <4>6. QED
                BY <4>4, <4>5
        <3>4. CASE SubmitFails(j)
            <4>1. /\ UNCHANGED <<queue, resent>>
                  /\ spilled' = [spilled EXCEPT ![submits[j].target] = @ + 1]
                BY <2>5, <3>4 DEF SubmitFails
            <4>2. spilled'[q] = spilled[q] + (IF q = submits[j].target THEN 1 ELSE 0)
                BY <1>0, <4>1 DEF TypeOK
            <4>3. CASE q = submits[j].target
                <5>1. /\ Len(queue'[q]) = len
                      /\ Cardinality(Holders(q)') = hold
                      /\ Cardinality(Pushing(q)') = push - 1
                      /\ spilled'[q] = spill + 1
                      /\ Cardinality(Scheduled(q)') = sched
                      /\ resent'[q] = dup
                    BY <1>b, <2>2, <3>1, <4>1, <4>2, <4>3
                <5>2. len + hold + (push - 1) + (spill + 1) = sched + dup
                    BY <1>c
                <5>3. QED
                    BY <5>1, <5>2 DEF Balance
            <4>4. CASE q # submits[j].target
                BY <1>0, <2>2, <3>1, <4>1, <4>2, <4>4 DEF Balance
            <4>5. QED
                BY <4>3, <4>4
        <3>5. QED
            BY <1>4, <3>2, <3>3, <3>4 DEF SubmitReturns
    <2>6. QED
        BY <2>4, <2>5
<1>5. ASSUME NEW p \in Providers, NEW s \in Slots, PopJob(p, s) PROVE Balance(q)'
    <2>1. /\ UNCHANGED <<jobs, submits, resent, spilled>>
          /\ polls[p][s].stage = "pop"
          /\ queue[p] # <<>>
          /\ queue' = [queue EXCEPT ![p] = Tail(@)]
        BY <1>5 DEF PopJob
    <2>2. polls'[p][s].stage = "select" /\ Elsewhere(p, s)
        BY <1>0, <1>5, PopEffect
    <2>3. Scheduled(q)' = Scheduled(q) /\ Pushing(q)' = Pushing(q)
        BY <2>1, ScheduledKept, PushingKept
    <2>4. CASE q = p
        <3>1. s \notin Holders(q) /\ Holders(q)' = Holders(q) \cup {s}
            BY <2>1, <2>2, <2>4 DEF Holders, Elsewhere
        <3>2. Cardinality(Holders(q)') = Cardinality(Holders(q)) + 1
            BY <3>1, CountAdd, FiniteParts
        <3>3. Len(queue'[q]) = Len(queue[q]) - 1
            BY <1>0, <2>1, <2>4 DEF TypeOK
        <3>4. QED
            BY <1>b, <2>1, <2>3, <3>2, <3>3 DEF Balance
    <2>5. CASE q # p
        <3>1. Holders(q)' = Holders(q) /\ queue'[q] = queue[q]
            BY <1>0, <2>1, <2>2, <2>5, HoldersElsewhere DEF TypeOK
        <3>2. QED
            BY <1>0, <2>1, <2>3, <3>1 DEF Balance
    <2>6. QED
        BY <2>4, <2>5
<1>6. ASSUME NEW p \in Providers, NEW s \in Slots, PopReplyLost(p, s) PROVE Balance(q)'
    <2>1. /\ UNCHANGED <<jobs, submits, polls, resent>>
          /\ queue[p] # <<>>
          /\ queue' = [queue EXCEPT ![p] = Tail(@)]
          /\ spilled' = [spilled EXCEPT ![p] = @ + 1]
        BY <1>6 DEF PopReplyLost
    <2>2. Holders(q)' = Holders(q) /\ Scheduled(q)' = Scheduled(q) /\ Pushing(q)' = Pushing(q)
        BY <2>1 DEF Holders, Scheduled, Pushing
    <2>3. CASE q = p
        <3>1. Len(queue'[q]) = Len(queue[q]) - 1 /\ spilled'[q] = spilled[q] + 1
            BY <1>0, <2>1, <2>3 DEF TypeOK
        <3>2. QED
            <4>1. /\ Len(queue'[q]) = len - 1
                  /\ Cardinality(Holders(q)') = hold
                  /\ Cardinality(Pushing(q)') = push
                  /\ spilled'[q] = spill + 1
                  /\ Cardinality(Scheduled(q)') = sched
                  /\ resent'[q] = dup
                BY <1>b, <2>1, <2>2, <3>1
            <4>2. (len - 1) + hold + push + (spill + 1) = sched + dup
                BY <1>c
            <4>3. QED
                BY <4>1, <4>2 DEF Balance
    <2>4. CASE q # p
        <3>1. queue'[q] = queue[q] /\ spilled'[q] = spilled[q]
            BY <1>0, <2>1, <2>4 DEF TypeOK
        <3>2. QED
            BY <1>0, <2>1, <2>2, <3>1 DEF Balance
    <2>5. QED
        BY <2>3, <2>4
<1>7. ASSUME NEW p \in Providers, NEW s \in Slots, NoJobFound(p, s) \/ ClaimFails(p, s)
      PROVE  Balance(q)'
    <2>1. UNCHANGED <<jobs, queue, submits, resent>>
        BY <1>7 DEF NoJobFound, ClaimFails
    <2>2. polls[p][s].stage \in {"select", "commit"}
        BY <1>7 DEF NoJobFound, ClaimFails
    <2>3. spilled' = [spilled EXCEPT ![p] = @ + 1]
        BY <1>7 DEF NoJobFound, ClaimFails
    <2>4. polls'[p][s].stage = "free" /\ Elsewhere(p, s)
        BY <1>0, <1>7, ReturnEffect DEF HandlerReturns
    <2>5. Scheduled(q)' = Scheduled(q) /\ Pushing(q)' = Pushing(q)
        BY <2>1, ScheduledKept, PushingKept
    <2>6. CASE q = p
        <3>1. Cardinality(Holders(q)') = Cardinality(Holders(q)) - 1
            BY <2>2, <2>4, <2>6, HoldersLeft
        <3>2. spilled'[q] = spilled[q] + 1
            BY <1>0, <2>3, <2>6 DEF TypeOK
        <3>3. QED
            <4>1. /\ Len(queue'[q]) = len
                  /\ Cardinality(Holders(q)') = hold - 1
                  /\ Cardinality(Pushing(q)') = push
                  /\ spilled'[q] = spill + 1
                  /\ Cardinality(Scheduled(q)') = sched
                  /\ resent'[q] = dup
                BY <1>b, <2>1, <2>5, <3>1, <3>2
            <4>2. len + (hold - 1) + push + (spill + 1) = sched + dup
                BY <1>c
            <4>3. QED
                BY <4>1, <4>2 DEF Balance
    <2>7. CASE q # p
        <3>1. Holders(q)' = Holders(q)
            BY <2>4, <2>7, HoldersElsewhere
        <3>2. spilled'[q] = spilled[q]
            BY <1>0, <2>3, <2>7 DEF TypeOK
        <3>3. QED
            BY <1>0, <2>1, <2>5, <3>1, <3>2 DEF Balance
    <2>8. QED
        BY <2>6, <2>7
<1>8. ASSUME NEW p \in Providers, NEW s \in Slots, CommitJob(p, s) PROVE Balance(q)'
    <2>1. UNCHANGED <<queue, submits, resent, spilled>> /\ polls[p][s].stage = "commit"
        BY <1>8 DEF CommitJob
    <2>2. PICK j \in JobIds : j = polls[p][s].job
        BY <1>0, <1>8, CommitEffect
    <2>3. jobs[j].status = "scheduled" /\ jobs[j].provider = p
        BY <1>0, <2>1, <2>2 DEF HeldInv
    <2>4. /\ polls'[p][s].stage = "respond" /\ Elsewhere(p, s)
          /\ jobs'[j].status = "running" /\ OtherRows(j)
        BY <1>0, <1>8, <2>2, CommitEffect
    <2>5. Pushing(q)' = Pushing(q)
        BY <2>1, PushingKept
    <2>6. CASE q = p
        <3>1. Cardinality(Holders(q)') = Cardinality(Holders(q)) - 1
            BY <2>1, <2>4, <2>6, HoldersLeft
        <3>2. j \in Scheduled(q) /\ Scheduled(q)' = Scheduled(q) \ {j}
            BY <2>3, <2>4, <2>6 DEF Scheduled, OtherRows
        <3>3. Cardinality(Scheduled(q)') = Cardinality(Scheduled(q)) - 1
            BY <3>2, CountRemove, FiniteParts
        <3>4. QED
            <4>1. /\ Len(queue'[q]) = len
                  /\ Cardinality(Holders(q)') = hold - 1
                  /\ Cardinality(Pushing(q)') = push
                  /\ spilled'[q] = spill
                  /\ Cardinality(Scheduled(q)') = sched - 1
                  /\ resent'[q] = dup
                BY <1>b, <2>1, <2>5, <3>1, <3>3
            <4>2. len + (hold - 1) + push + spill = (sched - 1) + dup
                BY <1>c
            <4>3. QED
                BY <4>1, <4>2 DEF Balance
    <2>7. CASE q # p
        <3>1. Holders(q)' = Holders(q)
            BY <2>4, <2>7, HoldersElsewhere
        <3>2. Scheduled(q)' = Scheduled(q)
            BY <2>3, <2>4, <2>7 DEF Scheduled, OtherRows
        <3>3. QED
            BY <1>0, <2>1, <2>5, <3>1, <3>2 DEF Balance
    <2>8. QED
        BY <2>6, <2>7
<1>9. ASSUME NEW p \in Providers, NEW s \in Slots,
             SelectJob(p, s) \/ PopEmpty(p, s) \/ Respond(p, s) \/ RespondLost(p, s)
                 \/ StartPoll(p, s)
      PROVE  Balance(q)'
    <2>1. UNCHANGED <<jobs, queue, submits, resent, spilled>>
        BY <1>9 DEF SelectJob, PopEmpty, Respond, RespondLost, StartPoll
    <2>2. Elsewhere(p, s)
        BY <1>0, <1>9, SelectEffect, ReturnEffect, StartEffect DEF HandlerReturns
    <2>3. polls[p][s].stage \in {"select", "commit"} <=> polls'[p][s].stage \in {"select", "commit"}
        <3>1. CASE SelectJob(p, s)
            BY <1>0, <3>1, SelectEffect DEF SelectJob
        <3>2. CASE PopEmpty(p, s) \/ Respond(p, s) \/ RespondLost(p, s)
            BY <1>0, <3>2, ReturnEffect DEF PopEmpty, Respond, RespondLost, HandlerReturns
        <3>3. CASE StartPoll(p, s)
            BY <1>0, <3>3, StartEffect DEF StartPoll
        <3>4. QED
            BY <1>9, <3>1, <3>2, <3>3
    <2>4. Holders(q)' = Holders(q)
        BY <2>2, <2>3 DEF Holders, Elsewhere
    <2>5. Scheduled(q)' = Scheduled(q) /\ Pushing(q)' = Pushing(q)
        BY <2>1, ScheduledKept, PushingKept
    <2>6. QED
        BY <1>0, <2>1, <2>4, <2>5 DEF Balance
<1>10. ASSUME NEW p \in Providers, ClientLeaves(p) PROVE Balance(q)'
    <2>1. UNCHANGED <<jobs, queue, submits, resent, spilled>>
        BY <1>10 DEF ClientLeaves, AgentStops, ClientGivesUp
    <2>2. Holders(q)' = Holders(q)
        BY <1>0, <1>10, LeaveEffect, HoldersKept
    <2>3. Scheduled(q)' = Scheduled(q) /\ Pushing(q)' = Pushing(q)
        BY <2>1, ScheduledKept, PushingKept
    <2>4. QED
        BY <1>0, <2>1, <2>2, <2>3 DEF Balance
<1>11. ASSUME NEW j \in JobIds, BuyerLeaves(j) PROVE Balance(q)'
    BY <1>0, <1>11 DEF BuyerLeaves, Balance, Holders, Pushing, Scheduled
<1>12. CASE UNCHANGED vars
    BY <1>0, <1>12 DEF vars, Balance, Holders, Pushing, Scheduled
<1>13. QED
    BY <1>1, <1>2, <1>3, <1>4, <1>5, <1>6, <1>7, <1>8, <1>9, <1>10, <1>11, <1>12
       DEF Next, SubmitStep, HandlerStep, ClientStep, Finding, SubmitReturns, ClientLeaves

\* Wakeups in the list, in hand, about to be pushed or spilled add up to the
\* jobs that are scheduled and the duplicates the Redis client made.
THEOREM WakeupsAddUp == Spec => []WakeupsConserved
<1>1. WakeupInv => WakeupsConserved
    BY DEF WakeupInv
<1>2. QED
    BY <1>1, WakeupInit, WakeupStep, PTL DEF Spec

-----------------------------------------------------------------------------
(* A woken poll finds a job: fewer rows are locked than scheduled.          *)

\* A poll about to select a row does not hold a lock, so fewer rows are locked
\* than polls hold a wakeup.
LEMMA FewerLocked ==
    ASSUME NEW p \in Providers, NEW s \in Slots, polls[p][s].stage = "select"
    PROVE  /\ IsFiniteSet(Locked(p))
           /\ Cardinality(Locked(p)) < Cardinality(Holders(p))
<1> DEFINE Committing == {t \in Slots : polls[p][t].stage = "commit"}
<1> DEFINE jobOf == [t \in Committing |-> polls[p][t].job]
<1>1. IsFiniteSet(Committing)
    BY FS_Subset, SlotsAssumption
<1>2. jobOf \in Surjection(Committing, Locked(p))
    BY DEF Surjection, Locked
<1>3. IsFiniteSet(Locked(p)) /\ Cardinality(Locked(p)) <= Cardinality(Committing)
    BY <1>1, <1>2, FS_Surjection
<1>4. s \in Holders(p) /\ Committing \subseteq Holders(p) \ {s}
    BY DEF Holders
<1>5. /\ IsFiniteSet(Holders(p) \ {s})
      /\ Cardinality(Holders(p) \ {s}) = Cardinality(Holders(p)) - 1
    BY <1>4, FS_RemoveElement, FiniteParts
<1>6. Cardinality(Committing) <= Cardinality(Holders(p) \ {s})
    BY <1>4, <1>5, FS_Subset
<1>7. /\ Cardinality(Committing) \in Nat
      /\ Cardinality(Locked(p)) \in Nat
      /\ Cardinality(Holders(p)) \in Nat
    BY <1>1, <1>3, FiniteParts, FS_CardinalityType
<1>8. QED
    BY <1>3, <1>5, <1>6, <1>7

\* The balance of wakeups leaves a woken poll a row that no other poll has locked.
LEMMA WokenFinds == WakeupInv => WokenFindsJob
<1>1. ASSUME WakeupInv, NEW p \in Providers, NEW s \in Slots,
             polls[p][s].stage = "select", resent[p] = 0, Candidates(p) = {}
      PROVE  FALSE
    <2>1. Balance(p) /\ TypeOK
        BY <1>1 DEF WakeupInv, WakeupsConserved, Balance, HandoffInv
    <2>2. Cardinality(Locked(p)) < Cardinality(Holders(p)) /\ IsFiniteSet(Locked(p))
        BY <1>1, FewerLocked
    <2>3. Scheduled(p) \subseteq Locked(p)
        BY <1>1 DEF Candidates
    <2>4. Cardinality(Scheduled(p)) <= Cardinality(Locked(p))
        BY <2>2, <2>3, FS_Subset
    <2>5. /\ Len(queue[p]) \in Nat
          /\ spilled[p] \in Nat
          /\ Cardinality(Holders(p)) \in Nat
          /\ Cardinality(Pushing(p)) \in Nat
          /\ Cardinality(Scheduled(p)) \in Nat
          /\ Cardinality(Locked(p)) \in Nat
        BY <2>1, <2>2, CountTypes, FS_CardinalityType DEF TypeOK
    <2>6. QED
        BY <1>1, <2>1, <2>2, <2>4, <2>5 DEF Balance
<1>2. QED
    BY <1>1 DEF WokenFindsJob

\* A poll that consumed a wakeup finds an unlocked job of its provider, unless
\* the Redis client duplicated a push to it.
THEOREM WokenPollsFindJobs == Spec => []WokenFindsJob
BY WokenFinds, WakeupInit, WakeupStep, PTL DEF Spec

-----------------------------------------------------------------------------
(* What can be lost: the hold of a handler on its job, and a wakeup.        *)

\* The agent's copy of a job is never taken back, and each new one was held.
LEMMA ReceivedGrows ==
    ASSUME Next
    PROVE  /\ received \subseteq received'
           /\ \A j, p : <<j, p>> \in received' \ received =>
                  \E s \in Slots : p \in Providers /\ Respond(p, s) /\ polls[p][s].job = j
<1>1. CASE \E j \in JobIds : SubmitStep(j)
    <2>1. received' = received
        BY <1>1 DEF SubmitStep, FindProvider, NoProviderFits, InsertJob, AssignJob, PushJob,
                    PushJobResent, PushUnacknowledged, SubmitFails
    <2>2. QED
        BY <2>1
<1>2. ASSUME NEW p \in Providers, NEW s \in Slots, HandlerStep(p, s), received' # received
      PROVE  Respond(p, s) /\ received' = received \cup {<<polls[p][s].job, p>>}
    <2>1. Respond(p, s)
        <3>1. ~ (PopJob(p, s) \/ PopEmpty(p, s) \/ PopReplyLost(p, s) \/ SelectJob(p, s))
            BY <1>2 DEF PopJob, PopEmpty, PopReplyLost, SelectJob
        <3>2. ~ (NoJobFound(p, s) \/ CommitJob(p, s) \/ ClaimFails(p, s) \/ RespondLost(p, s))
            BY <1>2 DEF NoJobFound, CommitJob, ClaimFails, RespondLost
        <3>3. QED
            BY <1>2, <3>1, <3>2 DEF HandlerStep
    <2>2. QED
        BY <2>1 DEF Respond
<1>3. CASE (\E p \in Providers : ClientStep(p)) \/ (\E j \in JobIds : BuyerLeaves(j))
    <2>1. received' = received
        BY <1>3 DEF ClientStep, StartPoll, ClientGivesUp, AgentStops, BuyerLeaves
    <2>2. QED
        BY <2>1
<1>4. QED
    BY <1>1, <1>2, <1>3 DEF Next

\* Only NextPendingJob's SELECT gives a handler a job, and the job is scheduled.
LEMMA HoldBegins ==
    ASSUME HandoffInv, Next, NEW p \in Providers, NEW s \in Slots, NEW j \in JobIds,
           ~ Holds(p, s, j), Holds(p, s, j)'
    PROVE  jobs[j].status = "scheduled"
<1>0. TypeOK
    BY DEF HandoffInv
<1>1. polls'[p][s] # polls[p][s]
    BY DEF Holds
<1>2. CASE \E k \in JobIds : SubmitStep(k) \/ BuyerLeaves(k)
    BY <1>1, <1>2 DEF SubmitStep, FindProvider, NoProviderFits, InsertJob, AssignJob, PushJob,
                      PushJobResent, PushUnacknowledged, SubmitFails, BuyerLeaves
<1>3. ASSUME NEW q \in Providers, NEW t \in Slots, HandlerStep(q, t)
      PROVE  jobs[j].status = "scheduled"
    <2>1. CASE SelectJob(q, t)
        BY <1>0, <1>1, <2>1, SelectEffect DEF Elsewhere, Holds, Candidates, Scheduled
    <2>2. CASE PopJob(q, t)
        BY <1>0, <1>1, <2>2, PopEffect DEF Elsewhere, Holds
    <2>3. CASE CommitJob(q, t)
        <3>1. polls[q][t].stage = "commit"
            BY <2>3 DEF CommitJob
        <3>2. polls'[q][t].job = polls[q][t].job /\ Elsewhere(q, t)
            BY <1>0, <2>3, CommitEffect
        <3>3. QED
            BY <1>1, <3>1, <3>2 DEF Elsewhere, Holds
    <2>4. CASE HandlerReturns(q, t)
        BY <1>0, <1>1, <2>4, ReturnEffect DEF Elsewhere, Holds
    <2>5. CASE PopReplyLost(q, t)
        BY <1>1, <2>5 DEF PopReplyLost
    <2>6. QED
        BY <1>3, <2>1, <2>2, <2>3, <2>4, <2>5 DEF HandlerStep, HandlerReturns
<1>4. ASSUME NEW q \in Providers, NEW t \in Slots, StartPoll(q, t) PROVE FALSE
    BY <1>0, <1>1, <1>4, StartEffect DEF Elsewhere, Holds
<1>5. ASSUME NEW q \in Providers, ClientLeaves(q) PROVE FALSE
    BY <1>0, <1>5, LeaveEffect DEF Holds
<1>6. QED
    BY <1>2, <1>3, <1>4, <1>5 DEF Next, ClientStep, ClientLeaves

\* A handler that holds a running job lets go of it by answering, or failing to.
LEMMA HoldEnds ==
    ASSUME HandoffInv, Next, NEW p \in Providers, NEW s \in Slots, NEW j \in JobIds,
           Holds(p, s, j), jobs[j].status = "running", ~ Holds(p, s, j)'
    PROVE  Respond(p, s) \/ RespondLost(p, s)
<1>0. TypeOK /\ HeldInv
    BY DEF HandoffInv
<1>1. polls[p][s].stage = "respond" /\ polls[p][s].job = j
    BY <1>0 DEF HeldInv, Holds
<1>2. polls'[p][s].stage # polls[p][s].stage \/ polls'[p][s].job # polls[p][s].job
    BY <1>1 DEF Holds
<1>3. CASE \E k \in JobIds : SubmitStep(k) \/ BuyerLeaves(k)
    BY <1>2, <1>3 DEF SubmitStep, FindProvider, NoProviderFits, InsertJob, AssignJob, PushJob,
                      PushJobResent, PushUnacknowledged, SubmitFails, BuyerLeaves
<1>4. ASSUME NEW q \in Providers, NEW t \in Slots, HandlerStep(q, t)
      PROVE  Respond(p, s) \/ RespondLost(p, s)
    <2>1. Elsewhere(q, t)
        <3>1. CASE PopReplyLost(q, t)
            BY <3>1 DEF PopReplyLost, Elsewhere
        <3>2. CASE PopJob(q, t) \/ SelectJob(q, t) \/ CommitJob(q, t)
            BY <1>0, <3>2, PopEffect, SelectEffect, CommitEffect
        <3>3. CASE HandlerReturns(q, t)
            BY <1>0, <3>3, ReturnEffect
        <3>4. QED
            BY <1>4, <3>1, <3>2, <3>3 DEF HandlerStep, HandlerReturns
    <2>2. q = p /\ t = s
        BY <1>2, <2>1 DEF Elsewhere
    <2>3. ~ (PopJob(p, s) \/ PopEmpty(p, s) \/ PopReplyLost(p, s) \/ SelectJob(p, s))
        BY <1>1 DEF PopJob, PopEmpty, PopReplyLost, SelectJob
    <2>4. ~ (NoJobFound(p, s) \/ CommitJob(p, s) \/ ClaimFails(p, s))
        BY <1>1 DEF NoJobFound, CommitJob, ClaimFails
    <2>5. QED
        BY <1>4, <2>2, <2>3, <2>4 DEF HandlerStep
<1>5. ASSUME NEW q \in Providers, NEW t \in Slots, StartPoll(q, t) PROVE FALSE
    BY <1>0, <1>1, <1>2, <1>5, StartEffect DEF Elsewhere, StartPoll
<1>6. ASSUME NEW q \in Providers, ClientLeaves(q) PROVE FALSE
    BY <1>0, <1>2, <1>6, LeaveEffect
<1>7. QED
    BY <1>3, <1>4, <1>5, <1>6 DEF Next, ClientStep, ClientLeaves

\* A row is marked running by the commit of a handler that holds it.
LEMMA BecomesRunning ==
    ASSUME HandoffInv, Next, NEW j \in JobIds,
           jobs[j].status # "running", jobs'[j].status = "running"
    PROVE  \E p \in Providers, s \in Slots : CommitJob(p, s) /\ polls[p][s].job = j
<1>0. TypeOK
    BY DEF HandoffInv
<1>1. ASSUME NEW k \in JobIds, SubmitStep(k) PROVE FALSE
    <2>1. CASE InsertJob(k)
        BY <1>0, <2>1, InsertEffect DEF OtherRows
    <2>2. CASE AssignJob(k)
        BY <1>0, <2>2, AssignEffect DEF OtherRows
    <2>3. CASE Finding(k) \/ SubmitReturns(k)
        BY <2>3 DEF Finding, FindProvider, NoProviderFits, SubmitReturns, PushJob,
                    PushJobResent, PushUnacknowledged, SubmitFails
    <2>4. QED
        BY <1>1, <2>1, <2>2, <2>3 DEF SubmitStep, Finding, SubmitReturns
<1>2. ASSUME NEW p \in Providers, NEW s \in Slots, HandlerStep(p, s)
      PROVE  CommitJob(p, s) /\ polls[p][s].job = j
    <2>1. ~ (PopJob(p, s) \/ PopEmpty(p, s) \/ PopReplyLost(p, s) \/ SelectJob(p, s))
        BY DEF PopJob, PopEmpty, PopReplyLost, SelectJob
    <2>2. ~ (NoJobFound(p, s) \/ ClaimFails(p, s) \/ Respond(p, s) \/ RespondLost(p, s))
        BY DEF NoJobFound, ClaimFails, Respond, RespondLost
    <2>3. CommitJob(p, s)
        BY <1>2, <2>1, <2>2 DEF HandlerStep
    <2>4. QED
        BY <1>0, <2>3, CommitEffect DEF OtherRows
<1>3. CASE (\E p \in Providers : ClientStep(p)) \/ (\E k \in JobIds : BuyerLeaves(k))
    BY <1>3 DEF ClientStep, StartPoll, ClientGivesUp, AgentStops, BuyerLeaves
<1>4. QED
    BY <1>1, <1>2, <1>3 DEF Next

-----------------------------------------------------------------------------
(* Without faults, only disconnected clients lose anything.                 *)

\* Without faults the Redis client duplicates nothing.
LossInv == WakeupInv /\ (~ Faults => \A p \in Providers : resent[p] = 0)

\* At first nothing has been duplicated.
LEMMA LossInit == Init => LossInv
BY WakeupInit DEF LossInv, Init

\* Only a fault makes the Redis client send a push twice.
LEMMA LossStep == LossInv /\ [Next]_vars => LossInv'
<1> SUFFICES ASSUME LossInv, [Next]_vars, ~ Faults PROVE UNCHANGED resent
    BY WakeupStep DEF LossInv
<1>1. CASE \E j \in JobIds : SubmitStep(j)
    BY <1>1 DEF SubmitStep, FindProvider, NoProviderFits, InsertJob, AssignJob, PushJob,
                PushJobResent, PushUnacknowledged, SubmitFails
<1>2. ASSUME NEW p \in Providers, NEW s \in Slots, HandlerStep(p, s) PROVE UNCHANGED resent
    <2>1. CASE PopJob(p, s) \/ PopEmpty(p, s) \/ PopReplyLost(p, s) \/ SelectJob(p, s)
        BY <2>1 DEF PopJob, PopEmpty, PopReplyLost, SelectJob
    <2>2. CASE NoJobFound(p, s) \/ CommitJob(p, s) \/ ClaimFails(p, s)
        BY <2>2 DEF NoJobFound, CommitJob, ClaimFails
    <2>3. CASE Respond(p, s) \/ RespondLost(p, s)
        BY <2>3 DEF Respond, RespondLost
    <2>4. QED
        BY <1>2, <2>1, <2>2, <2>3 DEF HandlerStep
<1>3. CASE (\E p \in Providers : ClientStep(p)) \/ (\E j \in JobIds : BuyerLeaves(j))
    BY <1>3 DEF ClientStep, StartPoll, ClientGivesUp, AgentStops, BuyerLeaves
<1>4. CASE UNCHANGED vars
    BY <1>4 DEF vars
<1>5. QED
    BY <1>1, <1>2, <1>3, <1>4 DEF Next

\* Without faults, a wakeup is spilled only by a Submit whose buyer has left, or
\* by a handler that NextPendingJob keeps for a client that has: a woken handler
\* does find a job.
LEMMA SpillStep ==
    ASSUME LossInv, Next, ~ Faults, NEW p \in Providers, spilled'[p] # spilled[p]
    PROVE  Abandoned(p)
<1>0. TypeOK /\ WokenFindsJob
    BY WokenFinds DEF LossInv, WakeupInv, HandoffInv
<1>1. ASSUME NEW j \in JobIds, SubmitStep(j)
      PROVE  j \in Pushing(p) /\ j \in left
    <2>1. SubmitFails(j) /\ submits[j].stage = "push"
        BY <1>1 DEF SubmitStep, FindProvider, NoProviderFits, InsertJob, AssignJob, PushJob,
                    PushJobResent, PushUnacknowledged, SubmitFails
    <2>2. submits[j].target = p
        BY <1>0, <2>1 DEF SubmitFails, TypeOK
    <2>3. QED
        BY <2>1, <2>2 DEF SubmitFails, Pushing
<1>2. ASSUME NEW q \in Providers, NEW s \in Slots, HandlerStep(q, s)
      PROVE  s \in Holders(p) /\ polls[p][s].client = "away"
    <2>1. ~ NoJobFound(q, s)
        BY <1>0 DEF NoJobFound, WokenFindsJob, LossInv
    <2>2. ~ (PopJob(q, s) \/ PopEmpty(q, s) \/ PopReplyLost(q, s) \/ SelectJob(q, s))
        BY DEF PopJob, PopEmpty, PopReplyLost, SelectJob
    <2>3. ~ (CommitJob(q, s) \/ Respond(q, s) \/ RespondLost(q, s))
        BY DEF CommitJob, Respond, RespondLost
    <2>4. ClaimFails(q, s)
        BY <1>2, <2>1, <2>2, <2>3 DEF HandlerStep
    <2>5. q = p
        BY <1>0, <2>4 DEF ClaimFails, TypeOK
    <2>6. QED
        BY <2>4, <2>5 DEF ClaimFails, Holders
<1>3. CASE (\E q \in Providers : ClientStep(q)) \/ (\E j \in JobIds : BuyerLeaves(j))
    BY <1>3 DEF ClientStep, StartPoll, ClientGivesUp, AgentStops, BuyerLeaves
<1>4. QED
    BY <1>1, <1>2, <1>3 DEF Next, Abandoned

\* Without faults, a running job loses its last holder only to a client that left.
LEMMA DropStep ==
    ASSUME LossInv, Next, ~ Faults, NEW j \in JobIds, Dropped(j)', ~ Dropped(j)
    PROVE  \E p \in Providers, s \in Slots : Holds(p, s, j) /\ polls[p][s].client = "away"
<1>0. HandoffInv /\ TypeOK
    BY DEF LossInv, WakeupInv, HandoffInv
<1>1. /\ jobs'[j].status = "running"
      /\ \A p \in Providers : <<j, p>> \notin received'
      /\ \A p \in Providers, s \in Slots : ~ Holds(p, s, j)'
    BY DEF Dropped
<1>2. \A p \in Providers : <<j, p>> \notin received
    BY <1>1, ReceivedGrows
<1>3. CASE jobs[j].status = "running"
    <2>1. PICK p \in Providers, s \in Slots : Holds(p, s, j)
        BY <1>2, <1>3 DEF Dropped
    <2>2. Respond(p, s) \/ RespondLost(p, s)
        BY <1>0, <1>1, <1>3, <2>1, HoldEnds
    <2>3. ~ Respond(p, s)
        BY <1>1, <2>1 DEF Respond, Holds
    <2>4. polls[p][s].client = "away"
        BY <2>2, <2>3 DEF RespondLost
    <2>5. QED
        BY <2>1, <2>4
<1>4. CASE jobs[j].status # "running"
    <2>1. PICK p \in Providers, s \in Slots : CommitJob(p, s) /\ polls[p][s].job = j
        BY <1>0, <1>1, <1>4, BecomesRunning
    <2>2. polls'[p][s].stage = "respond" /\ polls'[p][s].job = j
        BY <1>0, <2>1, CommitEffect
    <2>3. Holds(p, s, j)'
        BY <2>2 DEF Holds
    <2>4. QED
        BY <1>1, <2>3
<1>5. QED
    BY <1>3, <1>4

\* Without faults a wakeup is lost only by NextPendingJob for a client that has
\* gone, or by PushJob for a buyer that has, and a job only by an answer to a
\* client that has gone: by LossInv a woken handler finds a job, and nothing but
\* the answer lets go of one that is running.
THEOREM OnlyDisconnectsLose == Spec => LossesAbandoned
<1>1. LossInv /\ [Next]_vars =>
          [~ Faults =>
              /\ \A p \in Providers : spilled'[p] # spilled[p] => Abandoned(p)
              /\ \A j \in JobIds : Dropped(j)' /\ ~ Dropped(j) =>
                     \E p \in Providers, s \in Slots :
                         Holds(p, s, j) /\ polls[p][s].client = "away"]_vars
    BY SpillStep, DropStep
<1>2. QED
    BY <1>1, LossInit, LossStep, PTL DEF Spec, LossesAbandoned

-----------------------------------------------------------------------------
(* An accepted job is on its way until it is settled, and then stays so.    *)

\* Whoever was told that a job is dispatched has a row placed on the target.
PlacedInv ==
    \A j \in JobIds :
        submits[j].stage \in {"push", "accepted"} =>
            /\ jobs[j].status \in {"scheduled", "running"}
            /\ jobs[j].provider = submits[j].target
            /\ submits[j].target \in Providers

\* While j is accepted and not settled, a handler of p holds it, or it waits
\* unlocked in the table and there is a wakeup that p's next polls will find.
AcceptedOnTheWay ==
    \A j \in JobIds, p \in Providers :
        submits[j].stage = "accepted" /\ submits[j].target = p =>
            \/ Settled(j, p)
            \/ \E s \in Slots : Holds(p, s, j)
            \/ /\ j \in Candidates(p)
               /\ queue[p] # <<>> \/ Holders(p) # {} \/ Pushing(p) # {}

\* What Submit leads to the LPUSH was placed by AssignJob, and rows stay placed.
LEMMA PlacedStep == HandoffInv /\ PlacedInv /\ [Next]_vars => PlacedInv'
<1> SUFFICES ASSUME HandoffInv, PlacedInv, [Next]_vars, NEW j \in JobIds,
                    submits'[j].stage \in {"push", "accepted"}
             PROVE  /\ jobs'[j].status \in {"scheduled", "running"}
                    /\ jobs'[j].provider = submits'[j].target
                    /\ submits'[j].target \in Providers
    BY DEF PlacedInv
<1>0. TypeOK /\ SubmitInv
    BY DEF HandoffInv
<1>1. CASE AssignJob(j)
    BY <1>0, <1>1, AssignEffect DEF AssignJob, SubmitInv
<1>2. ASSUME submits[j].stage \in {"push", "accepted"}, submits'[j].target = submits[j].target
      PROVE  /\ jobs'[j].status \in {"scheduled", "running"}
             /\ jobs'[j].provider = submits'[j].target
             /\ submits'[j].target \in Providers
    <2>1. /\ jobs[j].status \in {"scheduled", "running"}
          /\ jobs[j].provider = submits[j].target
          /\ submits[j].target \in Providers
        BY <1>2 DEF PlacedInv
    <2>2. Advances(j) \/ UNCHANGED jobs
        BY AdvanceStep DEF vars
    <2>3. jobs'[j].status \in JobStatus
        BY TypeStep, <1>0 DEF TypeOK, JobRow
    <2>4. QED
        BY <1>2, <2>1, <2>2, <2>3, NoProviderAssumption DEF Advances, Rank, JobStatus
<1>3. CASE UNCHANGED submits
    BY <1>2, <1>3
<1>4. ASSUME NEW k \in JobIds, SubmitStep(k), ~ AssignJob(j)
      PROVE  submits[j].stage \in {"push", "accepted"} /\ submits'[j].target = submits[j].target
    <2>1. CASE Finding(k)
        BY <1>0, <2>1, FindEffect DEF OtherSubmits
    <2>2. CASE InsertJob(k)
        BY <1>0, <2>2, InsertEffect DEF OtherSubmits
    <2>3. CASE AssignJob(k)
        BY <1>0, <1>4, <2>3, AssignEffect DEF OtherSubmits
    <2>4. CASE SubmitReturns(k)
        <3>1. CASE k # j
            BY <1>0, <2>4, <3>1, SubmitReturnEffect DEF OtherSubmits
        <3>2. CASE k = j
            <4>0. submits' # [submits EXCEPT ![j].stage = "rejected"]
                BY <1>0, SubmitEffect
            <4>1. ~ PushUnacknowledged(j)
                BY <4>0 DEF PushUnacknowledged
            <4>2. ~ SubmitFails(j)
                BY <4>0 DEF SubmitFails
            <4>3. submits[j].stage = "push"
                BY <2>4, <3>2, <4>1, <4>2 DEF SubmitReturns, PushJob, PushJobResent
            <4>4. QED
                BY <1>0, <2>4, <3>2, <4>3, SubmitReturnEffect
        <3>3. QED
            BY <3>1, <3>2
    <2>5. QED
        BY <1>4, <2>1, <2>2, <2>3, <2>4 DEF SubmitStep, Finding, SubmitReturns
<1>5. CASE \E p \in Providers, s \in Slots : HandlerStep(p, s)
    <2> PICK p \in Providers, s \in Slots : HandlerStep(p, s)
        BY <1>5
    <2>1. UNCHANGED submits
        <3>1. CASE PopJob(p, s) \/ PopEmpty(p, s) \/ PopReplyLost(p, s) \/ SelectJob(p, s)
            BY <3>1 DEF PopJob, PopEmpty, PopReplyLost, SelectJob
        <3>2. CASE NoJobFound(p, s) \/ CommitJob(p, s) \/ ClaimFails(p, s)
            BY <3>2 DEF NoJobFound, CommitJob, ClaimFails
        <3>3. CASE Respond(p, s) \/ RespondLost(p, s)
            BY <3>3 DEF Respond, RespondLost
        <3>4. QED
            BY <3>1, <3>2, <3>3 DEF HandlerStep
    <2>2. QED
        BY <1>3, <2>1
<1>6. CASE (\E p \in Providers : ClientStep(p)) \/ (\E k \in JobIds : BuyerLeaves(k))
    BY <1>3, <1>6 DEF ClientStep, StartPoll, ClientGivesUp, AgentStops, BuyerLeaves
<1>7. QED
    BY <1>1, <1>2, <1>3, <1>4, <1>5, <1>6 DEF Next, vars

\* With no wakeup spilled, a scheduled job of a provider leaves the balance no
\* choice but a wakeup.
LEMMA ScheduledHasWakeup ==
    ASSUME WakeupInv, NEW p \in Providers, spilled[p] = 0, Scheduled(p) # {}
    PROVE  queue[p] # <<>> \/ Holders(p) # {} \/ Pushing(p) # {}
<1>1. Balance(p) /\ TypeOK
    BY DEF WakeupInv, WakeupsConserved, Balance, HandoffInv
<1>2. Cardinality(Scheduled(p)) # 0
    BY FiniteParts, FS_EmptySet
<1>3. /\ Cardinality(Holders(p)) \in Nat
      /\ Cardinality(Pushing(p)) \in Nat
      /\ Cardinality(Scheduled(p)) \in Nat
      /\ resent[p] \in Nat
    BY <1>1, CountTypes DEF TypeOK
<1>4. SUFFICES ASSUME queue[p] = <<>>, Holders(p) = {}, Pushing(p) = {} PROVE FALSE
    OBVIOUS
<1>5. Len(queue[p]) = 0 /\ Cardinality(Holders(p)) = 0 /\ Cardinality(Pushing(p)) = 0
    BY <1>4, FS_EmptySet
<1>6. QED
    BY <1>1, <1>2, <1>3, <1>5 DEF Balance

\* An accepted job is with a handler of its provider, or unlocked in the table
\* with a wakeup on its way, until it is settled: what the violated
\* AcceptedHasWakeup lacks is that no wakeup of the provider was spilled.
THEOREM AcceptedIsOnTheWay == Spec => []AcceptedOnTheWay
<1>1. Init => PlacedInv
    BY DEF Init, PlacedInv, NotCalled
<1>2. WakeupInv /\ PlacedInv => AcceptedOnTheWay
    <2> SUFFICES ASSUME WakeupInv, PlacedInv, NEW j \in JobIds, NEW p \in Providers,
                        submits[j].stage = "accepted", submits[j].target = p,
                        ~ Settled(j, p), \A s \in Slots : ~ Holds(p, s, j)
                 PROVE  /\ j \in Candidates(p)
                        /\ queue[p] # <<>> \/ Holders(p) # {} \/ Pushing(p) # {}
        BY DEF AcceptedOnTheWay
    <2>0. HeldInv /\ HandoffToOwner /\ spilled[p] \in Nat
        BY DEF WakeupInv, HandoffInv, TypeOK
    <2>1. jobs[j].status \in {"scheduled", "running"} /\ jobs[j].provider = p
        BY DEF PlacedInv
    <2>2. jobs[j].status # "running"
        <3>1. \A q \in Providers, s \in Slots : Holds(q, s, j) => q = p
            BY <2>0, <2>1 DEF HeldInv, Holds
        <3>2. \A q \in Providers : <<j, q>> \in received => q = p
            BY <2>0, <2>1 DEF HandoffToOwner
        <3>3. QED
            BY <3>1, <3>2 DEF Settled, Dropped
    <2>3. j \in Scheduled(p)
        BY <2>1, <2>2 DEF Scheduled
    <2>4. j \notin Locked(p)
        BY DEF Locked, Holds
    <2>5. spilled[p] = 0
        BY <2>0 DEF Settled
    <2>6. QED
        BY <2>3, <2>4, <2>5, ScheduledHasWakeup DEF Candidates
<1>3. WakeupInv /\ PlacedInv /\ [Next]_vars => WakeupInv' /\ PlacedInv'
    BY WakeupStep, PlacedStep DEF WakeupInv
<1>4. QED
    BY <1>1, <1>2, <1>3, WakeupInit, PTL DEF Spec

\* No wakeup was consumed in vain.
NoneSpilled == \A p \in Providers : spilled[p] = 0

\* AcceptedHasWakeup fails only where a wakeup was spilled, so by
\* OnlyDisconnectsLose, while the stores work, only after a poll that its client
\* gave up on, or after a Submit, of another job, whose buyer left between
\* AssignJob and PushJob; concurrent polls or duplicated pushes alone never make
\* an accepted job miss its wakeup.
THEOREM WakeupUnlessSpilled == Spec => [](NoneSpilled => AcceptedHasWakeup)
<1>1. Init => PlacedInv
    BY DEF Init, PlacedInv, NotCalled
<1>2. WakeupInv /\ PlacedInv => (NoneSpilled => AcceptedHasWakeup)
    <2> SUFFICES ASSUME WakeupInv, PlacedInv, NoneSpilled, NEW j \in JobIds,
                        submits[j].stage = "accepted", jobs[j].status = "scheduled"
                 PROVE  \/ queue[submits[j].target] # <<>>
                        \/ Holders(submits[j].target) # {}
                        \/ Pushing(submits[j].target) # {}
        BY DEF AcceptedHasWakeup
    <2>1. submits[j].target \in Providers /\ jobs[j].provider = submits[j].target
        BY DEF PlacedInv
    <2>2. Scheduled(submits[j].target) # {} /\ spilled[submits[j].target] = 0
        BY <2>1 DEF Scheduled, NoneSpilled
    <2>3. QED
        BY <2>1, <2>2, ScheduledHasWakeup
<1>3. WakeupInv /\ PlacedInv /\ [Next]_vars => WakeupInv' /\ PlacedInv'
    BY WakeupStep, PlacedStep DEF WakeupInv
<1>4. QED
    BY <1>1, <1>2, <1>3, WakeupInit, PTL DEF Spec

\* Once settled, a job stays settled: nothing takes it back from its agent or
\* makes a dropped job be handed out after all.
SettledStays ==
    [][\A j \in JobIds, p \in Providers : Settled(j, p) => Settled(j, p)']_vars

\* A dropped job stays dropped: it is not scheduled, so no handler gets it again.
LEMMA DroppedStays ==
    ASSUME HandoffInv, Next, NEW j \in JobIds, Dropped(j)
    PROVE  Dropped(j)'
<1>0. TypeOK /\ jobs[j].status = "running" /\ TypeOK'
    BY TypeStep DEF HandoffInv, Dropped
<1>1. jobs'[j].status = "running"
    <2>1. Advances(j) \/ UNCHANGED jobs
        BY AdvanceStep DEF vars
    <2>2. jobs'[j].status \in JobStatus
        BY <1>0 DEF TypeOK, JobRow
    <2>3. QED
        BY <1>0, <2>1, <2>2 DEF Advances, Rank, JobStatus
<1>2. \A p \in Providers : <<j, p>> \notin received'
    <2> SUFFICES ASSUME NEW p \in Providers, <<j, p>> \in received' PROVE FALSE
        OBVIOUS
    <2>1. <<j, p>> \notin received
        BY DEF Dropped
    <2>2. PICK s \in Slots : Respond(p, s) /\ polls[p][s].job = j
        BY <2>1, ReceivedGrows
    <2>3. QED
        BY <2>2 DEF Respond, Dropped, Holds
<1>3. \A p \in Providers, s \in Slots : ~ Holds(p, s, j)'
    BY <1>0, HoldBegins DEF Dropped
<1>4. QED
    BY <1>1, <1>2, <1>3 DEF Dropped

\* A step loses at most one wakeup.
Spills ==
    spilled' = spilled \/ \E q : spilled' = [spilled EXCEPT ![q] = @ + 1]

\* Agents that are gone stay gone, and what was spilled stays counted.
LEMMA LossesStay ==
    ASSUME TypeOK, Next, NEW p \in Providers
    PROVE  /\ p \in gone => p \in gone'
           /\ spilled[p] > 0 => spilled'[p] > 0
<1>0. spilled \in [Providers -> Nat]
    BY DEF TypeOK
<1>1. ASSUME NEW q, spilled' = [spilled EXCEPT ![q] = @ + 1], spilled[p] > 0
      PROVE  spilled'[p] > 0
    <2>1. CASE p = q
        BY <1>0, <1>1, <2>1
    <2>2. CASE p # q
        BY <1>0, <1>1, <2>2
    <2>3. QED
        BY <2>1, <2>2
<1>2. ASSUME NEW j \in JobIds, SubmitStep(j) PROVE gone' = gone /\ Spills
    BY <1>2 DEF SubmitStep, FindProvider, NoProviderFits, InsertJob, AssignJob, PushJob,
                PushJobResent, PushUnacknowledged, SubmitFails, Spills
<1>3. ASSUME NEW q \in Providers, NEW s \in Slots, HandlerStep(q, s)
      PROVE  gone' = gone /\ Spills
    <2>1. CASE PopJob(q, s) \/ PopEmpty(q, s) \/ PopReplyLost(q, s) \/ SelectJob(q, s)
        BY <2>1 DEF PopJob, PopEmpty, PopReplyLost, SelectJob, Spills
    <2>2. CASE NoJobFound(q, s) \/ CommitJob(q, s) \/ ClaimFails(q, s)
        BY <2>2 DEF NoJobFound, CommitJob, ClaimFails, Spills
    <2>3. CASE Respond(q, s) \/ RespondLost(q, s)
        BY <2>3 DEF Respond, RespondLost, Spills
    <2>4. QED
        BY <1>3, <2>1, <2>2, <2>3 DEF HandlerStep
<1>4. CASE (\E q \in Providers : ClientStep(q)) \/ (\E j \in JobIds : BuyerLeaves(j))
    BY <1>4 DEF ClientStep, StartPoll, ClientGivesUp, AgentStops, BuyerLeaves
<1>5. QED
    BY <1>1, <1>2, <1>3, <1>4 DEF Next, Spills

\* What AcceptedSettles leads to is for good, whatever the handlers do next.
THEOREM SettledForGood == Spec => SettledStays
<1>1. HandoffInv /\ [Next]_vars =>
          [\A j \in JobIds, p \in Providers : Settled(j, p) => Settled(j, p)']_vars
    <2> SUFFICES ASSUME HandoffInv, Next, NEW j \in JobIds, NEW p \in Providers, Settled(j, p)
                 PROVE  Settled(j, p)'
        OBVIOUS
    <2>1. TypeOK
        BY DEF HandoffInv
    <2>2. received \subseteq received'
        BY ReceivedGrows
    <2>3. QED
        BY <2>1, <2>2, DroppedStays, LossesStay DEF Settled
<1>2. QED
    BY <1>1, HandoffInit, HandoffStep, PTL DEF Spec, SettledStays
=============================================================================
