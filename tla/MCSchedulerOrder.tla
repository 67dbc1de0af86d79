-------------------------- MODULE MCSchedulerOrder --------------------------
(* Scheduler with a record of the order in which jobs were inserted, to ask  *)
(* whether they are claimed in that order.                                  *)
EXTENDS MCScheduler, SequencesExt

VARIABLE inserted       \* the job ids, in the order of their InsertJob

OrderInit == Init /\ inserted = <<>>

OrderNext ==
    /\ Next
    /\ inserted' = inserted \o
           SetToSeq({j \in JobIds : jobs[j].status = "none" /\ jobs'[j].status = "pending"})

OrderSpec == OrderInit /\ [][OrderNext]_<<vars, inserted>>

\* "NextPendingJob returns the oldest pending job assigned to providerID"
\* (postgres.go:149): a handler never selects a job while one inserted earlier
\* waits unlocked for the same provider.
OldestFirst ==
    [][\A p \in Providers, s \in Slots :
           polls[p][s].stage = "select" /\ polls'[p][s].stage = "commit" =>
               \A i, k \in DOMAIN inserted :
                   i < k /\ inserted[k] = polls'[p][s].job
                       => inserted[i] \notin Candidates(p)]_<<vars, inserted>>
=============================================================================
