---------------------------- MODULE JobLifecycle ----------------------------
(***************************************************************************)
(* What the deploy path promises about one job, whatever the interleaving  *)
(* of HTTP handlers, database transactions and queue operations: a job is  *)
(* placed on one provider, handed over at most once, and if it reaches an  *)
(* agent at all it reaches the agent of the provider it was placed on.     *)
(*                                                                         *)
(* The promise is at-most-once: nothing here says that a placed job is     *)
(* handed over, and a job handed over may be dropped on the way.           *)
(***************************************************************************)

CONSTANTS Jobs,         \* the jobs buyers may deploy
          Owners,       \* the providers
          NoOwner       \* the owner of a job that is not placed yet

VARIABLES phase,        \* phase[j]: how far job j has come
          owner,        \* owner[j]: the provider j was placed on
          got           \* got[j]: the providers whose agent decoded j

vars == <<phase, owner, got>>

Phases == {"unplaced", "placed", "handed", "delivered", "dropped"}

Init ==
    /\ phase = [j \in Jobs |-> "unplaced"]
    /\ owner = [j \in Jobs |-> NoOwner]
    /\ got = [j \in Jobs |-> {}]

Place(j, p) ==
    /\ phase[j] = "unplaced"
    /\ phase' = [phase EXCEPT ![j] = "placed"]
    /\ owner' = [owner EXCEPT ![j] = p]
    /\ UNCHANGED got

HandOver(j) ==
    /\ phase[j] = "placed"
    /\ phase' = [phase EXCEPT ![j] = "handed"]
    /\ UNCHANGED <<owner, got>>

Deliver(j) ==
    /\ phase[j] = "handed"
    /\ phase' = [phase EXCEPT ![j] = "delivered"]
    /\ got' = [got EXCEPT ![j] = {owner[j]}]
    /\ UNCHANGED owner

Drop(j) ==
    /\ phase[j] = "handed"
    /\ phase' = [phase EXCEPT ![j] = "dropped"]
    /\ UNCHANGED <<owner, got>>

Next ==
    \E j \in Jobs :
        \/ \E p \in Owners : Place(j, p)
        \/ HandOver(j)
        \/ Deliver(j)
        \/ Drop(j)

Spec == Init /\ [][Next]_vars
=============================================================================
