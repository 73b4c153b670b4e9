-------------------------- MODULE DurableTraining --------------------------
(***************************************************************************)
(* What a pretraining job promises to the admin who queued it, whatever    *)
(* workers, leases, crashes and recoveries happen underneath: the progress *)
(* that has been registered is never lost, it never passes the goal, and   *)
(* the job is called completed only when the goal is registered, for good. *)
(***************************************************************************)
EXTENDS Naturals

CONSTANTS Jobs, Goals

VARIABLES phase, goal, saved

durableVars == <<phase, goal, saved>>

DurableInit ==
    /\ phase = [j \in Jobs |-> "new"]
    /\ goal \in [Jobs -> Goals]
    /\ saved = [j \in Jobs |-> 0]

Configure(j, g) ==
    /\ phase[j] = "new"
    /\ goal' = [goal EXCEPT ![j] = g]
    /\ UNCHANGED <<phase, saved>>

Submit(j) ==
    /\ phase[j] = "new"
    /\ phase' = [phase EXCEPT ![j] = "open"]
    /\ UNCHANGED <<goal, saved>>

Save(j, n) ==
    /\ phase[j] = "open"
    /\ n \in saved[j] .. goal[j]
    /\ saved' = [saved EXCEPT ![j] = n]
    /\ UNCHANGED <<phase, goal>>

Complete(j) ==
    /\ phase[j] = "open"
    /\ saved[j] = goal[j]
    /\ phase' = [phase EXCEPT ![j] = "completed"]
    /\ UNCHANGED <<goal, saved>>

Abandon(j) ==
    /\ phase[j] = "open"
    /\ phase' = [phase EXCEPT ![j] = "cancelled"]
    /\ UNCHANGED <<goal, saved>>

DurableNext ==
    \E j \in Jobs :
      \/ \E g \in Goals : Configure(j, g)
      \/ Submit(j)
      \/ \E n \in 0 .. goal[j] : Save(j, n)
      \/ Complete(j)
      \/ Abandon(j)

DurableSpec == DurableInit /\ [][DurableNext]_durableVars

=============================================================================
