-------------------------- MODULE AssignedReleases --------------------------
(***************************************************************************)
(* What assigning a release promises to whoever asks the assignment:       *)
(* behind it is a release that was approved for it, or none; approving     *)
(* another one takes the assignment out of service first.                  *)
(***************************************************************************)
CONSTANTS Assignments, Releases, NoRelease

VARIABLES serving, approved

serviceVars == <<serving, approved>>

ServiceInit ==
    /\ serving = [a \in Assignments |-> NoRelease]
    /\ approved = [a \in Assignments |-> {}]

ApproveRelease(a, r) ==
    /\ serving[a] = NoRelease
    /\ approved' = [approved EXCEPT ![a] = @ \cup {r}]
    /\ UNCHANGED serving

Serve(a, r) ==
    /\ r \in approved[a]
    /\ serving' = [serving EXCEPT ![a] = r]
    /\ UNCHANGED approved

Withdraw(a) ==
    /\ serving' = [serving EXCEPT ![a] = NoRelease]
    /\ UNCHANGED approved

ServiceNext ==
    \E a \in Assignments :
      \/ \E r \in Releases : ApproveRelease(a, r) \/ Serve(a, r)
      \/ Withdraw(a)

ServiceSpec == ServiceInit /\ [][ServiceNext]_serviceVars

=============================================================================
