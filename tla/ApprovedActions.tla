-------------------------- MODULE ApprovedActions --------------------------
(***************************************************************************)
(* What the assistant promises to the admin who reviews its proposals,     *)
(* wherever a review or an execution is cut short: a proposal is decided   *)
(* once; it acts only after it was approved; what is reported of it is     *)
(* reported once, and success only after it acted.  That it acts once is   *)
(* not promised: an execution that dies before its report is repeated.     *)
(***************************************************************************)
EXTENDS Naturals

CONSTANT Proposals

VARIABLES
    decision, \* per proposal: open, approved or refused
    acts,     \* how often it has acted
    report    \* what was reported of its execution: none, succeeded or failed

actionVars == <<decision, acts, report>>

ActionsInit ==
    /\ decision = [p \in Proposals |-> "open"]
    /\ acts = [p \in Proposals |-> 0]
    /\ report = [p \in Proposals |-> "none"]

Decide(p, verdict) ==
    /\ decision[p] = "open"
    /\ decision' = [decision EXCEPT ![p] = verdict]
    /\ UNCHANGED <<acts, report>>

Act(p) ==
    /\ decision[p] = "approved"
    /\ acts' = [acts EXCEPT ![p] = @ + 1]
    /\ UNCHANGED <<decision, report>>

Report(p, outcome) ==
    /\ decision[p] = "approved"
    /\ report[p] = "none"
    /\ outcome = "succeeded" => acts[p] > 0
    /\ report' = [report EXCEPT ![p] = outcome]
    /\ UNCHANGED <<decision, acts>>

ActionsNext ==
    \E p \in Proposals :
      \/ \E verdict \in {"approved", "refused"} : Decide(p, verdict)
      \/ Act(p)
      \/ \E outcome \in {"succeeded", "failed"} : Report(p, outcome)

ActionsSpec == ActionsInit /\ [][ActionsNext]_actionVars

=============================================================================
