--------------------------- MODULE AdminProposals ---------------------------
(***************************************************************************)
(* What the admin assistant proposes, an admin reviews, and the server     *)
(* then executes.                                                          *)
(*                                                                         *)
(*   backend/services/admin_assistant_service.py                           *)
(*   backend/database/repositories/phase2.py (AdminApprovalRepository)     *)
(*                                                                         *)
(* Approving and executing are chains of transactions: the row is read in  *)
(* one, the target in another, an executor runs transactions of its own,   *)
(* and the outcome is recorded last.  The server handles one request at a  *)
(* time, so nothing of its own comes between two links of a chain; a crash *)
(* may, and so may another process that works on the target.               *)
(***************************************************************************)
EXTENDS Naturals

CONSTANTS
    Proposals,      \* rows of admin_approvals
    Targets,        \* what proposals act on
    NoTarget,       \* the target of a row that does not exist
    NoProposal,     \* no request is under way
    Fingerprints,   \* values a fingerprint function may return for a target
    OtherProcesses, \* TRUE: targets also change during a request of the server
    MaxEffects      \* bound: effects of one proposal

ASSUME NoTargetAssumption     == NoTarget \notin Targets
ASSUME NoProposalAssumption   == NoProposal \notin Proposals
ASSUME FingerprintsAssumption == Fingerprints # {}
ASSUME ProcessesAssumption    == OtherProcesses \in BOOLEAN
ASSUME EffectsAssumption      == MaxEffects \in Nat

VARIABLES
    row,     \* the rows
    target,  \* the present fingerprint of each target
    request, \* the review or execution under way in the server, and where it is
    effects  \* how often each proposal has changed its target

vars == <<row, target, request, effects>>

(* due: expires_at has passed, 24 hours after the proposal. *)
Row == [status: {"absent", "pending", "approved", "rejected", "cancelled", "expired"},
        target: Targets \cup {NoTarget},
        stale_check: Fingerprints,
        due: BOOLEAN,
        execution: {"not_applicable", "pending", "succeeded", "failed"}]

Request == [proposal: Proposals \cup {NoProposal},
            at: {"idle", "reviewed", "executing", "succeeding", "failing"}]

Idle == [proposal |-> NoProposal, at |-> "idle"]

TypeOK ==
    /\ row \in [Proposals -> Row]
    /\ target \in [Targets -> Fingerprints]
    /\ request \in Request
    /\ effects \in [Proposals -> 0 .. MaxEffects]

Init ==
    /\ \E f \in Fingerprints :
          row = [p \in Proposals |-> [status |-> "absent", target |-> NoTarget,
                    stale_check |-> f, due |-> FALSE, execution |-> "not_applicable"]]
    /\ target \in [Targets -> Fingerprints]
    /\ request = Idle
    /\ effects = [p \in Proposals |-> 0]

-----------------------------------------------------------------------------
(* _expire_if_due *)
Expires(p) == row[p].status = "pending" /\ row[p].due

ExpireIfDue(p) == row' = IF Expires(p) THEN [row EXCEPT ![p].status = "expired"] ELSE row

Propose(p, t) ==
    /\ request = Idle
    /\ row[p].status = "absent"
    /\ row' = [row EXCEPT ![p] = [status |-> "pending", target |-> t,
                  stale_check |-> target[t], due |-> FALSE, execution |-> "not_applicable"]]
    /\ UNCHANGED <<target, request, effects>>

(* Getting or listing a proposal: expiry is written when it is noticed. *)
GetProposal(p) ==
    /\ request = Idle
    /\ Expires(p)
    /\ ExpireIfDue(p)
    /\ UNCHANGED <<target, request, effects>>

(* Mutant: the fingerprint is not compared. *)
StartBlindApproval(p) ==
    /\ request = Idle
    /\ row[p].status = "pending"
    /\ ~row[p].due
    /\ request' = [proposal |-> p, at |-> "reviewed"]
    /\ UNCHANGED <<row, target, effects>>

(* An approval first reads the row and compares the target's fingerprint. *)
StartApproval(p) ==
    /\ request = Idle
    /\ row[p].status = "pending"
    /\ ~row[p].due
    /\ target[row[p].target] = row[p].stale_check
    /\ request' = [proposal |-> p, at |-> "reviewed"]
    /\ UNCHANGED <<row, target, effects>>

(* update_review: what it finds to be expired it does not keep, because it *)
(* raises in the same transaction.                                         *)
Review(p, decision) ==
    /\ row[p].status = "pending"
    /\ ~row[p].due
    /\ row' = [row EXCEPT ![p].status = decision,
                          ![p].execution = IF decision = "approved" THEN "pending"
                                           ELSE "not_applicable"]
    /\ UNCHANGED <<target, effects>>

Approve(p) ==
    /\ request = [proposal |-> p, at |-> "reviewed"]
    /\ request' = Idle
    /\ \/ Review(p, "approved")
       \/ row[p].due /\ UNCHANGED <<row, target, effects>>

Reject(p) ==
    /\ request = Idle
    /\ Review(p, "rejected")
    /\ UNCHANGED request

Cancel(p) ==
    /\ request = Idle
    /\ row[p].status = "pending"
    /\ ~row[p].due
    /\ row' = [row EXCEPT ![p].status = "cancelled"]
    /\ UNCHANGED <<target, request, effects>>

(* Mutant: an execution looks at the row's decision only after the executor. *)
StartAnyExecution(p) ==
    /\ request = Idle
    /\ row[p].status \in {"pending", "approved"}
    /\ request' = [proposal |-> p, at |-> "executing"]
    /\ UNCHANGED <<row, target, effects>>

StartExecution(p) ==
    /\ request = Idle
    /\ row[p].status = "approved"
    /\ request' = [proposal |-> p, at |-> "executing"]
    /\ UNCHANGED <<row, target, effects>>

(* The executor: a call of an existing service.  It may raise, before or   *)
(* after some of its transactions have been committed.                     *)
Executor(p, outcome) ==
    /\ request = [proposal |-> p, at |-> "executing"]
    /\ request' = [request EXCEPT !.at = outcome]
    /\ \/ /\ effects[p] < MaxEffects
          /\ effects' = [effects EXCEPT ![p] = @ + 1]
          /\ \E f \in Fingerprints : target' = [target EXCEPT ![row[p].target] = f]
       \/ /\ outcome = "failing"
          /\ UNCHANGED <<target, effects>>
    /\ UNCHANGED row

(* Mutant: an exception of the executor is recorded as success. *)
RecordSwallowed(p) ==
    /\ request.proposal = p
    /\ request.at \in {"succeeding", "failing"}
    /\ request' = Idle
    /\ row' = IF row[p].status = "approved" /\ row[p].execution = "pending"
              THEN [row EXCEPT ![p].execution = "succeeded"] ELSE row
    /\ UNCHANGED <<target, effects>>

(* update_execution.  It raises when the outcome is decided already.        *)
RecordOutcome(p) ==
    /\ request.proposal = p
    /\ request.at \in {"succeeding", "failing"}
    /\ request' = Idle
    /\ row' = IF row[p].status = "approved" /\ row[p].execution = "pending"
              THEN [row EXCEPT ![p].execution =
                      IF request.at = "succeeding" THEN "succeeded" ELSE "failed"]
              ELSE row
    /\ UNCHANGED <<target, effects>>

-----------------------------------------------------------------------------
(* The environment: 24 hours pass, the server dies in the middle of a      *)
(* request, and targets change through calls of their own services.        *)

TimePasses(p) ==
    /\ row[p].status # "absent"
    /\ ~row[p].due
    /\ row' = [row EXCEPT ![p].due = TRUE]
    /\ UNCHANGED <<target, request, effects>>

Crash ==
    /\ request # Idle
    /\ request' = Idle
    /\ UNCHANGED <<row, target, effects>>

TargetChanges(t) ==
    /\ request = Idle \/ OtherProcesses
    /\ \E f \in Fingerprints \ {target[t]} : target' = [target EXCEPT ![t] = f]
    /\ UNCHANGED <<row, request, effects>>

Next ==
    \/ \E p \in Proposals :
          \/ \E t \in Targets : Propose(p, t)
          \/ GetProposal(p) \/ StartApproval(p) \/ Approve(p) \/ Reject(p) \/ Cancel(p)
          \/ StartExecution(p) \/ RecordOutcome(p) \/ TimePasses(p)
          \/ \E outcome \in {"succeeding", "failing"} : Executor(p, outcome)
    \/ Crash
    \/ \E t \in Targets : TargetChanges(t)

Spec == Init /\ [][Next]_vars

-----------------------------------------------------------------------------
(* What a proposal that was refused, withdrawn, left to expire or never    *)
(* decided does: nothing.  Only what was approved has had an effect, at    *)
(* whatever point of a review or an execution the server died.             *)
OnlyApprovedActs ==
    \A p \in Proposals : effects[p] > 0 => row[p].status = "approved"

(* An execution reported to have succeeded or failed belongs to a proposal *)
(* that was approved, and one reported to have succeeded did change its    *)
(* target: the assistant never claims completion before the fact.          *)
ReportsAreTrue ==
    \A p \in Proposals :
        /\ row[p].execution # "not_applicable" => row[p].status = "approved"
        /\ row[p].execution = "succeeded" => effects[p] > 0

(* An approval is given to the target the proposal was made for: the       *)
(* fingerprint at that moment is the one taken when it was proposed.  It   *)
(* needs the server to be the only process that changes targets.           *)
ApprovedAsProposed ==
    [][\A p \in Proposals :
          row[p].status # "approved" /\ row'[p].status = "approved"
             => target[row[p].target] = row[p].stale_check]_vars

(* A decision stays: nothing reopens a decided proposal, and what was      *)
(* reported of an execution is not rewritten by a retry.                   *)
DecisionsStay ==
    [][\A p \in Proposals :
          /\ row[p].status \notin {"absent", "pending"}
                => row'[p].status = row[p].status
          /\ row[p].execution \in {"succeeded", "failed"}
                => row'[p].execution = row[p].execution]_vars

(* To the admin who reviews it, a proposal is what ApprovedActions says: it   *)
(* is decided once, acts only once approved, and one report follows.          *)
Decision(status) == CASE status \in {"absent", "pending"} -> "open"
                      [] status = "approved"              -> "approved"
                      [] OTHER                            -> "refused"

Reported(execution) == IF execution \in {"succeeded", "failed"} THEN execution ELSE "none"

Promised == INSTANCE ApprovedActions WITH
    decision <- [p \in Proposals |-> Decision(row[p].status)],
    acts     <- effects,
    report   <- [p \in Proposals |-> Reported(row[p].execution)]

ActsAsDecided == Promised!ActionsSpec

(* "Exactly-once execution is enforced at the repository layer"            *)
(* (docs/admin_assistant/phase8_floating_context_aware_admin_assistant_    *)
(* plan.md:35).                                                            *)
ExecutedAtMostOnce == \A p \in Proposals : effects[p] <= 1

(* Fingerprints are "checked at both review() and execute()"               *)
(* (docs/sample_import/phase12_sample_import_quarantine_plan.md:23).       *)
ExecutedAsApproved ==
    [][\A p \in Proposals :
          request'.proposal = p /\ request'.at = "executing" /\ request # request'
             => target[row[p].target] = row[p].stale_check]_vars
=============================================================================
