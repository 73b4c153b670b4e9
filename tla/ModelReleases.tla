---------------------------- MODULE ModelReleases ----------------------------
(***************************************************************************)
(* The release registry: a candidate collects its evidence, is assessed    *)
(* and approved, and becomes a release of its family; releases are         *)
(* deprecated, retired and rolled back.                                    *)
(*                                                                         *)
(*   backend/services/model_release_service.py       the operations        *)
(*   backend/database/repositories/model_release.py  the rows              *)
(*   core_model/release/eligibility.py               the verdict           *)
(*   core_model/release/approval_policy.py           who has approved      *)
(*   core_model/release/rollback.py                  what may be restored  *)
(*                                                                         *)
(* Every operation is one transaction. A checksum is the thing it is of:   *)
(* two assessments, or two manifests, have the same checksum when they say *)
(* the same.                                                               *)
(***************************************************************************)
EXTENDS Naturals, Sequences

CONSTANTS
    Families,       \* rows of model_release_families
    Candidates,     \* rows of model_release_candidates
    FamilyOf,       \* per candidate its family, fixed when it is created
    Versions,       \* version strings
    NoRelease, NoCandidate,
    Roles,          \* the roles an approval may be given in
    RequiredRoles,  \* release_required_approval_roles
    AllowWarnings,  \* release_allow_warning_eligibility
    Plans,          \* rows of model_release_rollback_plans
    Evaluations,    \* bound: what the evaluation of a model may come to say
    Findings,       \* bound: what a collection of artifacts may find
    CardVerdicts,   \* bound: what the validation of a model card may say
    MaxEdits,       \* bound: operations on the evidence of a candidate
    MaxApprovals    \* bound: approvals per candidate

(* A release is known by its family and version, which are unique together. *)
Releases == Families \X Versions

ASSUME FamilyAssumption == /\ FamilyOf \in [Candidates -> Families]
                           /\ NoRelease \notin Releases
                           /\ NoCandidate \notin Candidates
ASSUME RoleAssumption == RequiredRoles \subseteq Roles /\ AllowWarnings \in BOOLEAN
ASSUME EvidenceAssumption == /\ Evaluations \subseteq {"passed", "warning", "blocked"}
                             /\ Findings \subseteq {"missing", "verified", "mismatched"}
                             /\ CardVerdicts \subseteq {"valid", "invalid"}
ASSUME BoundAssumption == MaxEdits \in Nat /\ MaxApprovals \in Nat

VARIABLES
    evaluation, \* per candidate, the latest readiness assessment of its run
    artifacts,  \* per candidate, what its artifact rows add up to
    card,       \* per candidate, the state of its latest model card
    elig,       \* per candidate, its latest eligibility assessment
    edits,      \* per candidate, how often its evidence was worked on
    manifest,   \* per candidate, its latest release manifest
    approvals,  \* per candidate, its approvals in order
    issues,     \* the candidates with a blocking issue on record
    cand,       \* per candidate, its status
    rel,        \* the releases
    current,    \* per family, current_release_public_id
    plan        \* the rollback plans

vars == <<evaluation, artifacts, card, elig, edits, manifest, approvals,
          issues, cand, rel, current, plan>>

(* rejected, superseded and archived are in the CHECK and never written. *)
CandidateStatuses ==
    {"absent", "draft", "collecting_artifacts", "validating", "eligible",
     "eligible_with_warnings", "blocked", "approved", "released"}

(* mismatched: some row, of this collection or an earlier one, does not match. *)
ArtifactStates == {"none", "missing", "verified", "mismatched"}
EvaluationStates == Evaluations \cup {"none"}
CardStates == {"missing", "not_validated", "valid", "invalid"}
Eligible == {"eligible", "eligible_with_warnings"}

Assessment == [status: {"not_assessed", "blocked"} \cup Eligible,
               artifacts: ArtifactStates, evaluation: EvaluationStates, card: CardStates]
NotAssessed(a) == a.status = "not_assessed"

(* What a manifest says: the assessment, and the list of the decisions so far. *)
Manifest == [written: BOOLEAN, elig: Assessment, approvals: 0 .. MaxApprovals]

(* approve_with_warning counts as approve, request_changes as reject. *)
Approval == [role: Roles, decision: {"approve", "reject"},
             elig: Assessment, manifest: Manifest]

(* draft and archived are in the CHECK and never written. *)
ReleaseRow == [status: {"absent", "released", "deprecated", "retired", "rolled_back"},
               candidate: Candidates \cup {NoCandidate},
               deployable: {"deployable", "deployable_with_warnings", "not_deployable"}]

(* cancelled is in the CHECK and never written. *)
PlanRow == [status: {"absent", "draft", "rejected", "validated", "approved", "executed"},
            source: Releases \cup {NoRelease}, target: Releases \cup {NoRelease}]

TypeOK ==
    /\ evaluation \in [Candidates -> EvaluationStates]
    /\ artifacts \in [Candidates -> ArtifactStates]
    /\ card \in [Candidates -> CardStates]
    /\ elig \in [Candidates -> Assessment]
    /\ edits \in [Candidates -> 0 .. MaxEdits]
    /\ manifest \in [Candidates -> Manifest]
    /\ approvals \in [Candidates -> Seq(Approval)]
    /\ \A c \in Candidates : Len(approvals[c]) <= MaxApprovals
    /\ issues \subseteq Candidates
    /\ cand \in [Candidates -> CandidateStatuses]
    /\ rel \in [Releases -> ReleaseRow]
    /\ current \in [Families -> Releases \cup {NoRelease}]
    /\ plan \in [Plans -> PlanRow]

Exists(r) == rel[r].status # "absent"
InRegistry(c) == cand[c] # "absent"
FamilyOfRelease(r) == r[1]

NothingAssessed == [status |-> "not_assessed", artifacts |-> "none",
                    evaluation |-> "none", card |-> "missing"]

Init ==
    /\ evaluation = [c \in Candidates |-> "none"]
    /\ artifacts = [c \in Candidates |-> "none"]
    /\ card = [c \in Candidates |-> "missing"]
    /\ elig = [c \in Candidates |-> NothingAssessed]
    /\ edits = [c \in Candidates |-> 0]
    /\ manifest = [c \in Candidates |->
                     [written |-> FALSE, elig |-> NothingAssessed, approvals |-> 0]]
    /\ approvals = [c \in Candidates |-> << >>]
    /\ issues = {}
    /\ cand = [c \in Candidates |-> "absent"]
    /\ rel = [r \in Releases |-> [status |-> "absent", candidate |-> NoCandidate,
                                  deployable |-> "not_deployable"]]
    /\ current = [f \in Families |-> NoRelease]
    /\ plan = [p \in Plans |->
                 [status |-> "absent", source |-> NoRelease, target |-> NoRelease]]

-----------------------------------------------------------------------------
(* The evidence of a candidate.                                             *)

ReleasesAsBefore == UNCHANGED <<rel, current, plan>>

(* Every operation here asks only that the candidate exists. *)
Edit(c) ==
    /\ InRegistry(c)
    /\ edits[c] < MaxEdits
    /\ edits' = [edits EXCEPT ![c] = @ + 1]

(* The evaluation service re-assesses the candidate's run whenever it likes. *)
Reevaluate(c, result) ==
    /\ Edit(c)
    /\ evaluation' = [evaluation EXCEPT ![c] = result]
    /\ UNCHANGED <<artifacts, card, elig, manifest, approvals, issues, cand>>
    /\ ReleasesAsBefore

CreateCandidate(c) ==
    /\ cand[c] = "absent"
    /\ cand' = [cand EXCEPT ![c] = "draft"]
    /\ UNCHANGED <<evaluation, artifacts, card, elig, edits, manifest, approvals, issues>>
    /\ ReleasesAsBefore

(* Rows are only ever added and the mismatched ones are counted over all of   *)
(* them; for the other checks the last row of a type is the one that counts.  *)
CollectArtifacts(c, found) ==
    /\ Edit(c)
    /\ artifacts' = [artifacts EXCEPT ![c] = IF @ = "mismatched" THEN @ ELSE found]
    /\ cand' = [cand EXCEPT ![c] = "collecting_artifacts"]
    /\ UNCHANGED <<evaluation, card, elig, manifest, approvals, issues>>
    /\ ReleasesAsBefore

(* Counts the verified rows; what it changes is the candidate's status. *)
VerifyArtifacts(c) ==
    /\ Edit(c)
    /\ cand' = [cand EXCEPT ![c] = "validating"]
    /\ UNCHANGED <<evaluation, artifacts, card, elig, manifest, approvals, issues>>
    /\ ReleasesAsBefore

GenerateModelCard(c) ==
    /\ Edit(c)
    /\ card' = [card EXCEPT ![c] = "not_validated"]
    /\ UNCHANGED <<evaluation, artifacts, elig, manifest, approvals, issues, cand>>
    /\ ReleasesAsBefore

ValidateModelCard(c, verdict) ==
    /\ Edit(c)
    /\ card[c] # "missing"
    /\ card' = [card EXCEPT ![c] = verdict]
    /\ UNCHANGED <<evaluation, artifacts, elig, manifest, approvals, issues, cand>>
    /\ ReleasesAsBefore

(* assess_release_eligibility, with the default requirements. *)
Blocks(c) ==
    \/ artifacts[c] # "verified"
    \/ evaluation[c] \in {"none", "blocked"}
    \/ card[c] \in {"missing", "invalid"}
    \/ ~AllowWarnings /\ (evaluation[c] = "warning" \/ card[c] = "not_validated")
Warns(c) == evaluation[c] = "warning" \/ card[c] = "not_validated"

Verdict(c) ==
    IF Blocks(c) THEN "blocked"
    ELSE IF Warns(c) THEN "eligible_with_warnings" ELSE "eligible"

Assessed(c) == [status |-> Verdict(c), artifacts |-> artifacts[c],
                evaluation |-> evaluation[c], card |-> card[c]]

(* Mutant: an approved candidate keeps its approval through a re-assessment. *)
AssessKeepingApproval(c) ==
    /\ Edit(c)
    /\ elig' = [elig EXCEPT ![c] = Assessed(c)]
    /\ cand' = [cand EXCEPT ![c] = IF @ = "approved" THEN @ ELSE Verdict(c)]
    /\ issues' = IF Verdict(c) = "blocked" THEN issues \cup {c} ELSE issues
    /\ UNCHANGED <<evaluation, artifacts, card, manifest, approvals>>
    /\ ReleasesAsBefore

(* Whatever the candidate's status was, it becomes the verdict. *)
AssessEligibility(c) ==
    /\ Edit(c)
    /\ elig' = [elig EXCEPT ![c] = Assessed(c)]
    /\ cand' = [cand EXCEPT ![c] = Verdict(c)]
    /\ issues' = IF Verdict(c) = "blocked" THEN issues \cup {c} ELSE issues
    /\ UNCHANGED <<evaluation, artifacts, card, manifest, approvals>>
    /\ ReleasesAsBefore

GenerateManifest(c) ==
    /\ Edit(c)
    /\ manifest' = [manifest EXCEPT ![c] =
                      [written |-> TRUE, elig |-> elig[c],
                       approvals |-> Len(approvals[c])]]
    /\ UNCHANGED <<evaluation, artifacts, card, elig, approvals, issues, cand>>
    /\ ReleasesAsBefore

-----------------------------------------------------------------------------
(* Approval.                                                                *)

DecidedBy(decided, role) == {k \in 1 .. Len(decided) : decided[k].role = role}

(* The latest decision of a role is the one that counts. *)
IsLatest(decided, k) ==
    \A later \in DecidedBy(decided, decided[k].role) : later <= k

PolicySatisfied(decided) ==
    /\ decided # << >>
    /\ \A role \in RequiredRoles : DecidedBy(decided, role) # {}
    /\ \A k \in 1 .. Len(decided) :
          IsLatest(decided, k) => decided[k].decision = "approve"

(* A manifest is compared only when there was one on both occasions. *)
Stale(approval, c) ==
    \/ approval.elig # elig[c]
    \/ approval.manifest.written /\ manifest[c].written /\ approval.manifest # manifest[c]

Submitted(c, role, decision) ==
    Append(approvals[c], [role |-> role, decision |-> decision,
                          elig |-> elig[c], manifest |-> manifest[c]])

Promoted(c, decided) ==
    IF PolicySatisfied(decided) /\ cand[c] \in Eligible THEN "approved" ELSE cand[c]

SubmitApproval(c, role, decision) ==
    /\ InRegistry(c)
    /\ ~NotAssessed(elig[c])
    /\ ~(cand[c] = "blocked" /\ decision = "approve")
    /\ Len(approvals[c]) < MaxApprovals
    /\ approvals' = [approvals EXCEPT ![c] = Submitted(c, role, decision)]
    /\ cand' = [cand EXCEPT ![c] = Promoted(c, Submitted(c, role, decision))]
    /\ UNCHANGED <<evaluation, artifacts, card, elig, edits, manifest, issues>>
    /\ ReleasesAsBefore

-----------------------------------------------------------------------------
(* Releases.                                                                *)

EvidenceAsBefore ==
    UNCHANGED <<evaluation, artifacts, card, elig, edits, manifest, approvals, issues>>

(* Mutant: the approved status is taken for the approvals. *)
TrustsTheStatus(c) ==
    /\ cand[c] = "approved"
    /\ elig[c].status \in Eligible
    /\ manifest[c].written

(* create_release looks at every approval there ever was. *)
Releasable(c) ==
    /\ cand[c] = "approved"
    /\ elig[c].status \in Eligible
    /\ manifest[c].written
    /\ PolicySatisfied(approvals[c])
    /\ \A k \in 1 .. Len(approvals[c]) : ~Stale(approvals[c][k], c)

CreateRelease(c, v) ==
    LET r == <<FamilyOf[c], v>> IN
    /\ Releasable(c)
    /\ ~Exists(r)
    /\ rel' = [rel EXCEPT ![r] =
                 [status |-> "released", candidate |-> c,
                  deployable |-> IF elig[c].status = "eligible"
                                 THEN "deployable" ELSE "deployable_with_warnings"]]
    /\ cand' = [cand EXCEPT ![c] = "released"]
    /\ current' = [current EXCEPT ![FamilyOf[c]] = r]
    /\ UNCHANGED plan
    /\ EvidenceAsBefore

DeprecateRelease(r) ==
    /\ rel[r].status = "released"
    /\ rel' = [rel EXCEPT ![r] = [status |-> "deprecated", candidate |-> @.candidate,
                                  deployable |-> @.deployable]]
    /\ UNCHANGED <<cand, current, plan>>
    /\ EvidenceAsBefore

(* Mutant: retiring does not ask for the status. *)
RetireAnyRelease(r) ==
    /\ Exists(r)
    /\ rel' = [rel EXCEPT ![r] = [status |-> "retired", candidate |-> @.candidate,
                                  deployable |-> "not_deployable"]]
    /\ UNCHANGED <<cand, current, plan>>
    /\ EvidenceAsBefore

(* The family keeps pointing at a release that is retired. *)
RetireRelease(r) ==
    /\ rel[r].status \in {"released", "deprecated"}
    /\ rel' = [rel EXCEPT ![r] = [status |-> "retired", candidate |-> @.candidate,
                                  deployable |-> "not_deployable"]]
    /\ UNCHANGED <<cand, current, plan>>
    /\ EvidenceAsBefore

-----------------------------------------------------------------------------
(* Rollback.                                                                *)

(* assess_rollback_target. *)
SoundTarget(r) ==
    /\ rel[r].status \in {"released", "deprecated"}
    /\ rel[r].deployable # "not_deployable"
    /\ elig[rel[r].candidate].status \in Eligible
    /\ manifest[rel[r].candidate].written
    /\ rel[r].candidate \notin issues

(* The target is assessed here, once; the source may be any release. *)
CreateRollbackPlan(p, source, target) ==
    /\ plan[p].status = "absent"
    /\ Exists(source) /\ Exists(target)
    /\ FamilyOfRelease(source) = FamilyOfRelease(target)
    /\ plan' = [plan EXCEPT ![p] =
                  [status |-> IF SoundTarget(target) THEN "draft" ELSE "rejected",
                   source |-> source, target |-> target]]
    /\ UNCHANGED <<cand, rel, current>>
    /\ EvidenceAsBefore

Moved(p, status) == [status |-> status, source |-> plan[p].source, target |-> plan[p].target]

(* The stored assessment of a draft plan is always favourable. *)
ValidateRollbackPlan(p) ==
    /\ plan[p].status = "draft"
    /\ plan' = [plan EXCEPT ![p] = Moved(p, "validated")]
    /\ UNCHANGED <<cand, rel, current>>
    /\ EvidenceAsBefore

ApproveRollbackPlan(p) ==
    /\ plan[p].status = "validated"
    /\ plan' = [plan EXCEPT ![p] = Moved(p, "approved")]
    /\ UNCHANGED <<cand, rel, current>>
    /\ EvidenceAsBefore

(* Mutant: the restored release is put back in service. *)
ExecuteRestoring(p) ==
    /\ plan[p].status = "approved"
    /\ rel' = [rel EXCEPT ![plan[p].source].status = "rolled_back",
                          ![plan[p].target].status = "released"]
    /\ current' = [current EXCEPT ![FamilyOfRelease(plan[p].target)] = plan[p].target]
    /\ plan' = [plan EXCEPT ![p] = Moved(p, "executed")]
    /\ UNCHANGED cand
    /\ EvidenceAsBefore

(* Neither release is looked at again. *)
ExecuteRollbackPlan(p) ==
    /\ plan[p].status = "approved"
    /\ rel' = [rel EXCEPT ![plan[p].source] =
                 [status |-> "rolled_back", candidate |-> @.candidate,
                  deployable |-> @.deployable]]
    /\ current' = [current EXCEPT ![FamilyOfRelease(plan[p].target)] = plan[p].target]
    /\ plan' = [plan EXCEPT ![p] = Moved(p, "executed")]
    /\ UNCHANGED cand
    /\ EvidenceAsBefore

-----------------------------------------------------------------------------
Next ==
    \/ \E c \in Candidates, result \in Evaluations : Reevaluate(c, result)
    \/ \E c \in Candidates :
         \/ CreateCandidate(c)
         \/ \E found \in Findings : CollectArtifacts(c, found)
         \/ VerifyArtifacts(c)
         \/ GenerateModelCard(c)
         \/ \E verdict \in CardVerdicts : ValidateModelCard(c, verdict)
         \/ AssessEligibility(c)
         \/ GenerateManifest(c)
         \/ \E role \in Roles, decision \in {"approve", "reject"} :
              SubmitApproval(c, role, decision)
         \/ \E v \in Versions : CreateRelease(c, v)
    \/ \E r \in Releases : DeprecateRelease(r) \/ RetireRelease(r)
    \/ \E p \in Plans, source, target \in Releases : CreateRollbackPlan(p, source, target)
    \/ \E p \in Plans :
         \/ ValidateRollbackPlan(p)
         \/ ApproveRollbackPlan(p)
         \/ ExecuteRollbackPlan(p)

Spec == Init /\ [][Next]_vars

-----------------------------------------------------------------------------
(* What the registry says of a candidate is what its evidence says: the      *)
(* status of an assessed, approved or released candidate is backed by its    *)
(* latest assessment, whatever was collected, re-assessed or re-approved in  *)
(* between.                                                                  *)
StatusFollowsEvidence ==
    \A c \in Candidates :
        /\ cand[c] \in Eligible \cup {"blocked"} => elig[c].status = cand[c]
        /\ cand[c] \in {"approved", "released"} => elig[c].status \in Eligible

(* A release is made of what was reviewed: every required role has decided,  *)
(* no role's latest decision is a refusal (a refusal after the candidate was *)
(* approved counts), and the approvers saw the assessment that is released.  *)
ReleasedAsReviewed ==
    [][\A c \in Candidates : cand[c] # "released" /\ cand'[c] = "released" =>
         /\ \A role \in RequiredRoles : DecidedBy(approvals[c], role) # {}
         /\ \A k \in 1 .. Len(approvals[c]) :
               IsLatest(approvals[c], k) =>
                  /\ approvals[c][k].decision = "approve"
                  /\ approvals[c][k].elig = elig[c]]_vars

(* What the runtime and the assignments rely on: a release that is no longer *)
(* released never becomes so again, by no order of retirements and rollbacks *)
(* of several plans.                                                         *)
WithdrawnForGood ==
    [][\A r \in Releases : rel[r].status \notin {"absent", "released"} =>
         rel'[r].status \notin {"absent", "released"}]_vars

(* A rollback stays in its family: an executed plan has rolled its source    *)
(* back, and a family's pointer names one of its own releases.               *)
RollbackStaysInFamily ==
    /\ \A p \in Plans : plan[p].status = "executed" =>
          /\ rel[plan[p].source].status = "rolled_back"
          /\ current[FamilyOfRelease(plan[p].source)] # NoRelease
          /\ FamilyOfRelease(plan[p].target) = FamilyOfRelease(plan[p].source)
    /\ \A f \in Families : current[f] # NoRelease =>
          Exists(current[f]) /\ FamilyOfRelease(current[f]) = f

(* What the catalog shows of all this.  A candidate is cleared when every    *)
(* required role has decided and every role's latest decision approves the   *)
(* present assessment, which allows a release.                               *)
Cleared ==
    {c \in Candidates :
        /\ elig[c].status \in Eligible
        /\ \A role \in RequiredRoles : DecidedBy(approvals[c], role) # {}
        /\ \A k \in 1 .. Len(approvals[c]) :
              IsLatest(approvals[c], k) =>
                 approvals[c][k].decision = "approve" /\ approvals[c][k].elig = elig[c]}

Standing(status) ==
    IF status = "absent" THEN "unpublished"
    ELSE IF status = "released" THEN "offered" ELSE "withdrawn"

Catalog == INSTANCE ReleaseCatalog WITH
    cleared  <- Cleared,
    standing <- [r \in Releases |-> Standing(rel[r].status)],
    origin   <- [r \in Releases |-> rel[r].candidate],
    newest   <- current,
    Home     <- [r \in Releases |-> FamilyOfRelease(r)]

(* To the runtime and the assignments the registry is this catalog: they     *)
(* load what is offered, and rely on a release being published once, from a  *)
(* cleared candidate, and on a withdrawal being final.                       *)
CatalogIsKept == Catalog!CatalogSpec

-----------------------------------------------------------------------------
(* docs/model_release_approvals.md:51: a release is refused "until fresh      *)
(* approvals are recorded against the current evidence". They do not help:   *)
(* the stale rows stay, and create_release compares every row.               *)
FreshApprovalsSuffice ==
    \A c \in Candidates :
        (/\ cand[c] = "approved" /\ manifest[c].written
         /\ PolicySatisfied(approvals[c])
         /\ \A k \in 1 .. Len(approvals[c]) :
               IsLatest(approvals[c], k) => ~Stale(approvals[c][k], c))
        => Releasable(c)

(* core_model/release/rollback.py:6: "A rollback target must itself be        *)
(* verified and eligible". It is when the plan is made; by the time the plan *)
(* is executed it may be retired, or rolled back itself.                     *)
RollsBackToSoundReleases ==
    [][\A p \in Plans : plan[p].status = "approved" /\ plan'[p].status = "executed" =>
         rel[plan[p].target].status \in {"released", "deprecated"}]_vars
=============================================================================
