------------------------ MODULE ModelReleases_proofs ------------------------
(***************************************************************************)
(* Theorems about ModelReleases, for any families, candidates, versions,   *)
(* roles, plans and bounds:                                                *)
(*                                                                         *)
(*   RegistryTyped       every row keeps its type                          *)
(*   EvidenceFollowed    a candidate's status is backed by its assessment  *)
(*   ReviewedReleases    a release was reviewed as it is released          *)
(*   KeepsCatalog        the registry implements ReleaseCatalog            *)
(*   WithdrawnStays      what is withdrawn is never released again         *)
(*   RollbackInFamily    executed plans and family pointers                *)
(*                                                                         *)
(* KeepsCatalog and WithdrawnStays are what InferenceRuntime assumes of    *)
(* the registry (RegistryChanges).                                         *)
(***************************************************************************)
EXTENDS ModelReleases, TLAPS

(* The two halves of the next-state relation: work on the evidence of a      *)
(* candidate, which leaves releases and plans alone, and work on releases.   *)
EvidenceStep ==
    \E c \in Candidates :
       \/ \E result \in Evaluations : Reevaluate(c, result)
       \/ CreateCandidate(c)
       \/ \E found \in Findings : CollectArtifacts(c, found)
       \/ VerifyArtifacts(c)
       \/ GenerateModelCard(c)
       \/ \E verdict \in CardVerdicts : ValidateModelCard(c, verdict)
       \/ AssessEligibility(c)
       \/ GenerateManifest(c)
       \/ \E role \in Roles, decision \in {"approve", "reject"} :
            SubmitApproval(c, role, decision)

ReleaseStep ==
    \/ \E c \in Candidates, v \in Versions : CreateRelease(c, v)
    \/ \E r \in Releases : DeprecateRelease(r) \/ RetireRelease(r)
    \/ \E p \in Plans, source, target \in Releases : CreateRollbackPlan(p, source, target)
    \/ \E p \in Plans :
         \/ ValidateRollbackPlan(p)
         \/ ApproveRollbackPlan(p)
         \/ ExecuteRollbackPlan(p)

LEMMA StepsSplit == Next => EvidenceStep \/ ReleaseStep
  BY DEF Next, EvidenceStep, ReleaseStep

LEMMA EvidenceLeavesReleases == EvidenceStep => UNCHANGED <<rel, current, plan>>
  BY DEF EvidenceStep, ReleasesAsBefore, Reevaluate, CreateCandidate, CollectArtifacts,
         VerifyArtifacts, GenerateModelCard, ValidateModelCard, AssessEligibility,
         GenerateManifest, SubmitApproval

LEMMA ReleasesLeaveEvidence ==
    ReleaseStep => UNCHANGED <<evaluation, artifacts, card, elig, edits, manifest,
                               approvals, issues>>
  BY DEF ReleaseStep, EvidenceAsBefore, CreateRelease, DeprecateRelease, RetireRelease,
         CreateRollbackPlan, ValidateRollbackPlan, ApproveRollbackPlan, ExecuteRollbackPlan

(* The type invariant, in the same two halves. *)
EvidenceTyped ==
    /\ evaluation \in [Candidates -> EvaluationStates]
    /\ artifacts \in [Candidates -> ArtifactStates]
    /\ card \in [Candidates -> CardStates]
    /\ elig \in [Candidates -> Assessment]
    /\ edits \in [Candidates -> 0 .. MaxEdits]
    /\ manifest \in [Candidates -> Manifest]
    /\ approvals \in [Candidates -> Seq(Approval)]
    /\ \A c \in Candidates : Len(approvals[c]) <= MaxApprovals
    /\ issues \subseteq Candidates

StatusTyped == cand \in [Candidates -> CandidateStatuses]

ReleasesTyped ==
    /\ rel \in [Releases -> ReleaseRow]
    /\ current \in [Families -> Releases \cup {NoRelease}]
    /\ plan \in [Plans -> PlanRow]

LEMMA TypeInHalves == TypeOK <=> EvidenceTyped /\ StatusTyped /\ ReleasesTyped
  BY DEF TypeOK, EvidenceTyped, StatusTyped, ReleasesTyped

LEMMA VerdictTyped ==
    ASSUME EvidenceTyped, NEW c \in Candidates
    PROVE  /\ Verdict(c) \in Eligible \cup {"blocked"}
           /\ Assessed(c) \in Assessment
           /\ Assessed(c).status = Verdict(c)
  <1>1. Verdict(c) \in Eligible \cup {"blocked"}
    BY DEF Verdict, Eligible
  <1>2. /\ artifacts[c] \in ArtifactStates
        /\ evaluation[c] \in EvaluationStates
        /\ card[c] \in CardStates
    BY DEF EvidenceTyped
  <1> QED  BY <1>1, <1>2 DEF Assessed, Assessment

LEMMA InitTyped == Init => TypeOK
  <1> SUFFICES ASSUME Init PROVE TypeOK
    OBVIOUS
  <1>1. NothingAssessed \in Assessment
    BY EvidenceAssumption DEF NothingAssessed, Assessment, ArtifactStates,
       EvaluationStates, CardStates
  <1>2. [written |-> FALSE, elig |-> NothingAssessed, approvals |-> 0] \in Manifest
    BY <1>1, BoundAssumption DEF Manifest
  <1>3. EvidenceTyped
    BY <1>1, <1>2, BoundAssumption
       DEF Init, EvidenceTyped, EvaluationStates, ArtifactStates, CardStates
  <1>4. StatusTyped /\ ReleasesTyped
    BY DEF Init, StatusTyped, ReleasesTyped, CandidateStatuses, ReleaseRow, PlanRow
  <1> QED  BY <1>3, <1>4, TypeInHalves

(* Every operation on evidence keeps both types and writes one candidate's   *)
(* status: to what it was, to a stage before the assessment, to the verdict  *)
(* of the assessment it has just written, or, from an eligible status, to    *)
(* approved.                                                                 *)
StatusWritten(c, status) ==
    /\ cand' = [cand EXCEPT ![c] = status]
    /\ \A d \in Candidates \ {c} : elig'[d] = elig[d]
    /\ \/ status = cand[c] /\ elig'[c] = elig[c]
       \/ status \in {"draft", "collecting_artifacts", "validating"}
       \/ status \in Eligible \cup {"blocked"} /\ elig'[c].status = status
       \/ status = "approved" /\ cand[c] \in Eligible /\ elig'[c] = elig[c]

LEMMA EditTyped ==
    ASSUME EvidenceTyped, NEW c \in Candidates, Edit(c)
    PROVE  edits' \in [Candidates -> 0 .. MaxEdits]
  BY BoundAssumption DEF Edit, EvidenceTyped

LEMMA EvidenceStepWrites ==
    ASSUME TypeOK, EvidenceStep
    PROVE  /\ EvidenceTyped'
           /\ \E c \in Candidates : \E status \in CandidateStatuses : StatusWritten(c, status)
  <1> USE DEF ReleasesAsBefore
  <1>0. EvidenceTyped /\ StatusTyped
    BY TypeInHalves
  <1>1. PICK c \in Candidates :
           \/ \E result \in Evaluations : Reevaluate(c, result)
           \/ CreateCandidate(c)
           \/ \E found \in Findings : CollectArtifacts(c, found)
           \/ VerifyArtifacts(c)
           \/ GenerateModelCard(c)
           \/ \E verdict \in CardVerdicts : ValidateModelCard(c, verdict)
           \/ AssessEligibility(c)
           \/ GenerateManifest(c)
           \/ \E role \in Roles, decision \in {"approve", "reject"} :
                SubmitApproval(c, role, decision)
    BY DEF EvidenceStep
  <1>2. cand[c] \in CandidateStatuses /\ cand = [cand EXCEPT ![c] = cand[c]]
    BY <1>0 DEF StatusTyped
  <1>3. ASSUME cand' = cand, elig' = elig PROVE StatusWritten(c, cand[c])
    BY <1>2, <1>3 DEF StatusWritten
  <1>4. CASE \E result \in Evaluations : Reevaluate(c, result)
    <2>1. PICK result \in Evaluations : Reevaluate(c, result)
      BY <1>4
    <2>2. EvidenceTyped'
      BY <1>0, <2>1, EditTyped DEF Reevaluate, EvidenceTyped, EvaluationStates
    <2> QED  BY <1>2, <1>3, <2>1, <2>2 DEF Reevaluate
  <1>5. CASE CreateCandidate(c)
    <2>1. EvidenceTyped' /\ StatusWritten(c, "draft")
      BY <1>0, <1>5 DEF CreateCandidate, EvidenceTyped, StatusWritten
    <2> QED  BY <2>1 DEF CandidateStatuses
  <1>6. CASE \E found \in Findings : CollectArtifacts(c, found)
    <2>1. PICK found \in Findings : CollectArtifacts(c, found)
      BY <1>6
    <2>2. EvidenceTyped'
      BY <1>0, <2>1, EditTyped, EvidenceAssumption
         DEF CollectArtifacts, EvidenceTyped, ArtifactStates
    <2>3. StatusWritten(c, "collecting_artifacts")
      BY <2>1 DEF CollectArtifacts, StatusWritten
    <2> QED  BY <2>2, <2>3 DEF CandidateStatuses
  <1>7. CASE VerifyArtifacts(c)
    <2>1. EvidenceTyped' /\ StatusWritten(c, "validating")
      BY <1>0, <1>7, EditTyped DEF VerifyArtifacts, EvidenceTyped, StatusWritten
    <2> QED  BY <2>1 DEF CandidateStatuses
  <1>8. CASE GenerateModelCard(c)
    <2>1. EvidenceTyped'
      BY <1>0, <1>8, EditTyped DEF GenerateModelCard, EvidenceTyped, CardStates
    <2> QED  BY <1>2, <1>3, <1>8, <2>1 DEF GenerateModelCard
  <1>9. CASE \E verdict \in CardVerdicts : ValidateModelCard(c, verdict)
    <2>1. PICK verdict \in CardVerdicts : ValidateModelCard(c, verdict)
      BY <1>9
    <2>2. EvidenceTyped'
      BY <1>0, <2>1, EditTyped, EvidenceAssumption
         DEF ValidateModelCard, EvidenceTyped, CardStates
    <2> QED  BY <1>2, <1>3, <2>1, <2>2 DEF ValidateModelCard
  <1>10. CASE AssessEligibility(c)
    <2>1. /\ Verdict(c) \in Eligible \cup {"blocked"}
          /\ Assessed(c) \in Assessment
          /\ Assessed(c).status = Verdict(c)
      BY <1>0, VerdictTyped
    <2>2. /\ elig' = [elig EXCEPT ![c] = Assessed(c)]
          /\ cand' = [cand EXCEPT ![c] = Verdict(c)]
          /\ issues' = issues \/ issues' = issues \cup {c}
          /\ UNCHANGED <<evaluation, artifacts, card, manifest, approvals>>
          /\ Edit(c)
      BY <1>10 DEF AssessEligibility
    <2>3. EvidenceTyped'
      BY <1>0, <2>1, <2>2, EditTyped DEF EvidenceTyped
    <2>4. StatusWritten(c, Verdict(c))
      BY <1>0, <2>1, <2>2 DEF StatusWritten, EvidenceTyped
    <2> QED  BY <2>1, <2>3, <2>4 DEF CandidateStatuses, Eligible
  <1>11. CASE GenerateManifest(c)
    <2> DEFINE m == [written |-> TRUE, elig |-> elig[c], approvals |-> Len(approvals[c])]
    <2>1. m \in Manifest
      <3>1. /\ elig[c] \in Assessment
            /\ approvals[c] \in Seq(Approval)
            /\ Len(approvals[c]) <= MaxApprovals
        BY <1>0 DEF EvidenceTyped
      <3>2. Len(approvals[c]) \in 0 .. MaxApprovals
        BY <3>1, BoundAssumption
      <3> QED  BY <3>1, <3>2 DEF Manifest
    <2>2. manifest' = [manifest EXCEPT ![c] = m]
      BY <1>11 DEF GenerateManifest
    <2> HIDE DEF m
    <2>3. EvidenceTyped'
      BY <1>0, <1>11, <2>1, <2>2, EditTyped DEF GenerateManifest, EvidenceTyped
    <2> QED  BY <1>2, <1>3, <1>11, <2>3 DEF GenerateManifest
  <1>12. CASE \E role \in Roles, decision \in {"approve", "reject"} :
               SubmitApproval(c, role, decision)
    <2>1. PICK role \in Roles, decision \in {"approve", "reject"} :
             SubmitApproval(c, role, decision)
      BY <1>12
    <2> DEFINE a == [role |-> role, decision |-> decision,
                     elig |-> elig[c], manifest |-> manifest[c]]
    <2>2. /\ approvals[c] \in Seq(Approval)
          /\ elig[c] \in Assessment /\ manifest[c] \in Manifest
      BY <1>0 DEF EvidenceTyped
    <2>3. a \in Approval
      BY <2>2 DEF Approval
    <2>4. /\ approvals' = [approvals EXCEPT ![c] = Append(approvals[c], a)]
          /\ Len(approvals[c]) < MaxApprovals
          /\ cand' = [cand EXCEPT ![c] = Promoted(c, Submitted(c, role, decision))]
          /\ UNCHANGED <<evaluation, artifacts, card, elig, edits, manifest, issues>>
      BY <2>1 DEF SubmitApproval, Submitted
    <2> HIDE DEF a
    <2>5. /\ Append(approvals[c], a) \in Seq(Approval)
          /\ Len(Append(approvals[c], a)) <= MaxApprovals
      BY <2>2, <2>3, <2>4, BoundAssumption
    <2>6. EvidenceTyped'
      BY <1>0, <2>4, <2>5 DEF EvidenceTyped
    <2>7. \/ Promoted(c, Submitted(c, role, decision)) = cand[c]
          \/ /\ Promoted(c, Submitted(c, role, decision)) = "approved"
             /\ cand[c] \in Eligible
      BY DEF Promoted
    <2>8. StatusWritten(c, Promoted(c, Submitted(c, role, decision)))
      BY <2>4, <2>7 DEF StatusWritten
    <2> QED  BY <1>2, <2>6, <2>7, <2>8 DEF CandidateStatuses
  <1> QED  BY <1>1, <1>4, <1>5, <1>6, <1>7, <1>8, <1>9, <1>10, <1>11, <1>12

-----------------------------------------------------------------------------
(* Every operation on releases writes at most one release row, and to it a   *)
(* status that depends on the one it had.                                    *)
RowMoves(r, row) ==
    /\ rel' = [rel EXCEPT ![r] = row]
    /\ \/ rel[r].status = "absent" /\ row.status = "released"
       \/ rel[r].status = "released" /\ row.status = "deprecated"
       \/ rel[r].status \in {"released", "deprecated"} /\ row.status = "retired"
       \/ row.status = "rolled_back"

(* Plans name releases of one family, which exist. *)
PlansNamed ==
    \A p \in Plans : plan[p].status # "absent" =>
        /\ plan[p].source \in Releases /\ plan[p].target \in Releases
        /\ Exists(plan[p].source) /\ Exists(plan[p].target)
        /\ FamilyOfRelease(plan[p].source) = FamilyOfRelease(plan[p].target)

FamilyInv == TypeOK /\ PlansNamed /\ RollbackStaysInFamily

LEMMA OwnFamily == \A r \in Releases : FamilyOfRelease(r) \in Families
  BY DEF Releases, FamilyOfRelease

LEMMA NewRelease == \A c \in Candidates, v \in Versions :
                       /\ <<FamilyOf[c], v>> \in Releases
                       /\ FamilyOfRelease(<<FamilyOf[c], v>>) = FamilyOf[c]
  BY FamilyAssumption DEF Releases, FamilyOfRelease

(* A release step either leaves the release rows alone, or moves one row. *)
LEMMA ReleaseStepMoves ==
    ASSUME TypeOK, PlansNamed, ReleaseStep
    PROVE  \/ rel' = rel
           \/ \E r \in Releases : \E row \in ReleaseRow : RowMoves(r, row)
  <1> DEFINE Row(status, c, d) == [status |-> status, candidate |-> c, deployable |-> d]
  <1>0. \A r \in Releases : /\ rel[r] \in ReleaseRow
                            /\ rel[r].candidate \in Candidates \cup {NoCandidate}
                            /\ rel[r].deployable \in {"deployable", "deployable_with_warnings",
                                                      "not_deployable"}
    BY DEF TypeOK, ReleaseRow
  <1>1. CASE \E c \in Candidates, v \in Versions : CreateRelease(c, v)
    <2>1. PICK c \in Candidates, v \in Versions : CreateRelease(c, v)
      BY <1>1
    <2> DEFINE r == <<FamilyOf[c], v>>
               row == Row("released", c, IF elig[c].status = "eligible"
                                         THEN "deployable" ELSE "deployable_with_warnings")
    <2>2. row \in ReleaseRow /\ row.status = "released"
      BY DEF ReleaseRow
    <2>3. rel' = [rel EXCEPT ![r] = row] /\ rel[r].status = "absent"
      BY <2>1 DEF CreateRelease, Exists
    <2>4. r \in Releases
      BY NewRelease
    <2> HIDE DEF r, row
    <2> QED  BY <2>2, <2>3, <2>4 DEF RowMoves
  <1>2. CASE \E r \in Releases : DeprecateRelease(r) \/ RetireRelease(r)
    <2>1. PICK r \in Releases : DeprecateRelease(r) \/ RetireRelease(r)
      BY <1>2
    <2>2. CASE DeprecateRelease(r)
      <3> DEFINE row == Row("deprecated", rel[r].candidate, rel[r].deployable)
      <3>1. row \in ReleaseRow /\ row.status = "deprecated"
        BY <1>0 DEF ReleaseRow
      <3>2. rel' = [rel EXCEPT ![r] = row] /\ rel[r].status = "released"
        BY <2>2 DEF DeprecateRelease
      <3> HIDE DEF row
      <3> QED  BY <3>1, <3>2 DEF RowMoves
    <2>3. CASE RetireRelease(r)
      <3> DEFINE row == Row("retired", rel[r].candidate, "not_deployable")
      <3>1. row \in ReleaseRow /\ row.status = "retired"
        BY <1>0 DEF ReleaseRow
      <3>2. rel' = [rel EXCEPT ![r] = row] /\ rel[r].status \in {"released", "deprecated"}
        BY <2>3 DEF RetireRelease
      <3> HIDE DEF row
      <3> QED  BY <3>1, <3>2 DEF RowMoves
    <2> QED  BY <2>1, <2>2, <2>3
  <1>3. CASE \E p \in Plans, source, target \in Releases : CreateRollbackPlan(p, source, target)
    BY <1>3 DEF CreateRollbackPlan
  <1>4. CASE \E p \in Plans : ValidateRollbackPlan(p) \/ ApproveRollbackPlan(p)
    BY <1>4 DEF ValidateRollbackPlan, ApproveRollbackPlan
  <1>5. CASE \E p \in Plans : ExecuteRollbackPlan(p)
    <2>1. PICK p \in Plans : ExecuteRollbackPlan(p)
      BY <1>5
    <2> DEFINE r == plan[p].source
               row == Row("rolled_back", rel[r].candidate, rel[r].deployable)
    <2>2. r \in Releases
      BY <2>1 DEF PlansNamed, ExecuteRollbackPlan
    <2>3. row \in ReleaseRow /\ row.status = "rolled_back"
      BY <1>0, <2>2 DEF ReleaseRow
    <2>4. rel' = [rel EXCEPT ![r] = row]
      BY <2>1 DEF ExecuteRollbackPlan
    <2> HIDE DEF r, row
    <2> QED  BY <2>2, <2>3, <2>4 DEF RowMoves
  <1> QED  BY <1>1, <1>2, <1>3, <1>4, <1>5 DEF ReleaseStep

(* What every release step keeps: rows typed, nothing that exists lost,      *)
(* nothing rolled back moved, nothing withdrawn put back.                    *)
LEMMA RowsKept ==
    ASSUME TypeOK, PlansNamed, Next \/ UNCHANGED vars
    PROVE  /\ rel' \in [Releases -> ReleaseRow]
           /\ \A r \in Releases :
                 /\ Exists(r) => Exists(r)'
                 /\ rel[r].status = "rolled_back" => rel'[r].status = "rolled_back"
                 /\ rel[r].status \notin {"absent", "released"} =>
                       rel'[r].status \notin {"absent", "released"}
  <1>1. rel \in [Releases -> ReleaseRow]
    BY DEF TypeOK
  <1>2. CASE rel' = rel
    BY <1>1, <1>2 DEF Exists
  <1>3. CASE \E r \in Releases : \E row \in ReleaseRow : RowMoves(r, row)
    <2>1. PICK r \in Releases : \E row \in ReleaseRow : RowMoves(r, row)
      BY <1>3
    <2>2. PICK row \in ReleaseRow : RowMoves(r, row)
      BY <2>1
    <2>3. rel' \in [Releases -> ReleaseRow] /\ rel'[r] = row
      BY <1>1, <2>2 DEF RowMoves
    <2>4. \A q \in Releases \ {r} : rel'[q] = rel[q]
      BY <1>1, <2>2 DEF RowMoves
    <2> QED  BY <2>2, <2>3, <2>4 DEF RowMoves, Exists
  <1> QED  BY <1>2, <1>3, StepsSplit, EvidenceLeavesReleases, ReleaseStepMoves DEF vars

(* Who writes the candidates' status on a release step: only a release. *)
LEMMA ReleaseStepStatus ==
    ASSUME ReleaseStep
    PROVE  \/ cand' = cand
           \/ \E c \in Candidates : Releasable(c) /\ cand' = [cand EXCEPT ![c] = "released"]
  <1>1. CASE \E c \in Candidates, v \in Versions : CreateRelease(c, v)
    BY <1>1 DEF CreateRelease
  <1>2. CASE \E r \in Releases : DeprecateRelease(r) \/ RetireRelease(r)
    BY <1>2 DEF DeprecateRelease, RetireRelease
  <1>3. CASE \E p \in Plans, source, target \in Releases : CreateRollbackPlan(p, source, target)
    BY <1>3 DEF CreateRollbackPlan
  <1>4. CASE \E p \in Plans : \/ ValidateRollbackPlan(p)
                              \/ ApproveRollbackPlan(p)
                              \/ ExecuteRollbackPlan(p)
    BY <1>4 DEF ValidateRollbackPlan, ApproveRollbackPlan, ExecuteRollbackPlan
  <1> QED  BY <1>1, <1>2, <1>3, <1>4 DEF ReleaseStep

(* A pointer and a plan are written only with releases that exist, of one    *)
(* family; a plan becomes executed when its source has been rolled back.     *)
LEMMA FamilyStep ==
    ASSUME FamilyInv, ReleaseStep, rel' \in [Releases -> ReleaseRow],
           \A r \in Releases : /\ Exists(r) => Exists(r)'
                               /\ rel[r].status = "rolled_back" =>
                                     rel'[r].status = "rolled_back"
    PROVE  /\ current' \in [Families -> Releases \cup {NoRelease}]
           /\ plan' \in [Plans -> PlanRow]
           /\ PlansNamed'
           /\ RollbackStaysInFamily'
  <1> DEFINE PointerInv == \A f \in Families : current[f] # NoRelease =>
                              Exists(current[f]) /\ FamilyOfRelease(current[f]) = f
             DoneInv == \A p \in Plans : plan[p].status = "executed" =>
                           /\ rel[plan[p].source].status = "rolled_back"
                           /\ current[FamilyOfRelease(plan[p].source)] # NoRelease
                           /\ FamilyOfRelease(plan[p].target) = FamilyOfRelease(plan[p].source)
             Row(status, source, target) ==
                [status |-> status, source |-> source, target |-> target]
  <1>0. /\ current \in [Families -> Releases \cup {NoRelease}]
        /\ plan \in [Plans -> PlanRow]
        /\ PlansNamed /\ PointerInv /\ DoneInv
    BY DEF FamilyInv, TypeOK, RollbackStaysInFamily
  <1>a. SUFFICES /\ current' \in [Families -> Releases \cup {NoRelease}]
                 /\ plan' \in [Plans -> PlanRow]
                 /\ PlansNamed' /\ PointerInv' /\ DoneInv'
    BY DEF RollbackStaysInFamily
  <1>b. \A p \in Plans : plan[p] \in PlanRow
    BY <1>0
  (* The three ways in which the two variables change. *)
  <1>1. ASSUME UNCHANGED <<current, plan>>
        PROVE  PlansNamed' /\ PointerInv' /\ DoneInv'
    <2>1. PlansNamed'
      BY <1>0, <1>1 DEF PlansNamed
    <2>2. PointerInv'
      BY <1>0, <1>1
    <2>3. DoneInv'
      BY <1>0, <1>1 DEF PlansNamed
    <2> QED  BY <2>1, <2>2, <2>3
  <1>2. ASSUME NEW r \in Releases, Exists(r)', UNCHANGED plan,
               current' = [current EXCEPT ![FamilyOfRelease(r)] = r]
        PROVE  /\ current' \in [Families -> Releases \cup {NoRelease}]
               /\ PlansNamed' /\ PointerInv' /\ DoneInv'
    <2>1. FamilyOfRelease(r) \in Families
      BY OwnFamily
    <2>2. current' \in [Families -> Releases \cup {NoRelease}]
      BY <1>0, <1>2, <2>1
    <2>3. PlansNamed'
      BY <1>0, <1>2 DEF PlansNamed
    <2>4. PointerInv'
      <3> SUFFICES ASSUME NEW f \in Families, current'[f] # NoRelease
                   PROVE  Exists(current[f])' /\ FamilyOfRelease(current'[f]) = f
        OBVIOUS
      <3>1. CASE f = FamilyOfRelease(r)
        BY <1>0, <1>2, <3>1
      <3>2. CASE f # FamilyOfRelease(r)
        <4>1. current'[f] = current[f] /\ current[f] \in Releases
          BY <1>0, <1>2, <3>2
        <4> QED  BY <1>0, <4>1
      <3> QED  BY <3>1, <3>2
    <2>5. r # NoRelease
      BY FamilyAssumption
    <2>6. \A f \in Families : current[f] # NoRelease => current'[f] # NoRelease
      BY <1>0, <1>2, <2>1, <2>5
    <2>7. DoneInv'
      BY <1>0, <1>2, <2>6, OwnFamily DEF PlansNamed
    <2> QED  BY <2>2, <2>3, <2>4, <2>7
  <1>3. CASE \E c \in Candidates, v \in Versions : CreateRelease(c, v)
    <2>1. PICK c \in Candidates, v \in Versions : CreateRelease(c, v)
      BY <1>3
    <2> DEFINE r == <<FamilyOf[c], v>>
    <2>2. r \in Releases /\ FamilyOfRelease(r) = FamilyOf[c]
      BY NewRelease
    <2>3. rel'[r].status = "released"
      BY <2>1, <2>2 DEF CreateRelease, FamilyInv, TypeOK
    <2>4. Exists(r)'
      BY <2>3 DEF Exists
    <2>5. current' = [current EXCEPT ![FamilyOfRelease(r)] = r] /\ plan' = plan
      BY <2>1, <2>2 DEF CreateRelease
    <2> HIDE DEF r
    <2> QED  BY <1>0, <1>2, <2>2, <2>4, <2>5
  <1>4. CASE \E r \in Releases : DeprecateRelease(r) \/ RetireRelease(r)
    BY <1>0, <1>1, <1>4 DEF DeprecateRelease, RetireRelease
  <1>5. CASE \E p \in Plans, source, target \in Releases : CreateRollbackPlan(p, source, target)
    <2>1. PICK p \in Plans, source \in Releases, target \in Releases :
             CreateRollbackPlan(p, source, target)
      BY <1>5
    <2> DEFINE row == Row(IF SoundTarget(target) THEN "draft" ELSE "rejected", source, target)
    <2>2. /\ row \in PlanRow /\ row.status # "executed"
          /\ row.source = source /\ row.target = target
      BY DEF PlanRow
    <2>3. plan' = [plan EXCEPT ![p] = row]
      BY <2>1 DEF CreateRollbackPlan
    <2> HIDE DEF row
    <2>4. /\ UNCHANGED <<rel, current>> /\ Exists(source) /\ Exists(target)
          /\ FamilyOfRelease(source) = FamilyOfRelease(target)
      BY <2>1 DEF CreateRollbackPlan
    <2>5. /\ plan' \in [Plans -> PlanRow] /\ plan'[p] = row
          /\ \A q \in Plans \ {p} : plan'[q] = plan[q]
      BY <1>0, <2>2, <2>3
    <2>6. PlansNamed'
      BY <1>0, <2>2, <2>4, <2>5 DEF PlansNamed, Exists
    <2>7. PointerInv'
      BY <1>0, <2>4 DEF Exists
    <2>8. DoneInv'
      BY <1>0, <2>2, <2>4, <2>5
    <2> QED  BY <1>0, <2>4, <2>5, <2>6, <2>7, <2>8
  <1>6. ASSUME NEW p \in Plans, NEW status \in {"validated", "approved", "executed"},
               plan[p].status # "absent", plan' = [plan EXCEPT ![p] = Moved(p, status)]
        PROVE  /\ plan' \in [Plans -> PlanRow]
               /\ plan'[p].status = status
               /\ \A q \in Plans : /\ plan'[q].source = plan[q].source
                                   /\ plan'[q].target = plan[q].target
                                   /\ q # p => plan'[q] = plan[q]
               /\ PlansNamed'
    <2>1. /\ Moved(p, status) \in PlanRow
          /\ Moved(p, status).status = status
          /\ Moved(p, status).source = plan[p].source
          /\ Moved(p, status).target = plan[p].target
      BY <1>b DEF Moved, PlanRow
    <2>2. /\ plan' \in [Plans -> PlanRow] /\ plan'[p] = Moved(p, status)
          /\ \A q \in Plans \ {p} : plan'[q] = plan[q]
      BY <1>0, <1>6, <2>1
    <2>3. PlansNamed'
      BY <1>0, <1>6, <2>1, <2>2 DEF PlansNamed
    <2> QED  BY <2>1, <2>2, <2>3
  <1>7. CASE \E p \in Plans : ValidateRollbackPlan(p) \/ ApproveRollbackPlan(p)
    <2>1. PICK p \in Plans : ValidateRollbackPlan(p) \/ ApproveRollbackPlan(p)
      BY <1>7
    <2>2. PICK status \in {"validated", "approved"} : plan' = [plan EXCEPT ![p] = Moved(p, status)]
      BY <2>1 DEF ValidateRollbackPlan, ApproveRollbackPlan
    <2>3. UNCHANGED <<rel, current>> /\ plan[p].status # "absent"
      BY <2>1 DEF ValidateRollbackPlan, ApproveRollbackPlan
    <2>4. /\ plan' \in [Plans -> PlanRow] /\ plan'[p].status = status /\ PlansNamed'
          /\ \A q \in Plans : /\ plan'[q].source = plan[q].source
                              /\ plan'[q].target = plan[q].target
                              /\ q # p => plan'[q] = plan[q]
      BY <1>6, <2>2, <2>3
    <2>5. PointerInv'
      BY <1>0, <2>3 DEF Exists
    <2>6. DoneInv'
      BY <1>0, <2>2, <2>3, <2>4
    <2> QED  BY <1>0, <2>3, <2>4, <2>5, <2>6
  <1>8. CASE \E p \in Plans : ExecuteRollbackPlan(p)
    <2>1. PICK p \in Plans : ExecuteRollbackPlan(p)
      BY <1>8
    <2> DEFINE s == plan[p].source
               t == plan[p].target
    <2>2. /\ s \in Releases /\ t \in Releases /\ Exists(t)
          /\ FamilyOfRelease(s) = FamilyOfRelease(t)
      BY <1>0, <2>1 DEF ExecuteRollbackPlan, PlansNamed
    <2>3. /\ plan' = [plan EXCEPT ![p] = Moved(p, "executed")]
          /\ current' = [current EXCEPT ![FamilyOfRelease(t)] = t]
          /\ plan[p].status # "absent"
      BY <2>1 DEF ExecuteRollbackPlan
    <2>4. rel'[s].status = "rolled_back"
      BY <2>1, <2>2 DEF ExecuteRollbackPlan, FamilyInv, TypeOK
    <2>5. /\ plan' \in [Plans -> PlanRow] /\ PlansNamed'
          /\ \A q \in Plans : /\ plan'[q].source = plan[q].source
                              /\ plan'[q].target = plan[q].target
                              /\ q # p => plan'[q] = plan[q]
      BY <1>6, <2>3
    <2> HIDE DEF s, t
    <2>6. FamilyOfRelease(t) \in Families /\ t # NoRelease
      BY <2>2, OwnFamily, FamilyAssumption
    <2>7. current' \in [Families -> Releases \cup {NoRelease}]
      BY <1>0, <2>2, <2>3, <2>6
    <2>8. PointerInv'
      <3> SUFFICES ASSUME NEW f \in Families, current'[f] # NoRelease
                   PROVE  Exists(current[f])' /\ FamilyOfRelease(current'[f]) = f
        OBVIOUS
      <3>1. CASE f = FamilyOfRelease(t)
        <4>1. current'[f] = t
          BY <1>0, <2>3, <2>6, <3>1
        <4> QED  BY <2>2, <3>1, <4>1
      <3>2. CASE f # FamilyOfRelease(t)
        <4>1. current'[f] = current[f] /\ current[f] \in Releases
          BY <1>0, <2>3, <3>2
        <4> QED  BY <1>0, <4>1
      <3> QED  BY <3>1, <3>2
    <2>9. DoneInv'
      <3> SUFFICES ASSUME NEW q \in Plans, plan'[q].status = "executed"
                   PROVE  /\ rel'[plan'[q].source].status = "rolled_back"
                          /\ current'[FamilyOfRelease(plan'[q].source)] # NoRelease
                          /\ FamilyOfRelease(plan'[q].target) = FamilyOfRelease(plan'[q].source)
        OBVIOUS
      <3>1. CASE q = p
        <4>1. plan'[q].source = s /\ plan'[q].target = t
          BY <2>5, <3>1 DEF s, t
        <4>2. current'[FamilyOfRelease(t)] = t
          BY <1>0, <2>3, <2>6
        <4> QED  BY <2>2, <2>4, <2>6, <4>1, <4>2
      <3>2. CASE q # p
        <4>1. plan'[q] = plan[q]
          BY <2>5, <3>2
        <4>2. /\ plan[q].source \in Releases
              /\ rel[plan[q].source].status = "rolled_back"
              /\ current[FamilyOfRelease(plan[q].source)] # NoRelease
              /\ FamilyOfRelease(plan[q].target) = FamilyOfRelease(plan[q].source)
          BY <1>0, <4>1 DEF PlansNamed
        <4>3. current'[FamilyOfRelease(plan[q].source)] # NoRelease
          BY <1>0, <2>3, <2>6, <4>2, OwnFamily
        <4> QED  BY <4>1, <4>2, <4>3
      <3> QED  BY <3>1, <3>2
    <2> QED  BY <2>5, <2>7, <2>8, <2>9
  <1> QED  BY <1>0, <1>3, <1>4, <1>5, <1>7, <1>8 DEF ReleaseStep

-----------------------------------------------------------------------------
LEMMA FamilyInvInductive ==
    /\ Init => FamilyInv
    /\ FamilyInv /\ [Next]_vars => FamilyInv'
  <1>1. Init => FamilyInv
    BY InitTyped DEF Init, FamilyInv, PlansNamed, RollbackStaysInFamily
  <1>2. ASSUME FamilyInv, [Next]_vars PROVE FamilyInv'
    <2>0. TypeOK /\ PlansNamed /\ RollbackStaysInFamily
      BY <1>2 DEF FamilyInv
    <2>1. /\ rel' \in [Releases -> ReleaseRow]
          /\ \A r \in Releases : /\ Exists(r) => Exists(r)'
                                 /\ rel[r].status = "rolled_back" =>
                                       rel'[r].status = "rolled_back"
      BY <1>2, <2>0, RowsKept
    <2>2. CASE UNCHANGED vars
      BY <2>0, <2>2 DEF vars, FamilyInv, TypeOK, PlansNamed, RollbackStaysInFamily, Exists
    <2>3. CASE EvidenceStep
      <3>1. EvidenceTyped'
        BY <2>0, <2>3, EvidenceStepWrites
      <3>2. PICK c \in Candidates : \E status \in CandidateStatuses : StatusWritten(c, status)
        BY <2>0, <2>3, EvidenceStepWrites
      <3>3. StatusTyped'
        BY <2>0, <3>2, TypeInHalves DEF StatusTyped, StatusWritten
      <3>4. UNCHANGED <<rel, current, plan>>
        BY <2>3, EvidenceLeavesReleases
      <3>5. ReleasesTyped'
        BY <2>0, <3>4, TypeInHalves DEF ReleasesTyped
      <3>6. PlansNamed' /\ RollbackStaysInFamily'
        BY <2>0, <3>4 DEF PlansNamed, RollbackStaysInFamily, Exists
      <3>7. TypeOK'
        BY <3>1, <3>3, <3>5 DEF TypeOK, EvidenceTyped, StatusTyped, ReleasesTyped
      <3> QED  BY <3>6, <3>7 DEF FamilyInv
    <2>4. CASE ReleaseStep
      <3>1. EvidenceTyped'
        BY <2>0, <2>4, ReleasesLeaveEvidence, TypeInHalves DEF EvidenceTyped
      <3>2. StatusTyped'
        BY <2>0, <2>4, ReleaseStepStatus, TypeInHalves DEF StatusTyped, CandidateStatuses
      <3>3. /\ current' \in [Families -> Releases \cup {NoRelease}]
            /\ plan' \in [Plans -> PlanRow]
            /\ PlansNamed' /\ RollbackStaysInFamily'
        BY <1>2, <2>1, <2>4, FamilyStep
      <3>4. TypeOK'
        BY <2>1, <3>1, <3>2, <3>3 DEF TypeOK, EvidenceTyped, StatusTyped
      <3> QED  BY <3>3, <3>4 DEF FamilyInv
    <2> QED  BY <1>2, <2>2, <2>3, <2>4, StepsSplit
  <1> QED  BY <1>1, <1>2

(* Every row of the registry keeps its type. *)
THEOREM RegistryTyped == Spec => []TypeOK
  <1>1. FamilyInv => TypeOK
    BY DEF FamilyInv
  <1> QED  BY <1>1, FamilyInvInductive, PTL DEF Spec

(* What the pointer of a family and an executed plan say of releases holds   *)
(* through every order of releases, retirements and rollbacks.               *)
THEOREM RollbackInFamily == Spec => []RollbackStaysInFamily
  <1>1. FamilyInv => RollbackStaysInFamily
    BY DEF FamilyInv
  <1> QED  BY <1>1, FamilyInvInductive, PTL DEF Spec

(* A release that is deprecated, retired or rolled back is never released    *)
(* again: CreateRelease needs a version that is not taken, and a rollback    *)
(* moves the family's pointer, not the status of its target.                 *)
THEOREM WithdrawnStays == Spec => WithdrawnForGood
  <1>1. ASSUME FamilyInv, [Next]_vars
        PROVE  \A r \in Releases : rel[r].status \notin {"absent", "released"} =>
                  rel'[r].status \notin {"absent", "released"}
    BY <1>1, RowsKept DEF FamilyInv
  <1> QED  BY <1>1, FamilyInvInductive, PTL DEF Spec, WithdrawnForGood

(* A candidate becomes released only through CreateRelease, whose approvals  *)
(* include the latest decision of every role.                                *)
THEOREM ReviewedReleases == Spec => ReleasedAsReviewed
  <1> DEFINE Reviewed == \A c \in Candidates : cand[c] # "released" /\ cand'[c] = "released" =>
               /\ \A role \in RequiredRoles : DecidedBy(approvals[c], role) # {}
               /\ \A k \in 1 .. Len(approvals[c]) :
                     IsLatest(approvals[c], k) =>
                        /\ approvals[c][k].decision = "approve"
                        /\ approvals[c][k].elig = elig[c]
  <1>1. ASSUME FamilyInv, [Next]_vars PROVE Reviewed
    <2>1. CASE cand' = cand
      BY <2>1
    <2>2. CASE EvidenceStep
      <3>1. PICK c \in Candidates : \E status \in CandidateStatuses : StatusWritten(c, status)
        BY <1>1, <2>2, EvidenceStepWrites DEF FamilyInv
      <3> QED  BY <1>1, <3>1 DEF StatusWritten, FamilyInv, TypeOK, Eligible
    <2>3. CASE ReleaseStep
      <3>1. CASE \E c \in Candidates : Releasable(c) /\ cand' = [cand EXCEPT ![c] = "released"]
        <4>1. PICK c \in Candidates : Releasable(c) /\ cand' = [cand EXCEPT ![c] = "released"]
          BY <3>1
        <4>2. \A d \in Candidates \ {c} : cand'[d] = cand[d]
          BY <1>1, <4>1 DEF FamilyInv, TypeOK
        <4>3. /\ PolicySatisfied(approvals[c])
              /\ \A k \in 1 .. Len(approvals[c]) : ~Stale(approvals[c][k], c)
          BY <4>1 DEF Releasable
        <4> QED  BY <4>2, <4>3 DEF PolicySatisfied, Stale
      <3> QED  BY <2>1, <2>3, <3>1, ReleaseStepStatus
    <2> QED  BY <1>1, <2>1, <2>2, <2>3, StepsSplit DEF vars
  <1>2. FamilyInv /\ [Next]_vars => [Reviewed]_vars
    BY <1>1
  <1> QED  BY <1>2, FamilyInvInductive, PTL DEF Spec, ReleasedAsReviewed

(* The status of a candidate is backed by its latest assessment through any  *)
(* order of collections, re-assessments, approvals and releases.             *)
THEOREM EvidenceFollowed == Spec => []StatusFollowsEvidence
  <1> DEFINE Inv == FamilyInv /\ StatusFollowsEvidence
  <1>1. Init => Inv
    BY FamilyInvInductive DEF Init, StatusFollowsEvidence, Eligible
  <1>2. ASSUME Inv, [Next]_vars PROVE Inv'
    <2>0. TypeOK
      BY <1>2 DEF FamilyInv
    <2>1. CASE UNCHANGED <<cand, elig>>
      BY <1>2, <2>1, FamilyInvInductive DEF StatusFollowsEvidence
    <2>2. CASE EvidenceStep
      <3>1. PICK c \in Candidates : \E status \in CandidateStatuses : StatusWritten(c, status)
        BY <2>0, <2>2, EvidenceStepWrites
      <3>2. PICK status \in CandidateStatuses : StatusWritten(c, status)
        BY <3>1
      <3>3. cand'[c] = status /\ \A d \in Candidates \ {c} : /\ cand'[d] = cand[d]
                                                             /\ elig'[d] = elig[d]
        BY <2>0, <3>2 DEF StatusWritten, TypeOK
      <3>4. StatusFollowsEvidence'
        BY <1>2, <3>2, <3>3 DEF StatusWritten, StatusFollowsEvidence, Eligible
      <3> QED  BY <1>2, <3>4, FamilyInvInductive
    <2>3. CASE ReleaseStep
      <3>1. elig' = elig
        BY <2>3, ReleasesLeaveEvidence
      <3>2. CASE \E c \in Candidates : Releasable(c) /\ cand' = [cand EXCEPT ![c] = "released"]
        <4>1. PICK c \in Candidates : Releasable(c) /\ cand' = [cand EXCEPT ![c] = "released"]
          BY <3>2
        <4>2. StatusFollowsEvidence'
          BY <1>2, <2>0, <3>1, <4>1
             DEF Releasable, StatusFollowsEvidence, TypeOK, Eligible
        <4> QED  BY <1>2, <4>2, FamilyInvInductive
      <3> QED  BY <1>2, <2>1, <2>3, <3>1, <3>2, ReleaseStepStatus, FamilyInvInductive
    <2>4. StatusFollowsEvidence'
      BY <1>2, <2>1, <2>2, <2>3, StepsSplit DEF vars
    <2> QED  BY <1>2, <2>4, FamilyInvInductive
  <1> QED  BY <1>1, <1>2, PTL DEF Spec

-----------------------------------------------------------------------------
(* The registry keeps the promises of its catalog.                           *)

StandingOf == [r \in Releases |-> Standing(rel[r].status)]
OriginOf   == [r \in Releases |-> rel[r].candidate]
HomeOf     == [r \in Releases |-> FamilyOfRelease(r)]

LEMMA EvidenceStepLocal ==
    ASSUME TypeOK, EvidenceStep
    PROVE  \E c \in Candidates : \A d \in Candidates \ {c} :
              elig'[d] = elig[d] /\ approvals'[d] = approvals[d]
  <1>1. PICK c \in Candidates :
           \/ \E result \in Evaluations : Reevaluate(c, result)
           \/ CreateCandidate(c)
           \/ \E found \in Findings : CollectArtifacts(c, found)
           \/ VerifyArtifacts(c)
           \/ GenerateModelCard(c)
           \/ \E verdict \in CardVerdicts : ValidateModelCard(c, verdict)
           \/ AssessEligibility(c)
           \/ GenerateManifest(c)
           \/ \E role \in Roles, decision \in {"approve", "reject"} :
                SubmitApproval(c, role, decision)
    BY DEF EvidenceStep
  <1>2. elig \in [Candidates -> Assessment] /\ approvals \in [Candidates -> Seq(Approval)]
    BY DEF TypeOK
  <1>3. \/ UNCHANGED <<elig, approvals>>
        \/ elig' = [elig EXCEPT ![c] = Assessed(c)] /\ approvals' = approvals
        \/ /\ elig' = elig
           /\ \E role \in Roles, decision \in {"approve", "reject"} :
                 approvals' = [approvals EXCEPT ![c] = Submitted(c, role, decision)]
    BY <1>1 DEF Reevaluate, CreateCandidate, CollectArtifacts, VerifyArtifacts, GenerateModelCard,
       ValidateModelCard, AssessEligibility, GenerateManifest, SubmitApproval
  <1> QED  BY <1>2, <1>3

LEMMA ReviewImplements ==
    ASSUME UNCHANGED <<rel, current>>, NEW c \in Candidates,
           \A d \in Candidates \ {c} : elig'[d] = elig[d] /\ approvals'[d] = approvals[d]
    PROVE  Catalog!Review(c)
  <1>1. \A d \in Candidates \ {c} : d \in Cleared' <=> d \in Cleared
    BY DEF Cleared
  <1>2. Cleared \subseteq Candidates /\ Cleared' \subseteq Candidates
    BY DEF Cleared
  <1>3. Cleared' \in {Cleared \cup {c}, Cleared \ {c}}
    <2>1. CASE c \in Cleared'
      <3>1. Cleared' = Cleared \cup {c}
        BY <1>1, <1>2, <2>1
      <3> QED  BY <3>1
    <2>2. CASE c \notin Cleared'
      <3>1. Cleared' = Cleared \ {c}
        BY <1>1, <1>2, <2>2
      <3> QED  BY <3>1
    <2> QED  BY <2>1, <2>2
  <1>4. StandingOf' = StandingOf /\ OriginOf' = OriginOf
    BY DEF StandingOf, OriginOf
  <1> QED  BY <1>3, <1>4 DEF Catalog!Review, StandingOf, OriginOf

LEMMA SameEvidenceCleared ==
    ASSUME UNCHANGED <<elig, approvals>> PROVE Cleared' = Cleared
  BY DEF Cleared

LEMMA RowRewritten ==
    ASSUME rel \in [Releases -> ReleaseRow], NEW r \in Releases, NEW new,
           rel' = [rel EXCEPT ![r] = new]
    PROVE  /\ StandingOf' = [StandingOf EXCEPT ![r] = Standing(new.status)]
           /\ OriginOf' = [OriginOf EXCEPT ![r] = new.candidate]
           /\ new.candidate = rel[r].candidate => OriginOf' = OriginOf
  <1>1. rel'[r] = new /\ \A q \in Releases \ {r} : rel'[q] = rel[q]
    OBVIOUS
  <1> QED  BY <1>1 DEF StandingOf, OriginOf

LEMMA PublishImplements ==
    ASSUME TypeOK, NEW c \in Candidates, NEW v \in Versions, CreateRelease(c, v)
    PROVE  Catalog!Publish(c, <<FamilyOf[c], v>>)
  <1> DEFINE r   == <<FamilyOf[c], v>>
             new == [status |-> "released", candidate |-> c,
                     deployable |-> IF elig[c].status = "eligible"
                                    THEN "deployable" ELSE "deployable_with_warnings"]
  <1>1. /\ rel' = [rel EXCEPT ![r] = new] /\ rel[r].status = "absent"
        /\ Releasable(c)
        /\ current' = [current EXCEPT ![FamilyOf[c]] = r]
        /\ UNCHANGED <<elig, approvals>>
    BY DEF CreateRelease, EvidenceAsBefore, Exists
  <1>2. new.status = "released" /\ new.candidate = c
    OBVIOUS
  <1>3. r \in Releases /\ FamilyOfRelease(r) = FamilyOf[c]
    BY NewRelease
  <1>4. c \in Cleared
    <2>1. /\ elig[c].status \in Eligible
          /\ PolicySatisfied(approvals[c])
          /\ \A k \in 1 .. Len(approvals[c]) : approvals[c][k].elig = elig[c]
      BY <1>1 DEF Releasable, Stale
    <2> QED  BY <2>1 DEF Cleared, PolicySatisfied
  <1> HIDE DEF r, new
  <1>5. /\ StandingOf' = [StandingOf EXCEPT ![r] = "offered"]
        /\ OriginOf' = [OriginOf EXCEPT ![r] = c]
    BY <1>1, <1>2, <1>3, RowRewritten DEF TypeOK, Standing
  <1>6. StandingOf[r] = "unpublished" /\ HomeOf[r] = FamilyOf[c]
    BY <1>1, <1>3 DEF StandingOf, HomeOf, Standing
  <1>7. Cleared' = Cleared
    BY <1>1, SameEvidenceCleared
  <1>8. current' = [current EXCEPT ![HomeOf[r]] = r]
    BY <1>1, <1>6
  <1>9. Catalog!Publish(c, r)
    BY <1>4, <1>5, <1>6, <1>7, <1>8
       DEF Catalog!Publish, Catalog!Published, StandingOf, OriginOf, HomeOf
  <1> QED  BY <1>9 DEF r

LEMMA RetirementImplements ==
    ASSUME TypeOK, NEW r \in Releases, DeprecateRelease(r) \/ RetireRelease(r)
    PROVE  Catalog!Withdraw(r) \/ UNCHANGED Catalog!catalogVars
  <1>1. PICK new : /\ rel' = [rel EXCEPT ![r] = new]
                   /\ new.status \in {"deprecated", "retired"}
                   /\ new.candidate = rel[r].candidate
    BY DEF DeprecateRelease, RetireRelease
  <1>2. rel[r].status \in {"released", "deprecated"} /\ UNCHANGED <<current, elig, approvals>>
    BY DEF DeprecateRelease, RetireRelease, EvidenceAsBefore
  <1>3. /\ StandingOf' = [StandingOf EXCEPT ![r] = "withdrawn"]
        /\ OriginOf' = OriginOf
    BY <1>1, RowRewritten DEF TypeOK, Standing
  <1>4. Cleared' = Cleared
    BY <1>2, SameEvidenceCleared
  <1>5. StandingOf[r] \in {"offered", "withdrawn"}
    BY <1>2 DEF StandingOf, Standing
  <1>6. CASE StandingOf[r] = "offered"
    BY <1>2, <1>3, <1>4, <1>6 DEF Catalog!Withdraw, StandingOf, OriginOf
  <1>7. CASE StandingOf[r] = "withdrawn"
    <2>1. StandingOf' = StandingOf
      BY <1>3, <1>7 DEF StandingOf
    <2> QED  BY <1>2, <1>3, <1>4, <2>1 DEF Catalog!catalogVars, StandingOf, OriginOf
  <1> QED  BY <1>5, <1>6, <1>7

LEMMA RollBackImplements ==
    ASSUME TypeOK, PlansNamed, NEW p \in Plans, ExecuteRollbackPlan(p)
    PROVE  Catalog!RollBack(plan[p].source, plan[p].target)
  <1> DEFINE from == plan[p].source
             to   == plan[p].target
             new  == [status |-> "rolled_back", candidate |-> rel[from].candidate,
                      deployable |-> rel[from].deployable]
  <1>1. /\ plan[p].status = "approved"
        /\ rel' = [rel EXCEPT ![from] = new]
        /\ current' = [current EXCEPT ![FamilyOfRelease(to)] = to]
        /\ UNCHANGED <<elig, approvals>>
    BY DEF ExecuteRollbackPlan, EvidenceAsBefore
  <1>2. /\ from \in Releases /\ to \in Releases /\ Exists(from) /\ Exists(to)
        /\ FamilyOfRelease(from) = FamilyOfRelease(to)
    BY <1>1 DEF PlansNamed
  <1>3. new.status = "rolled_back" /\ new.candidate = rel[from].candidate
    OBVIOUS
  <1> HIDE DEF from, to, new
  <1>4. /\ StandingOf' = [StandingOf EXCEPT ![from] = "withdrawn"]
        /\ OriginOf' = OriginOf
    BY <1>1, <1>2, <1>3, RowRewritten DEF TypeOK, Standing
  <1>5. StandingOf[from] # "unpublished" /\ StandingOf[to] # "unpublished"
    BY <1>2 DEF StandingOf, Standing, Exists
  <1>6. HomeOf[from] = HomeOf[to] /\ HomeOf[to] = FamilyOfRelease(to)
    BY <1>2 DEF HomeOf
  <1>7. current' = [current EXCEPT ![HomeOf[to]] = to]
    BY <1>1, <1>6
  <1>8. Cleared' = Cleared
    BY <1>1, SameEvidenceCleared
  <1>9. Catalog!RollBack(from, to)
    BY <1>4, <1>5, <1>6, <1>7, <1>8
       DEF Catalog!RollBack, Catalog!Published, StandingOf, OriginOf, HomeOf
  <1> QED  BY <1>9 DEF from, to

LEMMA SameRowsStutter ==
    ASSUME UNCHANGED <<rel, current, elig, approvals>> PROVE UNCHANGED Catalog!catalogVars
  <1>1. StandingOf' = StandingOf /\ OriginOf' = OriginOf
    BY DEF StandingOf, OriginOf
  <1> QED  BY <1>1, SameEvidenceCleared DEF Catalog!catalogVars, StandingOf, OriginOf

LEMMA CatalogStep ==
    ASSUME FamilyInv, [Next]_vars
    PROVE  [Catalog!CatalogNext]_(Catalog!catalogVars)
  <1>0. TypeOK /\ PlansNamed
    BY DEF FamilyInv
  <1>1. CASE EvidenceStep
    <2>1. PICK c \in Candidates : \A d \in Candidates \ {c} :
              elig'[d] = elig[d] /\ approvals'[d] = approvals[d]
      BY <1>0, <1>1, EvidenceStepLocal
    <2>2. Catalog!Review(c)
      BY <1>1, <2>1, EvidenceLeavesReleases, ReviewImplements
    <2> QED  BY <2>2 DEF Catalog!CatalogNext
  <1>2. CASE \E c \in Candidates, v \in Versions : CreateRelease(c, v)
    <2>1. PICK c \in Candidates, v \in Versions : CreateRelease(c, v)
      BY <1>2
    <2>2. Catalog!Publish(c, <<FamilyOf[c], v>>) /\ <<FamilyOf[c], v>> \in Releases
      BY <1>0, <2>1, PublishImplements, NewRelease
    <2> QED  BY <2>2 DEF Catalog!CatalogNext
  <1>3. CASE \E r \in Releases : DeprecateRelease(r) \/ RetireRelease(r)
    BY <1>0, <1>3, RetirementImplements DEF Catalog!CatalogNext
  <1>4. CASE \E p \in Plans : ExecuteRollbackPlan(p)
    <2>1. PICK p \in Plans : ExecuteRollbackPlan(p)
      BY <1>4
    <2>2. plan[p].source \in Releases /\ plan[p].target \in Releases
      BY <1>0, <2>1 DEF ExecuteRollbackPlan, PlansNamed
    <2> QED  BY <1>0, <2>1, <2>2, RollBackImplements DEF Catalog!CatalogNext
  <1>5. CASE UNCHANGED <<rel, current, elig, approvals>>
    BY <1>5, SameRowsStutter
  <1>6. ASSUME \/ \E p \in Plans, source, target \in Releases :
                      CreateRollbackPlan(p, source, target)
               \/ \E p \in Plans : ValidateRollbackPlan(p) \/ ApproveRollbackPlan(p)
        PROVE  UNCHANGED <<rel, current, elig, approvals>>
    BY <1>6 DEF CreateRollbackPlan, ValidateRollbackPlan, ApproveRollbackPlan, EvidenceAsBefore
  <1> QED  BY <1>1, <1>2, <1>3, <1>4, <1>5, <1>6, StepsSplit DEF ReleaseStep, vars

(* The registry implements its catalog: every operation is a review, a       *)
(* publication of a cleared candidate, a withdrawal, a rollback, or nothing. *)
THEOREM KeepsCatalog == Spec => CatalogIsKept
  <1>1. Init => Catalog!CatalogInit
    <2>1. Init => Cleared = {}
      BY DEF Init, Cleared, NothingAssessed, Eligible
    <2> QED  BY <2>1 DEF Init, Catalog!CatalogInit, Standing
  <1>2. FamilyInv /\ [Next]_vars => [Catalog!CatalogNext]_(Catalog!catalogVars)
    BY CatalogStep
  <1> QED  BY <1>1, <1>2, FamilyInvInductive, PTL DEF Spec, CatalogIsKept, Catalog!CatalogSpec
=============================================================================
