------------------------ MODULE AdminProposals_proofs ------------------------
(***************************************************************************)
(* Proofs about AdminProposals, for any proposals, targets and fingerprints*)
(***************************************************************************)
EXTENDS AdminProposals, TLAPS

(* Where a request is says what its proposal has been through. *)
Serving ==
    /\ request.at = "idle" => request = Idle
    /\ request.at # "idle" => /\ request.proposal \in Proposals
                              /\ row[request.proposal].status # "absent"
    /\ request.at \in {"executing", "succeeding", "failing"}
          => row[request.proposal].status = "approved"
    /\ request.at = "succeeding" => effects[request.proposal] > 0

(* An approval under way was compared with the target as it still is. *)
Compared ==
    ~OtherProcesses /\ request.at = "reviewed"
       => target[row[request.proposal].target] = row[request.proposal].stale_check

Targeted == \A p \in Proposals : row[p].status # "absent" => row[p].target \in Targets

IInv == TypeOK /\ Serving /\ Targeted /\ OnlyApprovedActs /\ ReportsAreTrue

(* Every step writes at most one row, and only in these ways. *)
RowMoves ==
    \/ row' = row
    \/ \E p \in Proposals : \E r \in Row :
          /\ row' = [row EXCEPT ![p] = r]
          /\ \/ /\ row[p].status = "absent" /\ r.status = "pending"
                /\ r.target \in Targets /\ r.execution = "not_applicable"
             \/ /\ r.target = row[p].target
                /\ row[p].status # "absent"
                /\ r.stale_check = row[p].stale_check
                /\ \/ r.status = row[p].status /\ r.execution = row[p].execution
                   \/ /\ row[p].status = "pending"
                      /\ r.status \in {"rejected", "cancelled", "expired"}
                      /\ r.execution \in {row[p].execution, "not_applicable"}
                   \/ /\ row[p].status = "pending"
                      /\ r.status = "approved" /\ r.execution = "pending"
                      /\ request = [proposal |-> p, at |-> "reviewed"]
                   \/ /\ row[p].status = "approved" /\ r.status = "approved"
                      /\ row[p].execution = "pending"
                      /\ \/ r.execution = "failed"
                         \/ /\ r.execution = "succeeded"
                            /\ request = [proposal |-> p, at |-> "succeeding"]

(* With the rows' moves, what becomes of the request and of the effects.   *)
RequestMoves ==
    \/ request' = request /\ effects' = effects
    \/ request' = Idle /\ effects' = effects
    \/ \E p \in Proposals :
          /\ row' = row
          /\ row[p].status # "absent"
          /\ \/ /\ effects' = effects
                /\ request' = [proposal |-> p, at |-> "reviewed"]
                /\ target[row[p].target] = row[p].stale_check
             \/ /\ effects' = effects
                /\ row[p].status = "approved"
                /\ request' = [proposal |-> p, at |-> "executing"]
             \/ /\ request = [proposal |-> p, at |-> "executing"]
                /\ \E outcome \in {"succeeding", "failing"} :
                      /\ request' = [proposal |-> p, at |-> outcome]
                      /\ \/ /\ effects[p] < MaxEffects
                            /\ effects' = [effects EXCEPT ![p] = @ + 1]
                         \/ outcome = "failing" /\ effects' = effects

-----------------------------------------------------------------------------
(* Each action is one of these moves. *)
LEMMA StepsMove ==
    ASSUME IInv, [Next]_vars
    PROVE  RowMoves /\ RequestMoves
<1> USE DEF IInv, TypeOK
<1>1. ASSUME NEW p \in Proposals, NEW t \in Targets, Propose(p, t)
      PROVE  RowMoves /\ RequestMoves
  <2> DEFINE r == [status |-> "pending", target |-> t, stale_check |-> target[t],
                   due |-> FALSE, execution |-> "not_applicable"]
  <2>1. r \in Row
    BY DEF Row
  <2>2. row' = [row EXCEPT ![p] = r] /\ request' = request /\ effects' = effects
    BY <1>1 DEF Propose
  <2>3. r.status = "pending" /\ r.target = t /\ r.execution = "not_applicable"
    OBVIOUS
  <2> HIDE DEF r
  <2>4. row[p].status = "absent"
    BY <1>1 DEF Propose
  <2> QED
    BY <2>1, <2>2, <2>3, <2>4 DEF RowMoves, RequestMoves
<1>2. ASSUME NEW p \in Proposals, NEW s \in {"rejected", "cancelled", "expired"},
             NEW e \in {row[p].execution, "not_applicable"},
             row[p].status = "pending", request' = request, effects' = effects,
             row' = [row EXCEPT ![p].status = s, ![p].execution = e]
      PROVE  RowMoves /\ RequestMoves
  <2> DEFINE r == [row[p] EXCEPT !.status = s, !.execution = e]
  <2>1. row[p] \in Row
    OBVIOUS
  <2>2. r \in Row
    BY <2>1 DEF Row
  <2>3. r.status = s /\ r.execution = e /\ r.target = row[p].target
        /\ r.stale_check = row[p].stale_check
    BY <2>1 DEF Row
  <2>4. row' = [row EXCEPT ![p] = r]
    BY <1>2, <2>1 DEF Row
  <2> HIDE DEF r
  <2> QED
    BY <1>2, <2>2, <2>3, <2>4 DEF RowMoves, RequestMoves
<1>3. ASSUME NEW p \in Proposals, GetProposal(p) PROVE RowMoves /\ RequestMoves
  <2>1. row' = [row EXCEPT ![p].status = "expired"] /\ row[p].status = "pending"
        /\ request' = request /\ effects' = effects
    BY <1>3 DEF GetProposal, ExpireIfDue, Expires
  <2>2. row' = [row EXCEPT ![p].status = "expired", ![p].execution = row[p].execution]
    BY <2>1 DEF Row
  <2> QED
    BY <2>1, <2>2, <1>2
<1>4. ASSUME NEW p \in Proposals, Cancel(p) PROVE RowMoves /\ RequestMoves
  <2>1. row' = [row EXCEPT ![p].status = "cancelled"] /\ row[p].status = "pending"
        /\ request' = request /\ effects' = effects
    BY <1>4 DEF Cancel
  <2>2. row' = [row EXCEPT ![p].status = "cancelled", ![p].execution = row[p].execution]
    BY <2>1 DEF Row
  <2> QED
    BY <2>1, <2>2, <1>2
<1>5. ASSUME NEW p \in Proposals, Reject(p) PROVE RowMoves /\ RequestMoves
  <2>1. /\ row' = [row EXCEPT ![p].status = "rejected", ![p].execution = "not_applicable"]
        /\ row[p].status = "pending" /\ request' = request /\ effects' = effects
    BY <1>5 DEF Reject, Review
  <2> QED
    BY <2>1, <1>2
<1>6. ASSUME NEW p \in Proposals, Approve(p) PROVE RowMoves /\ RequestMoves
  <2>1. CASE Review(p, "approved")
    <3> DEFINE r == [row[p] EXCEPT !.status = "approved", !.execution = "pending"]
    <3>1. row[p] \in Row /\ row[p].status = "pending" /\ request' = Idle /\ effects' = effects
          /\ request = [proposal |-> p, at |-> "reviewed"]
      BY <1>6, <2>1 DEF Approve, Review
    <3>2. r \in Row
      BY <3>1 DEF Row
    <3>3. r.status = "approved" /\ r.execution = "pending" /\ r.target = row[p].target
          /\ r.stale_check = row[p].stale_check
      BY <3>1 DEF Row
    <3>4. row' = [row EXCEPT ![p] = r]
      BY <2>1, <3>1 DEF Review, Row
    <3> HIDE DEF r
    <3> QED
      BY <3>1, <3>2, <3>3, <3>4 DEF RowMoves, RequestMoves
  <2>2. CASE row[p].due /\ UNCHANGED <<row, target, effects>>
    BY <1>6, <2>2 DEF Approve, RowMoves, RequestMoves
  <2> QED
    BY <1>6, <2>1, <2>2 DEF Approve
<1>7. ASSUME NEW p \in Proposals, RecordOutcome(p) PROVE RowMoves /\ RequestMoves
  <2>1. request' = Idle /\ effects' = effects
    BY <1>7 DEF RecordOutcome
  <2>2. CASE row[p].status = "approved" /\ row[p].execution = "pending"
    <3> DEFINE e == IF request.at = "succeeding" THEN "succeeded" ELSE "failed"
               r == [row[p] EXCEPT !.execution = e]
    <3>1. row[p] \in Row /\ e \in {"succeeded", "failed"}
      OBVIOUS
    <3>2. r \in Row
      BY <3>1 DEF Row
    <3>3. r.status = row[p].status /\ r.execution = e /\ r.target = row[p].target
          /\ r.stale_check = row[p].stale_check
      BY <3>1 DEF Row
    <3>4. row' = [row EXCEPT ![p] = r]
      BY <1>7, <2>2, <3>1 DEF RecordOutcome, Row
    <3>5. e = "succeeded" => request = [proposal |-> p, at |-> "succeeding"]
      BY <1>7 DEF RecordOutcome, Request
    <3> HIDE DEF r, e
    <3> QED
      BY <2>1, <2>2, <3>1, <3>2, <3>3, <3>4, <3>5 DEF RowMoves, RequestMoves
  <2>3. CASE ~(row[p].status = "approved" /\ row[p].execution = "pending")
    BY <1>7, <2>1, <2>3 DEF RecordOutcome, RowMoves, RequestMoves
  <2> QED
    BY <2>2, <2>3
<1>8. ASSUME NEW p \in Proposals, TimePasses(p) PROVE RowMoves /\ RequestMoves
  <2> DEFINE r == [row[p] EXCEPT !.due = TRUE]
  <2>1. row[p] \in Row /\ row[p].status # "absent" /\ request' = request /\ effects' = effects
    BY <1>8 DEF TimePasses
  <2>2. r \in Row
    BY <2>1 DEF Row
  <2>3. r.status = row[p].status /\ r.execution = row[p].execution /\ r.target = row[p].target
        /\ r.stale_check = row[p].stale_check
    BY <2>1 DEF Row
  <2>4. row' = [row EXCEPT ![p] = r]
    BY <1>8, <2>1 DEF TimePasses, Row
  <2> HIDE DEF r
  <2> QED
    BY <2>1, <2>2, <2>3, <2>4 DEF RowMoves, RequestMoves
<1>9. ASSUME NEW p \in Proposals, StartApproval(p) \/ StartExecution(p)
      PROVE  RowMoves /\ RequestMoves
  BY <1>9 DEF StartApproval, StartExecution, RowMoves, RequestMoves
<1>10. ASSUME NEW p \in Proposals, NEW outcome \in {"succeeding", "failing"}, Executor(p, outcome)
       PROVE  RowMoves /\ RequestMoves
  <2>1. request' = [proposal |-> p, at |-> outcome] /\ row' = row
        /\ request = [proposal |-> p, at |-> "executing"]
    BY <1>10 DEF Executor
  <2>2. row[p].status # "absent"
    BY <2>1 DEF Serving
  <2>3. \/ effects[p] < MaxEffects /\ effects' = [effects EXCEPT ![p] = @ + 1]
        \/ outcome = "failing" /\ effects' = effects
    BY <1>10 DEF Executor
  <2> QED
    BY <2>1, <2>2, <2>3 DEF RowMoves, RequestMoves
<1>11. ASSUME Crash \/ (\E t \in Targets : TargetChanges(t)) \/ UNCHANGED vars
       PROVE  RowMoves /\ RequestMoves
  BY <1>11 DEF Crash, TargetChanges, vars, RowMoves, RequestMoves
<1> QED
  BY <1>1, <1>3, <1>4, <1>5, <1>6, <1>7, <1>8, <1>9, <1>10, <1>11 DEF Next

(* Targets keep their type. *)
LEMMA TargetsTyped ==
    ASSUME IInv, [Next]_vars
    PROVE  target' \in [Targets -> Fingerprints]
<1> USE DEF IInv, TypeOK
<1>1. CASE \E p \in Proposals : \E o \in {"succeeding", "failing"} : Executor(p, o)
  BY <1>1 DEF Executor
<1>2. CASE \E t \in Targets : TargetChanges(t)
  BY <1>2 DEF TargetChanges
<1>3. CASE ~(\E p \in Proposals : \E o \in {"succeeding", "failing"} : Executor(p, o))
           /\ ~(\E t \in Targets : TargetChanges(t))
  BY <1>3 DEF Next, vars, Propose, GetProposal, StartApproval, Approve, Review, Reject, Cancel,
              StartExecution, RecordOutcome, TimePasses, Crash
<1> QED
  BY <1>1, <1>2, <1>3

LEMMA InitInv == Init => IInv
<1> SUFFICES ASSUME Init PROVE IInv
  OBVIOUS
<1>1. row \in [Proposals -> Row] /\ \A p \in Proposals : row[p].status = "absent"
      /\ row[p].execution = "not_applicable"
  BY DEF Init, Row
<1>2. request = Idle /\ Idle \in Request /\ Idle.at = "idle"
  BY DEF Init, Idle, Request
<1>3. effects \in [Proposals -> 0 .. MaxEffects] /\ \A p \in Proposals : effects[p] = 0
  BY EffectsAssumption DEF Init
<1>4. TypeOK
  BY <1>1, <1>2, <1>3 DEF Init, TypeOK
<1>5. Serving /\ Targeted
  BY <1>1, <1>2 DEF Serving, Targeted
<1>6. OnlyApprovedActs /\ ReportsAreTrue
  BY <1>1, <1>3 DEF OnlyApprovedActs, ReportsAreTrue
<1> QED
  BY <1>4, <1>5, <1>6 DEF IInv

LEMMA StepInv == IInv /\ [Next]_vars => IInv'
<1> SUFFICES ASSUME IInv, [Next]_vars PROVE IInv'
  OBVIOUS
<1> USE DEF IInv, TypeOK
<1>1. RowMoves /\ RequestMoves /\ target' \in [Targets -> Fingerprints]
  BY StepsMove, TargetsTyped
<1>2. row' \in [Proposals -> Row] /\ Targeted'
  BY <1>1 DEF RowMoves, Targeted
<1>3. request' \in Request /\ effects' \in [Proposals -> 0 .. MaxEffects]
  BY <1>1, EffectsAssumption DEF RequestMoves, Request, Idle
<1>4. \A p \in Proposals : /\ row[p].status # "absent" => row'[p].status # "absent"
                           /\ row[p].status = "approved" => row'[p].status = "approved"
                           /\ effects'[p] >= effects[p]
  BY <1>1, EffectsAssumption DEF RowMoves, RequestMoves
<1>5. Serving'
  BY <1>1, <1>3, <1>4, EffectsAssumption DEF RequestMoves, Serving, Idle, Request
<1>6. OnlyApprovedActs'
  BY <1>1, <1>3, <1>4, EffectsAssumption DEF RequestMoves, Serving, OnlyApprovedActs
<1>7. ReportsAreTrue'
  <2> SUFFICES ASSUME NEW p \in Proposals
               PROVE  /\ row'[p].execution # "not_applicable" => row'[p].status = "approved"
                      /\ row'[p].execution = "succeeded" => effects'[p] > 0
    BY DEF ReportsAreTrue
  <2>1. row'[p].execution # "not_applicable" => row'[p].status = "approved"
    BY <1>1 DEF RowMoves, ReportsAreTrue
  <2>2. row'[p].execution = "succeeded" /\ row[p].execution # "succeeded"
           => request = [proposal |-> p, at |-> "succeeding"]
    BY <1>1 DEF RowMoves, ReportsAreTrue
  <2>3. row'[p].execution = "succeeded" => effects[p] > 0
    BY <2>2 DEF ReportsAreTrue, Serving
  <2>4. effects'[p] >= effects[p] /\ effects[p] \in Nat /\ effects'[p] \in Nat
    BY <1>3, <1>4, EffectsAssumption
  <2> QED
    BY <2>1, <2>3, <2>4
<1> QED
  BY <1>1, <1>2, <1>3, <1>5, <1>6, <1>7

LEMMA Inductive == Spec => []IInv
  BY InitInv, StepInv, PTL DEF Spec

-----------------------------------------------------------------------------
(* Every variable keeps its type: AdminApprovalRepository writes only what *)
(* the CHECK constraints of admin_approvals allow.                         *)
THEOREM ProposalsTyped == Spec => []TypeOK
<1>1. IInv => TypeOK
  BY DEF IInv
<1> QED
  BY Inductive, <1>1, PTL

(* Whatever the order of reviews, executions, expiry and crashes, only an  *)
(* approved proposal has ever changed its target (execute, review).        *)
THEOREM ApprovalBeforeEffect == Spec => []OnlyApprovedActs
<1>1. IInv => OnlyApprovedActs
  BY DEF IInv
<1> QED
  BY Inductive, <1>1, PTL

(* An execution reported as successful changed its target                  *)
(* (update_execution after the executor).                                  *)
THEOREM TrueReports == Spec => []ReportsAreTrue
<1>1. IInv => ReportsAreTrue
  BY DEF IInv
<1> QED
  BY Inductive, <1>1, PTL

(* Decided proposals stay decided and reports are not rewritten: the       *)
(* guards of update_review, cancel, _expire_if_due and update_execution.   *)
THEOREM FinalDecisions == Spec => DecisionsStay
<1> DEFINE Stay == \A p \in Proposals :
          /\ row[p].status \notin {"absent", "pending"} => row'[p].status = row[p].status
          /\ row[p].execution \in {"succeeded", "failed"} => row'[p].execution = row[p].execution
<1>1. ASSUME IInv, [Next]_vars PROVE Stay
  <2>1. RowMoves
    BY <1>1, StepsMove
  <2>2. \A p \in Proposals : row[p].execution # "not_applicable" => row[p].status = "approved"
    BY <1>1 DEF IInv, ReportsAreTrue
  <2> QED
    BY <1>1, <2>1, <2>2 DEF RowMoves, IInv, TypeOK
<1>2. IInv /\ [Next]_vars => [Stay]_vars
  BY <1>1
<1> QED
  BY Inductive, <1>2, PTL DEF Spec, DecisionsStay

-----------------------------------------------------------------------------
(* With the server the only process, the comparison of an approval still   *)
(* holds when the approval is written.                                     *)
LEMMA ComparedInductive ==
    ASSUME ~OtherProcesses
    PROVE  Spec => [](IInv /\ Compared)
<1>1. Init => Compared
  BY DEF Init, Compared, Idle
<1>2. ASSUME IInv, Compared, [Next]_vars PROVE Compared'
  <2>1. RowMoves /\ RequestMoves
    BY <1>2, StepsMove
  <2>2. SUFFICES ASSUME request'.at = "reviewed"
                 PROVE  target'[row'[request'.proposal].target]
                           = row'[request'.proposal].stale_check
    BY DEF Compared
  <2>3. request' # Idle
    BY <2>2 DEF Idle
  <2>4. CASE request' = request
    <3>1. request # Idle
      BY <2>3, <2>4
    <3>2. target' = target
      BY <1>2, <2>2, <2>4, <3>1
         DEF Next, vars, Propose, GetProposal, StartApproval, Approve, Review, Reject, Cancel,
             StartExecution, Executor, RecordOutcome, TimePasses, Crash, TargetChanges
    <3>3. row'[request.proposal].target = row[request.proposal].target
          /\ row'[request.proposal].stale_check = row[request.proposal].stale_check
      BY <1>2, <2>1, <2>2, <2>4 DEF RowMoves, IInv, TypeOK, Serving
    <3> QED
      BY <1>2, <2>2, <2>4, <3>2, <3>3 DEF Compared
  <2>5. CASE request' # request
    <3>1. PICK p \in Proposals : StartApproval(p)
      BY <1>2, <2>2, <2>3, <2>5
         DEF Next, vars, Propose, GetProposal, Approve, Reject, Cancel,
             StartExecution, Executor, RecordOutcome, TimePasses, Crash, TargetChanges, IInv,
             TypeOK, Request
    <3> QED
      BY <3>1 DEF StartApproval
  <2> QED
    BY <2>4, <2>5
<1>3. IInv /\ Compared /\ [Next]_vars => Compared'
  BY <1>2
<1> QED
  BY Inductive, <1>1, <1>3, PTL DEF Spec

(* An approval is given to the target as it was when the proposal was made *)
(* (review), when no other process changes targets during a request.       *)
THEOREM ApprovesWhatWasProposed ==
    ASSUME ~OtherProcesses
    PROVE  Spec => ApprovedAsProposed
<1> DEFINE Same == \A p \in Proposals :
          row[p].status # "approved" /\ row'[p].status = "approved"
             => target[row[p].target] = row[p].stale_check
<1>1. ASSUME IInv, Compared, [Next]_vars PROVE Same
  <2>1. RowMoves
    BY <1>1, StepsMove
  <2>2. \A p \in Proposals : row[p].status # "approved" /\ row'[p].status = "approved"
           => request = [proposal |-> p, at |-> "reviewed"]
    BY <1>1, <2>1 DEF RowMoves, IInv, TypeOK
  <2> QED
    BY <1>1, <2>2 DEF Compared
<1>2. IInv /\ Compared /\ [Next]_vars => [Same]_vars
  BY <1>1
<1> QED
  BY ComparedInductive, <1>2, PTL DEF Spec, ApprovedAsProposed
-----------------------------------------------------------------------------
(* ApprovedActions: each step decides, acts, reports, or does nothing that  *)
(* the admin was promised anything about.                                   *)
DecisionOf == [p \in Proposals |-> Decision(row[p].status)]
ReportOf == [p \in Proposals |-> Reported(row[p].execution)]

(* The row of one proposal is rewritten. *)
LEMMA RowImplements ==
    ASSUME IInv, effects' = effects,
           NEW p \in Proposals, NEW r \in Row,
           row' = [row EXCEPT ![p] = r],
           \/ row[p].status = "absent" /\ r.status = "pending" /\ r.execution = "not_applicable"
           \/ r.status = row[p].status /\ r.execution = row[p].execution
           \/ /\ row[p].status = "pending"
              /\ r.status \in {"rejected", "cancelled", "expired"}
              /\ r.execution \in {row[p].execution, "not_applicable"}
           \/ row[p].status = "pending" /\ r.status = "approved" /\ r.execution = "pending"
           \/ /\ row[p].status = "approved" /\ r.status = "approved"
              /\ row[p].execution = "pending"
              /\ \/ r.execution = "failed"
                 \/ r.execution = "succeeded" /\ effects[p] > 0
    PROVE  [Promised!ActionsNext]_(Promised!actionVars)
<1>1. row \in [Proposals -> Row] /\ row[p] \in Row
  BY DEF IInv, TypeOK
<1>2. row[p].status # "approved" => row[p].execution = "not_applicable"
  BY DEF IInv, ReportsAreTrue
<1>3. DecisionOf' = [DecisionOf EXCEPT ![p] = Decision(r.status)]
  BY <1>1, Zenon DEF DecisionOf
<1>4. ReportOf' = [ReportOf EXCEPT ![p] = Reported(r.execution)]
  BY <1>1, Zenon DEF ReportOf
<1>5. DecisionOf[p] = Decision(row[p].status) /\ ReportOf[p] = Reported(row[p].execution)
  BY DEF DecisionOf, ReportOf
<1>6. /\ DecisionOf = [q \in Proposals |-> DecisionOf[q]]
      /\ ReportOf = [q \in Proposals |-> ReportOf[q]]
  BY DEF DecisionOf, ReportOf
<1>7. Decision(r.status) = DecisionOf[p] => DecisionOf' = DecisionOf
  BY <1>3, <1>6
<1>8. Reported(r.execution) = ReportOf[p] => ReportOf' = ReportOf
  BY <1>4, <1>6
<1>9. CASE \/ row[p].status = "absent" /\ r.status = "pending" /\ r.execution = "not_applicable"
           \/ r.status = row[p].status /\ r.execution = row[p].execution
  <2>1. Decision(r.status) = DecisionOf[p] /\ Reported(r.execution) = ReportOf[p]
    BY <1>2, <1>5, <1>9 DEF Decision, Reported
  <2> QED
    BY <1>7, <1>8, <2>1 DEF Promised!actionVars, DecisionOf, ReportOf
<1>10. ASSUME NEW s \in {"approved", "refused"}, row[p].status = "pending",
              Decision(r.status) = s, r.execution \notin {"succeeded", "failed"}
       PROVE  Promised!Decide(p, s)
  <2>1. DecisionOf[p] = "open" /\ Reported(r.execution) = ReportOf[p]
    BY <1>2, <1>5, <1>10 DEF Decision, Reported
  <2>2. DecisionOf' = [DecisionOf EXCEPT ![p] = s] /\ ReportOf' = ReportOf
    BY <1>3, <1>8, <1>10, <2>1
  <2> QED
    BY <2>1, <2>2 DEF Promised!Decide, DecisionOf, ReportOf
<1>11. CASE /\ row[p].status = "pending"
            /\ r.status \in {"rejected", "cancelled", "expired"}
            /\ r.execution \in {row[p].execution, "not_applicable"}
  <2>1. Decision(r.status) = "refused" /\ r.execution \notin {"succeeded", "failed"}
    BY <1>2, <1>11 DEF Decision
  <2> QED
    BY <1>10, <1>11, <2>1 DEF Promised!ActionsNext
<1>12. CASE row[p].status = "pending" /\ r.status = "approved" /\ r.execution = "pending"
  <2>1. Decision(r.status) = "approved" /\ r.execution \notin {"succeeded", "failed"}
    BY <1>12 DEF Decision
  <2> QED
    BY <1>10, <1>12, <2>1 DEF Promised!ActionsNext
<1>13. CASE /\ row[p].status = "approved" /\ r.status = "approved"
            /\ row[p].execution = "pending"
            /\ \/ r.execution = "failed"
               \/ r.execution = "succeeded" /\ effects[p] > 0
  <2>1. /\ DecisionOf[p] = "approved" /\ Decision(r.status) = "approved"
        /\ ReportOf[p] = "none" /\ Reported(r.execution) = r.execution
    BY <1>5, <1>13 DEF Decision, Reported
  <2>2. ReportOf' = [ReportOf EXCEPT ![p] = r.execution] /\ DecisionOf' = DecisionOf
    BY <1>4, <1>7, <2>1
  <2>3. Promised!Report(p, r.execution)
    BY <1>13, <2>1, <2>2 DEF Promised!Report, DecisionOf, ReportOf
  <2> QED
    BY <1>13, <2>3 DEF Promised!ActionsNext
<1> QED
  BY <1>9, <1>11, <1>12, <1>13

LEMMA PromiseStep ==
    ASSUME IInv, [Next]_vars
    PROVE  [Promised!ActionsNext]_(Promised!actionVars)
<1>1. RowMoves /\ RequestMoves
  BY StepsMove
<1>2. \/ row' = row /\ effects' = effects
      \/ row' # row /\ effects' = effects
      \/ row' = row /\ effects' # effects
  BY <1>1 DEF RequestMoves
<1>3. CASE row' = row /\ effects' = effects
  BY <1>3 DEF Promised!actionVars
<1>4. CASE row' # row /\ effects' = effects
  <2>1. PICK p \in Proposals, r \in Row :
          /\ row' = [row EXCEPT ![p] = r]
          /\ \/ /\ row[p].status = "absent" /\ r.status = "pending"
                /\ r.execution = "not_applicable"
             \/ r.status = row[p].status /\ r.execution = row[p].execution
             \/ /\ row[p].status = "pending"
                /\ r.status \in {"rejected", "cancelled", "expired"}
                /\ r.execution \in {row[p].execution, "not_applicable"}
             \/ row[p].status = "pending" /\ r.status = "approved" /\ r.execution = "pending"
             \/ /\ row[p].status = "approved" /\ r.status = "approved"
                /\ row[p].execution = "pending"
                /\ \/ r.execution = "failed"
                   \/ /\ r.execution = "succeeded"
                      /\ request = [proposal |-> p, at |-> "succeeding"]
    BY <1>1, <1>4 DEF RowMoves
  <2>2. request = [proposal |-> p, at |-> "succeeding"] => effects[p] > 0
    BY DEF IInv, Serving
  <2> QED
    BY <1>4, <2>1, <2>2, RowImplements
<1>5. CASE row' = row /\ effects' # effects
  <2>1. PICK p \in Proposals : /\ request = [proposal |-> p, at |-> "executing"]
                              /\ effects' = [effects EXCEPT ![p] = @ + 1]
    BY <1>1, <1>5 DEF RequestMoves
  <2>2. DecisionOf[p] = "approved"
    BY <2>1 DEF IInv, Serving, DecisionOf, Decision
  <2>3. Promised!Act(p)
    BY <1>5, <2>1, <2>2 DEF Promised!Act, DecisionOf
  <2> QED
    BY <2>3 DEF Promised!ActionsNext
<1> QED
  BY <1>2, <1>3, <1>4, <1>5

(* The review and execution chains of the service implement                *)
(* ApprovedActions, wherever they are cut: the step from one promise to    *)
(* the next is the row's transaction, and an effect falls between two.     *)
THEOREM DecidesThenActs == Spec => ActsAsDecided
<1>1. Init => Promised!ActionsInit
  BY DEF Init, Promised!ActionsInit, Decision, Reported
<1>2. IInv /\ [Next]_vars => [Promised!ActionsNext]_(Promised!actionVars)
  BY PromiseStep
<1> QED
  BY <1>1, <1>2, Inductive, PTL DEF Spec, ActsAsDecided, Promised!ActionsSpec
=============================================================================
