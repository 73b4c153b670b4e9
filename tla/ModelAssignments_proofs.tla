----------------------- MODULE ModelAssignments_proofs -----------------------
(***************************************************************************)
(* Theorems about ModelAssignments, for any releases, assignments, scopes, *)
(* roles and bounds:                                                       *)
(*                                                                         *)
(*   ApprovedWhileAssigned   what an approved, active or paused assignment *)
(*                           names is its current, approved version        *)
(*   ServesApproved          the lifecycle implements AssignedReleases     *)
(*   AssignmentsTyped        every row keeps its type                      *)
(*   AnswersAreRight         with the server alone and no late failure, an *)
(*                           answer comes from the release assigned        *)
(*                                                                         *)
(* The first two speak of the assignments and their versions only, which   *)
(* nothing but the lifecycle writes; the last two rest on the lemmas of    *)
(* InferenceRuntime_proofs.                                                *)
(***************************************************************************)
EXTENDS ModelAssignments, InferenceRuntime_proofs, TLAPS

Held == {"approved", "active", "paused"}

Assigned ==
    /\ asg \in [Assignments -> AssignmentRow]
    /\ versions \in [Assignments -> Seq(Releases)]

(* Inductive: the type of the two variables and the property itself. *)
ApprovedInv == Assigned /\ ActiveIsApproved

(* What the row of one assignment must satisfy, given its versions. *)
Honest(row, approvedVersions) ==
    /\ row \in AssignmentRow
    /\ row.status \in Held => /\ row.version \in 1 .. Len(approvedVersions)
                              /\ row.release = approvedVersions[row.version]

(* Everything that is not the lifecycle leaves assignments and versions alone. *)
LEMMA UseKeepsAssignments ==
    ASSUME Use \/ Runtime
    PROVE  UNCHANGED <<asg, versions>>
  BY DEF Use, Runtime, Ask, OpenSession, PostMessage, CloseSession, StartCanary,
         StopCanary, ExecuteCanary, assignmentVars

(* A step that writes one honest row and no version keeps the invariant. *)
LEMMA RowWritten ==
    ASSUME ApprovedInv, NEW a \in Assignments, NEW row, Honest(row, versions[a]),
           asg' = [asg EXCEPT ![a] = row], versions' = versions
    PROVE  ApprovedInv'
  <1>1. Assigned'
    BY DEF ApprovedInv, Assigned, Honest
  <1>2. ASSUME NEW b \in Assignments, asg'[b].status \in Held
        PROVE  /\ asg'[b].version \in 1 .. Len(versions'[b])
               /\ asg'[b].release = versions'[b][asg'[b].version]
    <2>1. CASE b = a
      <3>1. asg'[b] = row
        BY <2>1 DEF ApprovedInv, Assigned
      <3> QED  BY <1>2, <2>1, <3>1 DEF Honest
    <2>2. CASE b # a
      <3>1. asg'[b] = asg[b]
        BY <2>2 DEF ApprovedInv, Assigned
      <3> QED  BY <1>2, <3>1 DEF ApprovedInv, ActiveIsApproved, Held
    <2> QED  BY <2>1, <2>2
  <1> QED  BY <1>1, <1>2 DEF ApprovedInv, ActiveIsApproved, Held

(* Every operation but an approval writes one honest row and no version. *)
LEMMA LifecycleWritesHonestRows ==
    ASSUME ApprovedInv, NEW a \in Assignments,
           \/ \E r \in Releases : CreateAssignment(a, r) \/ PatchAssignment(a, r)
           \/ ValidateAssignment(a)
           \/ \E role \in Roles : Reject(a, role)
           \/ Activate(a)
           \/ Pause(a)
           \/ Resume(a)
           \/ \E by \in Callers, v \in 1 .. Len(versions[a]) : Rollback(by, a, v)
    PROVE  /\ versions' = versions
           /\ \E row \in AssignmentRow : /\ Honest(row, versions[a])
                                         /\ asg' = [asg EXCEPT ![a] = row]
  <1> DEFINE Row(status, release, version) ==
               [status |-> status, release |-> release, version |-> version]
             Same(status) == Row(status, asg[a].release, asg[a].version)
  <1>1. /\ asg[a] \in AssignmentRow
        /\ asg[a].release \in MaybeRelease
        /\ asg[a].version \in Nat
    BY DEF ApprovedInv, Assigned, AssignmentRow
  <1>2. asg[a].status \in Held => Honest(asg[a], versions[a])
    BY <1>1 DEF ApprovedInv, ActiveIsApproved, Held, Honest
  <1>3. ASSUME NEW status \in AssignmentStatuses,
               status \notin Held \/ asg[a].status \in Held
        PROVE  /\ Same(status) \in AssignmentRow
               /\ Honest(Same(status), versions[a])
               /\ [asg EXCEPT ![a].status = status] = [asg EXCEPT ![a] = Same(status)]
    <2>1. Same(status) \in AssignmentRow
      BY <1>1, <1>3 DEF AssignmentRow
    <2>2. Honest(Same(status), versions[a])
      BY <1>2, <1>3, <2>1 DEF Honest
    <2>3. [asg[a] EXCEPT !.status = status] = Same(status)
      BY <1>1 DEF AssignmentRow
    <2> QED  BY <2>1, <2>2, <2>3
  <1>4. CASE \E r \in Releases : CreateAssignment(a, r) \/ PatchAssignment(a, r)
    <2>1. PICK r \in Releases : CreateAssignment(a, r) \/ PatchAssignment(a, r)
      BY <1>4
    <2>2. CASE CreateAssignment(a, r)
      <3>1. Row("draft", r, 0) \in AssignmentRow
        BY DEF AssignmentRow, AssignmentStatuses, MaybeRelease
      <3>2. Honest(Row("draft", r, 0), versions[a])
        BY <3>1 DEF Honest, Held
      <3> QED  BY <2>2, <3>1, <3>2 DEF CreateAssignment, OnlyAssignments
    <2>3. CASE PatchAssignment(a, r)
      <3>1. Row("draft", r, asg[a].version) \in AssignmentRow
        BY <1>1 DEF AssignmentRow, AssignmentStatuses, MaybeRelease
      <3>2. Honest(Row("draft", r, asg[a].version), versions[a])
        BY <3>1 DEF Honest, Held
      <3> QED  BY <2>3, <3>1, <3>2 DEF PatchAssignment, OnlyAssignments
    <2> QED  BY <2>1, <2>2, <2>3
  <1>5. CASE ValidateAssignment(a)
    <2>1. PICK status \in {"validating", "rejected"} : asg' = [asg EXCEPT ![a].status = status]
      BY <1>5 DEF ValidateAssignment
    <2> QED  BY <1>3, <1>5, <2>1
             DEF ValidateAssignment, OnlyAssignments, Held, AssignmentStatuses
  <1>6. CASE \E role \in Roles : Reject(a, role)
    BY <1>3, <1>6 DEF Reject, Held, AssignmentStatuses
  <1>7. CASE Activate(a)
    BY <1>3, <1>7 DEF Activate, OnlyAssignments, Held, AssignmentStatuses
  <1>8. CASE Pause(a)
    BY <1>3, <1>8 DEF Pause, OnlyAssignments, Held, AssignmentStatuses
  <1>9. CASE Resume(a)
    BY <1>3, <1>9 DEF Resume, OnlyAssignments, Held, AssignmentStatuses
  <1>10. CASE \E by \in Callers, v \in 1 .. Len(versions[a]) : Rollback(by, a, v)
    <2>1. PICK v \in 1 .. Len(versions[a]) : \E by \in Callers : Rollback(by, a, v)
      BY <1>10
    <2>2. PICK status \in {"active", "paused"} : Restore(a, v, status)
      BY <2>1 DEF Rollback
    <2>3. versions[a][v] \in Releases /\ v \in Nat
      BY <2>1 DEF ApprovedInv, Assigned
    <2>4. Row(status, versions[a][v], v) \in AssignmentRow
      BY <2>2, <2>3 DEF AssignmentRow, AssignmentStatuses, MaybeRelease
    <2>5. Honest(Row(status, versions[a][v], v), versions[a])
      BY <2>1, <2>4 DEF Honest
    <2> QED  BY <2>1, <2>2, <2>4, <2>5 DEF Restore, Rollback
  <1> QED  BY <1>4, <1>5, <1>6, <1>7, <1>8, <1>9, <1>10

(* An approval writes a version and, with it, the row that names it. *)
LEMMA ApprovalWritesBoth ==
    ASSUME ApprovedInv, NEW a \in Assignments, NEW role \in Roles, Approve(a, role)
    PROVE  \/ UNCHANGED <<asg, versions>>
           \/ /\ asg[a].release \in Releases
              /\ asg[a].status = "validating"
              /\ versions' = [versions EXCEPT ![a] = Append(versions[a], asg[a].release)]
              /\ asg' = [asg EXCEPT ![a] =
                           [status |-> "approved", release |-> asg[a].release,
                            version |-> Len(versions[a]) + 1]]
  <1>1. Fit[ScopeOf[a]] \subseteq Releases
    BY ScopeAssumption
  <1>2. asg[a].release \in Releases
    BY <1>1 DEF Approve, Eligible
  <1> QED  BY <1>2 DEF Approve

(* A version appended is the last one, and the earlier ones stay. *)
LEMMA VersionAppended ==
    ASSUME NEW s \in Seq(Releases), NEW r \in Releases
    PROVE  /\ Append(s, r) \in Seq(Releases)
           /\ Len(Append(s, r)) = Len(s) + 1
           /\ Len(s) + 1 \in Nat
           /\ Append(s, r)[Len(s) + 1] = r
           /\ \A v \in 1 .. Len(s) : Append(s, r)[v] = s[v]
  OBVIOUS

LEMMA ApprovalKeepsInvariant ==
    ASSUME ApprovedInv, NEW a \in Assignments, NEW role \in Roles, Approve(a, role)
    PROVE  ApprovedInv'
  <1>1. CASE UNCHANGED <<asg, versions>>
    BY <1>1 DEF ApprovedInv, Assigned, ActiveIsApproved
  <1>2. CASE ~ UNCHANGED <<asg, versions>>
    <2> DEFINE grown == Append(versions[a], asg[a].release)
               row == [status |-> "approved", release |-> asg[a].release,
                       version |-> Len(versions[a]) + 1]
    <2>1. /\ asg[a].release \in Releases
          /\ versions' = [versions EXCEPT ![a] = grown]
          /\ asg' = [asg EXCEPT ![a] = row]
      BY <1>2, ApprovalWritesBoth
    <2>2. versions[a] \in Seq(Releases)
      BY DEF ApprovedInv, Assigned
    <2>3. /\ grown \in Seq(Releases)
          /\ Len(grown) = Len(versions[a]) + 1
          /\ Len(versions[a]) \in Nat
          /\ grown[Len(versions[a]) + 1] = asg[a].release
      BY <2>1, <2>2, VersionAppended
    <2>4. row \in AssignmentRow
      BY <2>1, <2>3 DEF AssignmentRow, AssignmentStatuses, MaybeRelease
    <2>5. row.version \in 1 .. Len(grown) /\ row.release = grown[row.version]
      BY <2>3
    <2> HIDE DEF grown, row
    <2>6. Assigned'
      BY <2>1, <2>3, <2>4 DEF ApprovedInv, Assigned
    <2>7. ASSUME NEW b \in Assignments, asg'[b].status \in Held
          PROVE  /\ asg'[b].version \in 1 .. Len(versions'[b])
                 /\ asg'[b].release = versions'[b][asg'[b].version]
      <3>1. CASE b = a
        <4>1. asg'[b] = row /\ versions'[b] = grown
          BY <2>1, <3>1 DEF ApprovedInv, Assigned
        <4> QED  BY <2>5, <4>1
      <3>2. CASE b # a
        <4>1. asg'[b] = asg[b] /\ versions'[b] = versions[b]
          BY <2>1, <3>2 DEF ApprovedInv, Assigned
        <4> QED  BY <2>7, <4>1 DEF ApprovedInv, ActiveIsApproved, Held
      <3> QED  BY <3>1, <3>2
    <2> QED  BY <2>6, <2>7 DEF ApprovedInv, ActiveIsApproved, Held
  <1> QED  BY <1>1, <1>2

LEMMA ApprovedInvHolds ==
    Spec => []ApprovedInv
  <1>1. Init => ApprovedInv
    BY DEF Init, ApprovedInv, Assigned, ActiveIsApproved, AssignmentRow,
           AssignmentStatuses, MaybeRelease
  <1>2. ApprovedInv /\ [Next]_vars => ApprovedInv'
    <2> SUFFICES ASSUME ApprovedInv, [Next]_vars PROVE ApprovedInv'
      OBVIOUS
    <2>1. CASE UNCHANGED <<asg, versions>>
      BY <2>1 DEF ApprovedInv, Assigned, ActiveIsApproved
    <2>2. CASE Lifecycle
      <3>1. PICK a \in Assignments : 
              \/ \E r \in Releases : CreateAssignment(a, r) \/ PatchAssignment(a, r)
              \/ ValidateAssignment(a)
              \/ \E role \in Roles : Approve(a, role) \/ Reject(a, role)
              \/ Activate(a)
              \/ Pause(a)
              \/ Resume(a)
              \/ \E by \in Callers, v \in 1 .. Len(versions[a]) : Rollback(by, a, v)
        BY <2>2 DEF Lifecycle
      <3>2. CASE \E role \in Roles : Approve(a, role)
        BY <3>2, ApprovalKeepsInvariant
      <3>3. CASE ~ \E role \in Roles : Approve(a, role)
        <4>1. PICK row \in AssignmentRow :
                /\ versions' = versions
                /\ Honest(row, versions[a])
                /\ asg' = [asg EXCEPT ![a] = row]
          BY <3>1, <3>3, LifecycleWritesHonestRows
        <4> QED  BY <4>1, RowWritten
      <3> QED  BY <3>2, <3>3
    <2>3. CASE UNCHANGED vars
      BY <2>1, <2>3 DEF vars
    <2>4. CASE Use \/ Runtime
      BY <2>1, <2>4, UseKeepsAssignments
    <2> QED  BY <2>2, <2>3, <2>4 DEF Next
  <1> QED  BY <1>1, <1>2, PTL DEF Spec

-----------------------------------------------------------------------------
(* What an approved, active or paused assignment names is the release of its *)
(* current version: no order of edits, validations, approvals, rejections    *)
(* and rollbacks leaves it with a release nobody approved for it             *)
(* (model_assignment_service.py, approve_assignment to rollback_execute).    *)
THEOREM ApprovedWhileAssigned == Spec => []ActiveIsApproved
  BY ApprovedInvHolds, PTL DEF ApprovedInv

-----------------------------------------------------------------------------
(* The refinement: what AssignedReleases sees of an assignment.              *)

Front == [a \in Assignments |-> IF asg[a].status = "active" THEN asg[a].release
                                ELSE NoRelease]
Shelf == [a \in Assignments |-> {versions[a][v] : v \in 1 .. Len(versions[a])}]

LEMMA NothingServedAtFirst ==
    ASSUME Init PROVE Served!ServiceInit
  <1>1. \A a \in Assignments : Front[a] = NoRelease /\ Shelf[a] = {}
    BY DEF Init, Front, Shelf
  <1> QED  BY <1>1 DEF Served!ServiceInit, Front, Shelf

(* Writing one row and no version withdraws the assignment, when the row is   *)
(* not active, or makes it serve a release that was approved.                 *)
LEMMA RowWrittenServes ==
    ASSUME ApprovedInv, NEW a \in Assignments, NEW row \in AssignmentRow,
           Honest(row, versions[a]), asg' = [asg EXCEPT ![a] = row], versions' = versions
    PROVE  Served!ServiceNext
  <1>1. Shelf' = Shelf
    BY DEF Shelf
  <1>2. Front' = [Front EXCEPT ![a] = IF row.status = "active" THEN row.release
                                      ELSE NoRelease]
    BY DEF Front, ApprovedInv, Assigned
  <1>3. CASE row.status = "active"
    <2>1. row.version \in 1 .. Len(versions[a]) /\ row.release = versions[a][row.version]
      BY <1>3 DEF Honest, Held
    <2>2. row.release \in Shelf[a]
      BY <2>1 DEF Shelf
    <2>3. row.release \in Releases
      BY <2>1 DEF ApprovedInv, Assigned
    <2>4. Served!Serve(a, row.release)
      BY <1>1, <1>2, <1>3, <2>2 DEF Served!Serve, Front, Shelf
    <2> QED  BY <2>3, <2>4 DEF Served!ServiceNext
  <1>4. CASE row.status # "active"
    <2>1. Served!Withdraw(a)
      BY <1>1, <1>2, <1>4 DEF Served!Withdraw, Front, Shelf
    <2> QED  BY <2>1 DEF Served!ServiceNext
  <1> QED  BY <1>3, <1>4

(* An approval adds to what is approved, while the assignment does not serve. *)
LEMMA ApprovalWhileWithdrawn ==
    ASSUME ApprovedInv, NEW a \in Assignments, NEW r \in Releases,
           asg[a].status = "validating",
           versions' = [versions EXCEPT ![a] = Append(versions[a], r)],
           asg' = [asg EXCEPT ![a] = [status |-> "approved", release |-> r,
                                      version |-> Len(versions[a]) + 1]]
    PROVE  Served!ApproveRelease(a, r)
  <1>1. Front[a] = NoRelease
    BY DEF Front
  <1>2. ASSUME NEW b \in Assignments PROVE Front'[b] = Front[b]
    <2>1. CASE b = a
      BY <2>1 DEF Front, ApprovedInv, Assigned
    <2>2. CASE b # a
      BY <2>2 DEF Front, ApprovedInv, Assigned
    <2> QED  BY <2>1, <2>2
  <1>3. Front' = Front
    BY <1>2 DEF Front
  <1>4. {Append(versions[a], r)[v] : v \in 1 .. Len(Append(versions[a], r))}
          = Shelf[a] \cup {r}
    <2>1. versions[a] \in Seq(Releases)
      BY DEF ApprovedInv, Assigned
    <2> QED  BY <2>1, VersionAppended DEF Shelf
  <1>5. ASSUME NEW b \in Assignments
        PROVE  Shelf'[b] = [Shelf EXCEPT ![a] = Shelf[a] \cup {r}][b]
    <2>1. CASE b = a
      BY <1>4, <2>1 DEF Shelf, ApprovedInv, Assigned
    <2>2. CASE b # a
      BY <2>2 DEF Shelf, ApprovedInv, Assigned
    <2> QED  BY <2>1, <2>2
  <1>6. Shelf' = [Shelf EXCEPT ![a] = Shelf[a] \cup {r}]
    BY <1>5 DEF Shelf
  <1> QED  BY <1>1, <1>3, <1>6 DEF Served!ApproveRelease, Front, Shelf

LEMMA StepsServe ==
    ASSUME ApprovedInv, [Next]_vars PROVE [Served!ServiceNext]_(Served!serviceVars)
  <1>1. CASE UNCHANGED <<asg, versions>>
    BY <1>1 DEF Served!serviceVars
  <1>2. CASE Lifecycle
    <2>1. PICK a \in Assignments :
            \/ \E r \in Releases : CreateAssignment(a, r) \/ PatchAssignment(a, r)
            \/ ValidateAssignment(a)
            \/ \E role \in Roles : Approve(a, role) \/ Reject(a, role)
            \/ Activate(a)
            \/ Pause(a)
            \/ Resume(a)
            \/ \E by \in Callers, v \in 1 .. Len(versions[a]) : Rollback(by, a, v)
      BY <1>2 DEF Lifecycle
    <2>2. CASE \E role \in Roles : Approve(a, role)
      <3>1. PICK role \in Roles : Approve(a, role)
        BY <2>2
      <3>2. CASE ~ UNCHANGED <<asg, versions>>
        <4>1. PICK r \in Releases :
                /\ asg[a].status = "validating"
                /\ versions' = [versions EXCEPT ![a] = Append(versions[a], r)]
                /\ asg' = [asg EXCEPT ![a] = [status |-> "approved", release |-> r,
                                              version |-> Len(versions[a]) + 1]]
          BY <3>1, <3>2, ApprovalWritesBoth
        <4>2. Served!ApproveRelease(a, r)
          BY <4>1, ApprovalWhileWithdrawn
        <4>3. Served!ServiceNext
          BY <4>2 DEF Served!ServiceNext
        <4> QED  BY <4>3
      <3> QED  BY <1>1, <3>2
    <2>3. CASE ~ \E role \in Roles : Approve(a, role)
      <3>1. PICK row \in AssignmentRow :
              /\ versions' = versions
              /\ Honest(row, versions[a])
              /\ asg' = [asg EXCEPT ![a] = row]
        BY <2>1, <2>3, LifecycleWritesHonestRows
      <3> QED  BY <3>1, RowWrittenServes
    <2> QED  BY <2>2, <2>3
  <1>3. CASE UNCHANGED vars
    BY <1>1, <1>3 DEF vars
  <1>4. CASE Use \/ Runtime
    BY <1>1, <1>4, UseKeepsAssignments
  <1> QED  BY <1>2, <1>3, <1>4 DEF Next

(* The lifecycle of an assignment implements AssignedReleases: behind it is   *)
(* an approved release or none, and no release is approved for it while it    *)
(* serves, whoever calls what in whatever order                               *)
(* (model_assignment_service.py, create_assignment to rollback_execute).      *)
THEOREM ServesApproved == Spec => ServesOnlyApproved
  <1>1. Init => Served!ServiceInit
    BY NothingServedAtFirst
  <1>2. ApprovedInv /\ [Next]_vars => [Served!ServiceNext]_(Served!serviceVars)
    BY StepsServe
  <1> QED
    BY <1>1, <1>2, ApprovedInvHolds, PTL DEF Spec, ServesOnlyApproved, Served!ServiceSpec

-----------------------------------------------------------------------------
(* The whole state: what the operations on assignments write to the runtime. *)

SessionsHaveInstances ==
    \A s \in Sessions : session[s].status # "absent" =>
        /\ session[s].assignment \in Assignments
        /\ session[s].instance \in Ids
        /\ Exists(session[s].instance)

UseTyped ==
    /\ approval \in [Assignments -> [Roles -> Decision]]
    /\ session \in [Sessions -> SessionRow]
    /\ canary \in [Assignments -> CanaryRun]
    /\ answer \in Answer

(* Inductive: the types, and that a session's instance is never deleted. *)
ServingInv == ApprovedInv /\ TypedInv /\ UseTyped /\ SessionsHaveInstances

LEMMA EnsureLoadedWritesOne ==
    ASSUME MemoryTyped, NEW by, NEW p \in Profiles, NEW r \in MaybeRelease,
           EnsureLoaded(by, p, r)
    PROVE  \E row \in InstanceRow, m \in MaybeRelease :
             /\ Written(Target(p), row, m)
             /\ RowAllowed(Target(p), row)
             /\ inst'[Target(p)].status # "absent"
             /\ by = "server" /\ LoadedModelsAreRecorded => SlotRecorded(row, m)
  <1> DEFINE i == Target(p)
  <1>1. i \in Ids
    BY DEF EnsureLoaded, RoomForTarget
  <1>2. used' \in used .. MaxInstances /\ i <= used'
    BY <1>1, InstanceAssumption DEF EnsureLoaded, UsedWith, MemoryTyped, Ids
  <1> HIDE DEF i
  <1>3. CASE AlreadyLoaded(i, r) /\ UNCHANGED <<inst, slot>>
    <2>1. inst[i] \in InstanceRow /\ slot[i] \in MaybeRelease /\ Written(i, inst[i], slot[i])
      BY <1>1, <1>2, <1>3, RowsAreRecords DEF Written
    <2>2. inst'[i].status # "absent"
      BY <1>3 DEF AlreadyLoaded
    <2>3. LoadedModelsAreRecorded => SlotRecorded(inst[i], slot[i])
      BY <1>1 DEF LoadedModelsAreRecorded, SlotRecorded
    <2> QED  BY <2>1, <2>2, <2>3 DEF RowAllowed, i
  <1>4. CASE LoadInto(by, i, p, r)
    <2>1. PICK row \in InstanceRow, m \in MaybeRelease :
            /\ Written(i, row, m)
            /\ RowAllowed(i, row)
            /\ row.status # "absent"
            /\ by = "server" => SlotRecorded(row, m)
      BY <1>1, <1>2, <1>4, LoadWritesOne
    <2>2. inst'[i].status # "absent"
      BY <1>1, <2>1 DEF Written, MemoryTyped
    <2> QED  BY <2>1, <2>2 DEF i
  <1> QED  BY <1>3, <1>4 DEF EnsureLoaded, i

LEMMA RollbackWritesOne ==
    ASSUME MemoryTyped, ApprovedInv, NEW by \in Callers, NEW a \in Assignments,
           NEW v \in 1 .. Len(versions[a]), Rollback(by, a, v)
    PROVE  \E i \in Ids, row \in InstanceRow, m \in MaybeRelease :
             /\ Written(i, row, m)
             /\ RowAllowed(i, row)
             /\ by = "server" => SlotRecorded(row, m)
  <1> DEFINE p == ProfileOf[a]
             i == Target(p)
             failed == [status |-> "failed", profile |-> p, loaded |-> inst[i].loaded]
             m == IF by = "server" THEN NoRelease ELSE slot[i]
  <1>1. p \in Profiles /\ i \in Ids /\ used' = UsedWith(i)
    BY ScopeAssumption DEF Rollback, RoomForTarget
  <1>2. used' \in used .. MaxInstances /\ i <= used'
    BY <1>1, InstanceAssumption DEF UsedWith, MemoryTyped, Ids
  <1>3. versions[a][v] \in MaybeRelease
    BY DEF ApprovedInv, Assigned, MaybeRelease
  <1>4. \/ LoadInto(by, i, p, versions[a][v])
        \/ slot' = Put(by, i, NoRelease) /\ inst' = [inst EXCEPT ![i] = failed]
    BY DEF Rollback
  <1> HIDE DEF i, p
  <1>5. CASE LoadInto(by, i, p, versions[a][v])
    BY <1>1, <1>2, <1>3, <1>5, LoadWritesOne
  <1>6. CASE slot' = Put(by, i, NoRelease) /\ inst' = [inst EXCEPT ![i] = failed]
    <2>1. /\ inst[i].loaded \in MaybeRelease
          /\ slot[i] \in MaybeRelease
          /\ slot = [slot EXCEPT ![i] = slot[i]]
      BY <1>1, RowsAreRecords
    <2>2. failed \in InstanceRow /\ RowAllowed(i, failed)
      BY <1>1, <2>1 DEF InstanceRow, InstanceStatuses, RowAllowed
    <2>3. m \in MaybeRelease
      BY <2>1 DEF MaybeRelease
    <2>4. Written(i, failed, m)
      BY <1>1, <1>2, <1>6, <2>1 DEF Written, Put
    <2>5. by = "server" => SlotRecorded(failed, m)
      BY DEF SlotRecorded
    <2> HIDE DEF failed, m
    <2> QED  BY <1>1, <2>2, <2>3, <2>4, <2>5
  <1> QED  BY <1>4, <1>5, <1>6

(* Every step writes one row and one slot, or none, or is a step of the       *)
(* runtime; with no caller but the server, the two agree.                     *)
LEMMA StepsWriteOne ==
    ASSUME ServingInv, Next
    PROVE  \/ UNCHANGED <<inst, slot, used>>
           \/ RuntimeNext
           \/ \E i \in Ids, row \in InstanceRow, m \in MaybeRelease :
                /\ Written(i, row, m)
                /\ RowAllowed(i, row)
                /\ Callers \subseteq {"server"} /\ LoadedModelsAreRecorded
                      => SlotRecorded(row, m)
  <1>1. MemoryTyped /\ ApprovedInv
    BY DEF ServingInv, TypedInv
  <1>2. ASSUME NEW a \in Assignments
        PROVE  ProfileOf[a] \in Profiles /\ asg[a].release \in MaybeRelease
    BY <1>1, ScopeAssumption DEF ApprovedInv, Assigned, AssignmentRow
  <1>3. CASE \E by \in Callers \cup {"server"}, a \in Assignments :
               EnsureLoaded(by, ProfileOf[a], asg[a].release)
    <2>1. PICK by \in Callers \cup {"server"}, a \in Assignments :
            EnsureLoaded(by, ProfileOf[a], asg[a].release)
      BY <1>3
    <2>2. Target(ProfileOf[a]) \in Ids
      BY <2>1 DEF EnsureLoaded, RoomForTarget
    <2> QED  BY <1>1, <1>2, <2>1, <2>2, EnsureLoadedWritesOne
  <1>4. CASE \E s \in Sessions : PostMessage(s)
    <2>1. PICK s \in Sessions : PostMessage(s)
      BY <1>4
    <2> DEFINE i == session[s].instance
               r == asg[session[s].assignment].release
    <2>2. i \in Ids /\ Exists(i) /\ r \in MaybeRelease
      BY <1>2, <2>1 DEF PostMessage, ServingInv, SessionsHaveInstances
    <2>3. inst[i].profile \in Profiles /\ i \in 0 .. used /\ used \in used .. MaxInstances
      BY <1>1, <2>2, RowsAreRecords, InstanceAssumption DEF MemoryTyped
    <2>4. CASE UNCHANGED <<inst, slot>>
      BY <2>1, <2>4 DEF PostMessage
    <2>5. CASE LoadInto("server", i, inst[i].profile, r)
      <3>1. used' = used
        BY <2>1 DEF PostMessage
      <3>2. \E row \in InstanceRow, m \in MaybeRelease :
               Written(i, row, m) /\ RowAllowed(i, row) /\ SlotRecorded(row, m)
        BY <1>1, <2>2, <2>3, <2>5, <3>1, LoadWritesOne
      <3> QED  BY <2>2, <3>2
    <2> QED  BY <2>1, <2>4, <2>5 DEF PostMessage
  <1>5. CASE \E a \in Assignments : \E by \in Callers, v \in 1 .. Len(versions[a]) :
               Rollback(by, a, v)
    <2>1. PICK a \in Assignments : \E by \in Callers, v \in 1 .. Len(versions[a]) :
            Rollback(by, a, v)
      BY <1>5
    <2>2. PICK by \in Callers, v \in 1 .. Len(versions[a]) : Rollback(by, a, v)
      BY <2>1
    <2> QED  BY <1>1, <2>2, RollbackWritesOne
  <1>6. CASE Lifecycle
    BY <1>5, <1>6
       DEF Lifecycle, CreateAssignment, PatchAssignment, ValidateAssignment, Approve, Reject,
           Activate, Pause, Resume, OnlyAssignments, runtimeVars
  <1>7. CASE Use
    BY <1>3, <1>4, <1>7
       DEF Use, Ask, OpenSession, CloseSession, StartCanary, StopCanary, ExecuteCanary,
           runtimeVars
  <1> QED  BY <1>6, <1>7 DEF Next, Runtime

LEMMA MemoryKept ==
    ASSUME ServingInv, Next
    PROVE  /\ MemoryTyped'
           /\ \A k \in Ids : Exists(k) => Exists(k)'
           /\ Callers \subseteq {"server"} /\ ~ LateFailures /\ LoadedModelsAreRecorded
                => LoadedModelsAreRecorded'
  <1>1. MemoryTyped
    BY DEF ServingInv, TypedInv
  <1>2. CASE UNCHANGED <<inst, slot, used>>
    BY <1>1, <1>2 DEF MemoryTyped, LoadedModelsAreRecorded, Exists
  <1>3. CASE RuntimeNext
    BY <1>1, <1>3, RuntimeKeepsMemoryTyped, RuntimeKeepsRecords
  <1>4. CASE ~ RuntimeNext /\ ~ UNCHANGED <<inst, slot, used>>
    <2>1. PICK i \in Ids, row \in InstanceRow, m \in MaybeRelease :
            /\ Written(i, row, m)
            /\ RowAllowed(i, row)
            /\ Callers \subseteq {"server"} /\ LoadedModelsAreRecorded => SlotRecorded(row, m)
      BY <1>4, StepsWriteOne
    <2> QED  BY <1>1, <2>1, WrittenKeepsTypes, WrittenKeepsRecords
  <1> QED  BY <1>2, <1>3, <1>4

LEMMA RegistryKept ==
    ASSUME ServingInv, Next
    PROVE  registry' \in [Releases -> RegistryStatuses] /\ restarts' \in Nat
  <1>1. registry \in [Releases -> RegistryStatuses] /\ restarts \in Nat
    BY DEF ServingInv, TypedInv
  <1>2. CASE Runtime
    BY <1>1, <1>2, RegistryKeepsType DEF Runtime
  <1>3. CASE UNCHANGED <<registry, restarts>>
    BY <1>1, <1>3
  <1>4. CASE Lifecycle
    BY <1>3, <1>4
       DEF Lifecycle, CreateAssignment, PatchAssignment, ValidateAssignment, Approve, Reject,
           Activate, Pause, Resume, Rollback, OnlyAssignments, runtimeVars
  <1>5. CASE Use
    BY <1>3, <1>5
       DEF Use, Ask, OpenSession, PostMessage, CloseSession, StartCanary, StopCanary,
           ExecuteCanary, runtimeVars
  <1> QED  BY <1>2, <1>4, <1>5 DEF Next

LEMMA ApprovalsKept ==
    ASSUME ServingInv, Next
    PROVE  approval' \in [Assignments -> [Roles -> Decision]]
  <1>1. approval \in [Assignments -> [Roles -> Decision]]
    BY DEF ServingInv, UseTyped
  <1>2. ASSUME NEW a \in Assignments, NEW role \in Roles, Approve(a, role) \/ Reject(a, role)
        PROVE  approval' \in [Assignments -> [Roles -> Decision]]
    <2>1. PICK d \in {"approve", "reject"} :
            approval' = [approval EXCEPT ![a] = Decided(a, role, d)]
      BY <1>2 DEF Approve, Reject
    <2>2. asg[a].release \in MaybeRelease
      BY DEF ServingInv, ApprovedInv, Assigned, AssignmentRow
    <2>3. [decision |-> d, release |-> asg[a].release] \in Decision
      BY <2>2 DEF Decision
    <2>4. Decided(a, role, d) \in [Roles -> Decision]
      BY <1>1, <2>3 DEF Decided
    <2> QED  BY <1>1, <2>1, <2>4
  <1>3. CASE approval' = approval
    BY <1>1, <1>3
  <1>4. CASE Lifecycle
    BY <1>2, <1>3, <1>4
       DEF Lifecycle, CreateAssignment, PatchAssignment, ValidateAssignment,
           Activate, Pause, Resume, Rollback, OnlyAssignments
  <1>5. CASE Use \/ Runtime
    BY <1>3, <1>5
       DEF Use, Ask, OpenSession, PostMessage, CloseSession, StartCanary, StopCanary,
           ExecuteCanary, Runtime, assignmentVars
  <1> QED  BY <1>4, <1>5 DEF Next

LEMMA CanariesKept ==
    ASSUME ServingInv, Next
    PROVE  canary' \in [Assignments -> CanaryRun]
  <1>1. canary \in [Assignments -> CanaryRun]
    BY DEF ServingInv, UseTyped
  <1>2. CASE canary' = canary
    BY <1>1, <1>2
  <1>3. ASSUME NEW a \in Assignments, StartCanary(a) \/ StopCanary(a)
        PROVE  canary' \in [Assignments -> CanaryRun]
    BY <1>1, <1>3 DEF StartCanary, StopCanary, CanaryRun
  <1>4. ASSUME NEW a \in Assignments, NEW n \in 1 .. Prompts, NEW stop \in BOOLEAN,
               ExecuteCanary(a, n, stop)
        PROVE  canary' \in [Assignments -> CanaryRun]
    <2> DEFINE executed ==
                 canary[a].requests + (IF n < CanaryRemaining THEN n ELSE CanaryRemaining)
    <2>1. executed \in Nat
      BY <1>1, UseAssumption DEF CanaryRun, CanaryRemaining
    <2>2. CanaryStatusAfter(executed, stop) \in {"paused", "completed", "running"}
      BY DEF CanaryStatusAfter
    <2>3. canary' = [canary EXCEPT ![a] = [status   |-> CanaryStatusAfter(executed, stop),
                                           requests |-> executed]]
      BY <1>4 DEF ExecuteCanary
    <2> HIDE DEF executed
    <2> QED  BY <1>1, <2>1, <2>2, <2>3 DEF CanaryRun
  <1>5. CASE Use
    BY <1>2, <1>3, <1>4, <1>5
       DEF Use, Ask, OpenSession, PostMessage, CloseSession
  <1>6. CASE Lifecycle \/ Runtime
    BY <1>2, <1>6
       DEF Lifecycle, CreateAssignment, PatchAssignment, ValidateAssignment, Approve, Reject,
           Activate, Pause, Resume, Rollback, OnlyAssignments, Runtime, assignmentVars
  <1> QED  BY <1>5, <1>6 DEF Next

LEMMA SessionsKept ==
    ASSUME ServingInv, Next
    PROVE  session' \in [Sessions -> SessionRow] /\ SessionsHaveInstances'
  <1>1. /\ session \in [Sessions -> SessionRow]
        /\ SessionsHaveInstances
        /\ \A k \in Ids : Exists(k) => Exists(k)'
    BY MemoryKept DEF ServingInv, UseTyped
  <1>2. CASE session' = session
    BY <1>1, <1>2 DEF SessionsHaveInstances, Exists
  <1>3. ASSUME NEW s \in Sessions, NEW a \in Assignments, OpenSession(s, a)
        PROVE  session' \in [Sessions -> SessionRow] /\ SessionsHaveInstances'
    <2> DEFINE i == Target(ProfileOf[a])
               row == [status |-> "active", assignment |-> a, instance |-> i, turns |-> 0]
    <2>1. ProfileOf[a] \in Profiles /\ asg[a].release \in MaybeRelease /\ MemoryTyped
      BY ScopeAssumption
         DEF ServingInv, ApprovedInv, Assigned, AssignmentRow, TypedInv
    <2>2. i \in Ids /\ inst'[i].status # "absent"
      BY <1>3, <2>1, EnsureLoadedWritesOne DEF OpenSession, EnsureLoaded, RoomForTarget
    <2>3. session' = [session EXCEPT ![s] = row]
      BY <1>3 DEF OpenSession
    <2> HIDE DEF i
    <2>4. row \in SessionRow
      BY <2>2, UseAssumption DEF SessionRow
    <2>5. /\ row.assignment \in Assignments
          /\ row.instance \in Ids
          /\ inst'[row.instance].status # "absent"
      BY <2>2
    <2> HIDE DEF row
    <2>6. ASSUME NEW t \in Sessions, session'[t].status # "absent"
          PROVE  /\ session'[t].assignment \in Assignments
                 /\ session'[t].instance \in Ids
                 /\ inst'[session'[t].instance].status # "absent"
      <3>1. CASE t = s
        BY <1>1, <2>3, <2>5, <3>1
      <3>2. CASE t # s
        BY <1>1, <2>3, <2>6, <3>2 DEF SessionsHaveInstances, Exists
      <3> QED  BY <3>1, <3>2
    <2> QED  BY <1>1, <2>3, <2>4, <2>6 DEF SessionsHaveInstances, Exists
  <1>4. ASSUME NEW s \in Sessions, PostMessage(s) \/ CloseSession(s)
        PROVE  session' \in [Sessions -> SessionRow] /\ SessionsHaveInstances'
    <2>1. session[s].status # "absent" /\ session[s] \in SessionRow
      BY <1>1, <1>4 DEF PostMessage, CloseSession
    <2>2. PICK row \in SessionRow :
            /\ session' = [session EXCEPT ![s] = row]
            /\ row.assignment = session[s].assignment
            /\ row.instance = session[s].instance
      <3>1. CASE PostMessage(s)
        <4> DEFINE row == [session[s] EXCEPT !.turns = @ + 1]
        <4>1. session[s].turns \in 0 .. MaxTurns /\ session[s].turns < MaxTurns
          BY <2>1, <3>1 DEF PostMessage, SessionRow
        <4>2. session[s].turns + 1 \in 0 .. MaxTurns
          BY <4>1, UseAssumption
        <4>3. /\ row \in SessionRow
              /\ row.assignment = session[s].assignment
              /\ row.instance = session[s].instance
          BY <2>1, <4>2 DEF SessionRow
        <4>4. session' = [session EXCEPT ![s] = row]
          BY <1>1, <3>1 DEF PostMessage
        <4> QED  BY <4>3, <4>4
      <3>2. CASE CloseSession(s)
        <4> DEFINE row == [session[s] EXCEPT !.status = "closed"]
        <4>1. /\ row \in SessionRow
              /\ row.assignment = session[s].assignment
              /\ row.instance = session[s].instance
          BY <2>1 DEF SessionRow
        <4>2. session' = [session EXCEPT ![s] = row]
          BY <1>1, <3>2 DEF CloseSession
        <4> QED  BY <4>1, <4>2
      <3> QED  BY <1>4, <3>1, <3>2
    <2>3. session' \in [Sessions -> SessionRow]
      BY <1>1, <2>2
    <2>4. ASSUME NEW t \in Sessions, session'[t].status # "absent"
          PROVE  /\ session'[t].assignment \in Assignments
                 /\ session'[t].instance \in Ids
                 /\ inst'[session'[t].instance].status # "absent"
      <3>1. /\ session[t].status # "absent"
            /\ session'[t].assignment = session[t].assignment
            /\ session'[t].instance = session[t].instance
        BY <1>1, <2>1, <2>2, <2>4
      <3> QED  BY <1>1, <3>1 DEF SessionsHaveInstances, Exists
    <2> QED  BY <2>3, <2>4 DEF SessionsHaveInstances, Exists
  <1>5. CASE Use
    BY <1>2, <1>3, <1>4, <1>5 DEF Use, Ask, StartCanary, StopCanary, ExecuteCanary
  <1>6. CASE Lifecycle \/ Runtime
    BY <1>2, <1>6
       DEF Lifecycle, CreateAssignment, PatchAssignment, ValidateAssignment, Approve, Reject,
           Activate, Pause, Resume, Rollback, OnlyAssignments, Runtime, assignmentVars
  <1> QED  BY <1>5, <1>6 DEF Next

(* A text is generated by a model the request itself loaded, or by the one in *)
(* memory under a row that names the release.                                 *)
LEMMA AnswersKept ==
    ASSUME ServingInv, Next
    PROVE  /\ answer' \in Answer
           /\ LoadedModelsAreRecorded /\ AnswersComeFromTheAssignment
                => AnswersComeFromTheAssignment'
  <1>1. MemoryTyped /\ answer \in Answer
    BY DEF ServingInv, TypedInv, UseTyped
  <1>2. ASSUME NEW a \in Assignments PROVE asg[a].release \in MaybeRelease
    BY DEF ServingInv, ApprovedInv, Assigned, AssignmentRow
  <1>3. CASE answer' = answer
    BY <1>1, <1>3 DEF AnswersComeFromTheAssignment
  <1>4. ASSUME NEW a \in Assignments, NEW m \in MaybeRelease,
               answer' = [assignment |-> a, release |-> asg[a].release, model |-> m],
               LoadedModelsAreRecorded => m = asg[a].release
        PROVE  /\ answer' \in Answer
               /\ LoadedModelsAreRecorded => AnswersComeFromTheAssignment'
    BY <1>2, <1>4 DEF Answer, AnswersComeFromTheAssignment
  <1>5. ASSUME NEW by, NEW a \in Assignments, Target(ProfileOf[a]) \in Ids,
               Generated(by, a, Target(ProfileOf[a]))
        PROVE  /\ answer' \in Answer
               /\ LoadedModelsAreRecorded => AnswersComeFromTheAssignment'
    <2> DEFINE i == Target(ProfileOf[a])
               m == IF AlreadyLoaded(i, asg[a].release) THEN Holds(by, i) ELSE asg[a].release
    <2>1. m # NoRelease /\ answer' = [assignment |-> a, release |-> asg[a].release, model |-> m]
      BY <1>5 DEF Generated
    <2>2. m \in MaybeRelease
      BY <1>1, <1>2, <1>5 DEF Holds, MemoryTyped, MaybeRelease
    <2>3. LoadedModelsAreRecorded => m = asg[a].release
      BY <1>5, <2>1 DEF LoadedModelsAreRecorded, Holds, AlreadyLoaded
    <2> HIDE DEF m
    <2> QED  BY <1>4, <2>1, <2>2, <2>3
  <1>6. ASSUME NEW s \in Sessions, PostMessage(s)
        PROVE  /\ answer' \in Answer
               /\ LoadedModelsAreRecorded => AnswersComeFromTheAssignment'
    <2> DEFINE i == session[s].instance
               a == session[s].assignment
    <2>1. a \in Assignments /\ i \in Ids
      BY <1>6 DEF PostMessage, ServingInv, SessionsHaveInstances
    <2>2. CASE /\ inst[i].loaded = asg[a].release
               /\ slot[i] # NoRelease
               /\ answer' = [assignment |-> a, release |-> asg[a].release, model |-> slot[i]]
      <3>1. slot[i] \in MaybeRelease
        BY <1>1, <2>1 DEF MemoryTyped
      <3>2. LoadedModelsAreRecorded => slot[i] = asg[a].release
        BY <2>1, <2>2 DEF LoadedModelsAreRecorded
      <3> QED  BY <1>4, <2>1, <2>2, <3>1, <3>2
    <2>3. CASE answer' = [assignment |-> a, release |-> asg[a].release,
                          model |-> asg[a].release]
      BY <1>2, <1>4, <2>1, <2>3
    <2> QED  BY <1>6, <2>2, <2>3 DEF PostMessage
  <1>7. CASE Use
    <2>1. ASSUME NEW by, NEW a \in Assignments, Ask(by, a)
          PROVE  Target(ProfileOf[a]) \in Ids /\ Generated(by, a, Target(ProfileOf[a]))
      BY <2>1 DEF Ask, EnsureLoaded, RoomForTarget
    <2>2. ASSUME NEW a \in Assignments, NEW n, NEW stop, ExecuteCanary(a, n, stop)
          PROVE  /\ Target(ProfileOf[a]) \in Ids
                 /\ Generated("server", a, Target(ProfileOf[a])) \/ answer' = answer
      BY <2>2 DEF ExecuteCanary, EnsureLoaded, RoomForTarget
    <2> QED
      BY <1>3, <1>5, <1>6, <1>7, <2>1, <2>2
         DEF Use, OpenSession, CloseSession, StartCanary, StopCanary
  <1>8. CASE Lifecycle \/ Runtime
    BY <1>3, <1>8
       DEF Lifecycle, CreateAssignment, PatchAssignment, ValidateAssignment, Approve, Reject,
           Activate, Pause, Resume, Rollback, OnlyAssignments, Runtime, assignmentVars
  <1> QED  BY <1>7, <1>8 DEF Next

LEMMA ServingInvHolds == Spec => []ServingInv
  <1>1. Init => ServingInv
    <2> SUFFICES ASSUME Init PROVE ServingInv
      OBVIOUS
    <2>1. ApprovedInv
      BY DEF Init, ApprovedInv, Assigned, ActiveIsApproved, AssignmentRow,
             AssignmentStatuses, MaybeRelease
    <2>2. TypedInv
      BY RuntimeStartsTyped DEF Init, TypedInv, RuntimeTypeOK
    <2>3. UseTyped
      BY UseAssumption
         DEF Init, UseTyped, Decision, SessionRow, CanaryRun, Answer, MaybeRelease
    <2>4. SessionsHaveInstances
      BY DEF Init, SessionsHaveInstances
    <2> QED  BY <2>1, <2>2, <2>3, <2>4 DEF ServingInv
  <1>2. ServingInv /\ ApprovedInv' /\ [Next]_vars => ServingInv'
    <2> SUFFICES ASSUME ServingInv, ApprovedInv', [Next]_vars PROVE ServingInv'
      OBVIOUS
    <2>1. CASE Next
      <3>1. TypedInv'
        BY <2>1, MemoryKept, RegistryKept DEF TypedInv
      <3>2. UseTyped' /\ SessionsHaveInstances'
        BY <2>1, ApprovalsKept, SessionsKept, CanariesKept, AnswersKept DEF UseTyped
      <3> QED  BY <3>1, <3>2 DEF ServingInv
    <2>2. CASE UNCHANGED vars
      BY <2>2 DEF vars, ServingInv, TypedInv, MemoryTyped, UseTyped, SessionsHaveInstances,
                  Exists
    <2> QED  BY <2>1, <2>2
  <1> QED  BY <1>1, <1>2, ApprovedInvHolds, PTL DEF Spec

(* The rows of assignments, versions, approvals, sessions and canary runs     *)
(* keep their types, and so do the instances they share                       *)
(* (model_assignment_service.py, inference_runtime_service.py).               *)
THEOREM AssignmentsTyped == Spec => []TypeOK
  <1>1. ServingInv => TypeOK
    BY DEF ServingInv, ApprovedInv, Assigned, TypedInv, MemoryTyped, RuntimeTypeOK, UseTyped,
           TypeOK
  <1> QED  BY <1>1, ServingInvHolds, PTL

(* With the server alone, and where no request fails between its load and its *)
(* end, what is recorded as an assignment's answer was generated by the       *)
(* release the assignment named: the row that _ensure_loaded and post_message *)
(* trust tells the truth about the memory (model_assignment_service.py).      *)
THEOREM AnswersAreRight ==
    ASSUME Callers \subseteq {"server"}, LateFailures = FALSE
    PROVE  Spec => []AnswersComeFromTheAssignment
  <1> DEFINE Right == LoadedModelsAreRecorded /\ AnswersComeFromTheAssignment
  <1>1. Init => Right
    BY RuntimeStartsTyped DEF Init, AnswersComeFromTheAssignment
  <1>2. ServingInv /\ Right /\ [Next]_vars => Right'
    <2>1. CASE Next
      BY <2>1, MemoryKept, AnswersKept
    <2>2. CASE UNCHANGED vars
      BY <2>2 DEF vars, LoadedModelsAreRecorded, AnswersComeFromTheAssignment
    <2> QED  BY <2>1, <2>2
  <1> QED  BY <1>1, <1>2, ServingInvHolds, PTL DEF Spec

=============================================================================
