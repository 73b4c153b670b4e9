-------------------------- MODULE ModelAssignments --------------------------
(***************************************************************************)
(* Model assignments: which release answers in which scope, how it gets    *)
(* there (validate, approve, activate, patch, roll back), and what uses    *)
(* it: diagnostics and chat, chat-lab sessions, canary runs.               *)
(*                                                                         *)
(*   backend/services/model_assignment_service.py                          *)
(*   core_model/inference_runtime/assignment_policy.py   who is eligible   *)
(*   core_model/release/approval_policy.py               who has approved  *)
(*                                                                         *)
(* Composed with InferenceRuntime, whose instances the assignments share.  *)
(***************************************************************************)
EXTENDS InferenceRuntime, Sequences

CONSTANTS
    Assignments,  \* rows of inference_model_assignments
    NoAssignment,
    ScopeOf,      \* per assignment its scope, fixed when it is created
    ProfileOf,    \* per assignment its profile: no operation changes it
    Fit,          \* per scope the releases whose evaluation is good enough
    Roles,        \* roles admins approve in
    PublicRoles,  \* those public_chat requires
    Sessions,     \* rows of inference_sessions
    MaxTurns,     \* max_turns of a session
    CanaryMax,    \* max_request_count of a canary run
    Prompts,      \* how many fixture prompts one execution is given
    MaxVersions   \* bound: versions per assignment

Scopes == {"admin_diagnostic", "admin_chat_lab", "internal_canary", "public_chat"}

ASSUME NoAssignmentAssumption == NoAssignment \notin Assignments
ASSUME ScopeAssumption == /\ ScopeOf \in [Assignments -> Scopes]
                          /\ ProfileOf \in [Assignments -> Profiles]
                          /\ Fit \in [Scopes -> SUBSET Releases]
ASSUME RoleAssumption  == "release" \in Roles /\ PublicRoles \subseteq Roles
ASSUME UseAssumption   == /\ MaxTurns \in Nat \ {0}
                          /\ CanaryMax \in Nat \ {0}
                          /\ Prompts \in Nat \ {0}
                          /\ MaxVersions \in Nat

VARIABLES
    asg,      \* the assignments
    versions, \* per assignment the releases of its approved versions, in order
    approval, \* per assignment and role the latest decision, and on which release
    session,  \* the chat-lab sessions
    canary,   \* per assignment its latest canary run
    answer    \* the last text generated for an assignment, and by what

assignmentVars == <<asg, versions, approval, session, canary, answer>>
vars == <<registry, inst, slot, used, restarts,
          asg, versions, approval, session, canary, answer>>

(* rolled_back, expired and archived are in the CHECK and never written. *)
AssignmentStatuses ==
    {"absent", "draft", "validating", "approved", "active", "paused", "rejected"}

(* version is the position of current_version_public_id, 0 for NULL. *)
AssignmentRow == [status: AssignmentStatuses, release: MaybeRelease, version: Nat]

Decision == [decision: {"none", "approve", "reject"}, release: MaybeRelease]
SessionRow == [status: {"absent", "active", "closed"},
               assignment: Assignments \cup {NoAssignment},
               instance: Ids \cup {0}, turns: 0 .. MaxTurns]

(* requests counts the results attached to the running row. *)
CanaryRun == [status: {"none", "running", "paused", "completed", "stopped"},
              requests: Nat]

(* release is the one the assignment named, model the one that generated. *)
Answer == [assignment: Assignments \cup {NoAssignment},
           release: MaybeRelease, model: MaybeRelease]

TypeOK ==
    /\ RuntimeTypeOK
    /\ asg \in [Assignments -> AssignmentRow]
    /\ versions \in [Assignments -> Seq(Releases)]
    /\ approval \in [Assignments -> [Roles -> Decision]]
    /\ session \in [Sessions -> SessionRow]
    /\ canary \in [Assignments -> CanaryRun]
    /\ answer \in Answer

Init ==
    /\ RuntimeInit
    /\ asg = [a \in Assignments |->
                [status |-> "absent", release |-> NoRelease, version |-> 0]]
    /\ versions = [a \in Assignments |-> << >>]
    /\ approval = [a \in Assignments |-> [role \in Roles |->
                     [decision |-> "none", release |-> NoRelease]]]
    /\ session = [s \in Sessions |->
                    [status |-> "absent", assignment |-> NoAssignment,
                     instance |-> 0, turns |-> 0]]
    /\ canary = [a \in Assignments |-> [status |-> "none", requests |-> 0]]
    /\ answer = [assignment |-> NoAssignment, release |-> NoRelease, model |-> NoRelease]

-----------------------------------------------------------------------------
(* The lifecycle.                                                           *)

OnlyAssignments == UNCHANGED <<runtimeVars, versions, approval, session, canary, answer>>

CreateAssignment(a, r) ==
    /\ asg[a].status = "absent"
    /\ asg' = [asg EXCEPT ![a] = [status |-> "draft", release |-> r, version |-> 0]]
    /\ OnlyAssignments

(* Mutant: editing an active assignment leaves it active. *)
PatchInPlace(a, r) ==
    /\ asg[a].status \in {"draft", "active", "paused"}
    /\ asg' = [asg EXCEPT ![a].release = r]
    /\ OnlyAssignments

PatchAssignment(a, r) ==
    /\ asg[a].status \in {"draft", "active", "paused"}
    /\ asg' = [asg EXCEPT ![a] = [status |-> "draft", release |-> r, version |-> @.version]]
    /\ OnlyAssignments

Eligible(a) ==
    /\ registry[asg[a].release] = "released"
    /\ asg[a].release \in Fit[ScopeOf[a]]

ValidateAssignment(a) ==
    /\ asg[a].status \in {"draft", "rejected"}
    /\ asg' = [asg EXCEPT ![a].status = IF Eligible(a) THEN "validating" ELSE "rejected"]
    /\ OnlyAssignments

RequiredRoles(a) == IF ScopeOf[a] = "public_chat" THEN PublicRoles ELSE {"release"}

(* Only the latest decision of each role counts, on whatever release it was. *)
PolicySatisfied(a, decided) ==
    /\ \A role \in RequiredRoles(a) : decided[role].decision # "none"
    /\ \A role \in Roles : decided[role].decision # "reject"

Decided(a, role, decision) ==
    [approval[a] EXCEPT ![role] = [decision |-> decision, release |-> asg[a].release]]

Approve(a, role) ==
    /\ asg[a].status = "validating"
    /\ Eligible(a)
    /\ approval' = [approval EXCEPT ![a] = Decided(a, role, "approve")]
    /\ IF PolicySatisfied(a, Decided(a, role, "approve"))
       THEN /\ Len(versions[a]) < MaxVersions
            /\ versions' = [versions EXCEPT ![a] = Append(@, asg[a].release)]
            /\ asg' = [asg EXCEPT ![a] = [status |-> "approved", release |-> @.release,
                                          version |-> Len(versions[a]) + 1]]
       ELSE UNCHANGED <<asg, versions>>
    /\ UNCHANGED <<runtimeVars, session, canary, answer>>

Reject(a, role) ==
    /\ asg[a].status = "validating"
    /\ approval' = [approval EXCEPT ![a] = Decided(a, role, "reject")]
    /\ asg' = [asg EXCEPT ![a].status = "rejected"]
    /\ UNCHANGED <<runtimeVars, versions, session, canary, answer>>

(* Of the gate's conditions, those a state of this model tells apart.         *)
PublicGate(a) ==
    /\ Eligible(a)
    /\ canary[a].status = "completed"
    /\ versions[a] # << >>
    /\ PolicySatisfied(a, approval[a])

Activate(a) ==
    /\ asg[a].status \in {"approved", "paused"}
    /\ ScopeOf[a] = "public_chat" => PublicGate(a)
    /\ asg' = [asg EXCEPT ![a].status = "active"]
    /\ OnlyAssignments

Pause(a) ==
    /\ asg[a].status = "active"
    /\ asg' = [asg EXCEPT ![a].status = "paused"]
    /\ OnlyAssignments

Resume(a) ==
    /\ asg[a].status = "paused"
    /\ asg' = [asg EXCEPT ![a].status = "active"]
    /\ OnlyAssignments

(* Mutant: rollback moves the version and forgets the release. *)
RestoreVersionOnly(a, v, status) ==
    asg' = [asg EXCEPT ![a] = [@ EXCEPT !.status = status, !.version = v]]

Restore(a, v, status) ==
    asg' = [asg EXCEPT ![a] = [status |-> status, release |-> versions[a][v],
                               version |-> v]]

(* The load is not skipped when the row says it is done, and a rejected load  *)
(* is caught here: the failed row stays, and the assignment is paused.        *)
Rollback(by, a, v) ==
    LET p == ProfileOf[a]
        i == Target(p)
    IN
    /\ asg[a].status # "absent"
    /\ registry[versions[a][v]] # "withdrawn"
    /\ RoomForTarget(p)
    /\ used' = UsedWith(i)
    /\ \/ LoadInto(by, i, p, versions[a][v]) /\ Restore(a, v, "active")
       \/ /\ slot' = Put(by, i, NoRelease)
          /\ inst' = [inst EXCEPT ![i] = [status |-> "failed", profile |-> p,
                                          loaded |-> @.loaded]]
          /\ Restore(a, v, "paused")
    /\ UNCHANGED <<registry, restarts, versions, approval, session, canary, answer>>

-----------------------------------------------------------------------------
(* Using the assignment.                                                    *)

(* What generates: the slot as the load of this same request left it. *)
Generated(by, a, i) ==
    LET m == IF AlreadyLoaded(i, asg[a].release) THEN Holds(by, i) ELSE asg[a].release
    IN  /\ m # NoRelease
        /\ answer' = [assignment |-> a, release |-> asg[a].release, model |-> m]

(* diagnostic_generate, and chat and RAG through ensure_instance_loaded. *)
Ask(by, a) ==
    /\ asg[a].status = "active"
    /\ ScopeOf[a] = "admin_diagnostic" \/ (ScopeOf[a] = "public_chat" /\ by = "server")
    /\ EnsureLoaded(by, ProfileOf[a], asg[a].release)
    /\ Generated(by, a, Target(ProfileOf[a]))
    /\ UNCHANGED <<registry, restarts, asg, versions, approval, session, canary>>

OpenSession(s, a) ==
    /\ session[s].status = "absent"
    /\ ScopeOf[a] = "admin_chat_lab"
    /\ asg[a].status = "active"
    /\ EnsureLoaded("server", ProfileOf[a], asg[a].release)
    /\ session' = [session EXCEPT ![s] = [status |-> "active", assignment |-> a,
                     instance |-> Target(ProfileOf[a]), turns |-> 0]]
    /\ UNCHANGED <<registry, restarts, asg, versions, approval, canary, answer>>

(* Mutant: the session trusts the model that was loaded when it was opened. *)
PostWithoutLoad(s) ==
    LET a == session[s].assignment
        i == session[s].instance
    IN
    /\ session[s].status = "active"
    /\ session[s].turns < MaxTurns
    /\ slot[i] # NoRelease
    /\ answer' = [assignment |-> a, release |-> asg[a].release, model |-> slot[i]]
    /\ session' = [session EXCEPT ![s].turns = @ + 1]
    /\ UNCHANGED <<runtimeVars, asg, versions, approval, canary>>

(* A message looks at the session's own instance, at the release the row      *)
(* names and not at its status, and not at the status of the assignment.  A   *)
(* session that is out of turns is refused: the expired status it writes is   *)
(* undone by the refusal.                                                     *)
PostMessage(s) ==
    LET a == session[s].assignment
        i == session[s].instance
        r == asg[a].release
    IN
    /\ session[s].status = "active"
    /\ session[s].turns < MaxTurns
    /\ \/ /\ inst[i].loaded = r
          /\ slot[i] # NoRelease
          /\ answer' = [assignment |-> a, release |-> r, model |-> slot[i]]
          /\ UNCHANGED <<inst, slot>>
       \/ /\ inst[i].loaded # r
          /\ LoadInto("server", i, inst[i].profile, r)
          /\ answer' = [assignment |-> a, release |-> r, model |-> r]
    /\ session' = [session EXCEPT ![s].turns = @ + 1]
    /\ UNCHANGED <<registry, used, restarts, asg, versions, approval, canary>>

CloseSession(s) ==
    /\ session[s].status # "absent"
    /\ session' = [session EXCEPT ![s].status = "closed"]
    /\ UNCHANGED <<runtimeVars, asg, versions, approval, canary, answer>>

StartCanary(a) ==
    /\ ScopeOf[a] = "internal_canary"
    /\ asg[a].status = "active"
    /\ canary' = [canary EXCEPT ![a] = [status |-> "running", requests |-> 0]]
    /\ UNCHANGED <<runtimeVars, asg, versions, approval, session, answer>>

CanaryStatusAfter(executed, stop) ==
    IF stop THEN "paused" ELSE IF executed >= CanaryMax THEN "completed" ELSE "running"

(* The running row is never updated, so what remains is always the maximum.   *)
CanaryRemaining == CanaryMax

(* stop: a rate is over its threshold.  Prompts are routed to the model or to *)
(* the fallback by a hash of the run and the prompt's position.               *)
ExecuteCanary(a, n, stop) ==
    LET executed == canary[a].requests + (IF n < CanaryRemaining THEN n ELSE CanaryRemaining)
    IN
    /\ canary[a].status = "running"
    /\ EnsureLoaded("server", ProfileOf[a], asg[a].release)
    /\ Generated("server", a, Target(ProfileOf[a])) \/ UNCHANGED answer
    /\ canary' = [canary EXCEPT ![a] = [status   |-> CanaryStatusAfter(executed, stop),
                                        requests |-> executed]]
    /\ UNCHANGED <<registry, restarts, asg, versions, approval, session>>

StopCanary(a) ==
    /\ canary[a].status # "none"
    /\ canary' = [canary EXCEPT ![a].status = "stopped"]
    /\ UNCHANGED <<runtimeVars, asg, versions, approval, session, answer>>

-----------------------------------------------------------------------------
Lifecycle ==
    \E a \in Assignments :
      \/ \E r \in Releases : CreateAssignment(a, r) \/ PatchAssignment(a, r)
      \/ ValidateAssignment(a)
      \/ \E role \in Roles : Approve(a, role) \/ Reject(a, role)
      \/ Activate(a)
      \/ Pause(a)
      \/ Resume(a)
      \/ \E by \in Callers, v \in 1 .. Len(versions[a]) : Rollback(by, a, v)

Use ==
    \/ \E by \in Callers, a \in Assignments : Ask(by, a)
    \/ \E s \in Sessions, a \in Assignments : OpenSession(s, a)
    \/ \E s \in Sessions : PostMessage(s) \/ CloseSession(s)
    \/ \E a \in Assignments : StartCanary(a) \/ StopCanary(a)
    \/ \E a \in Assignments, n \in 1 .. Prompts, stop \in BOOLEAN : ExecuteCanary(a, n, stop)

Runtime == RuntimeNext /\ UNCHANGED assignmentVars

Next == Lifecycle \/ Use \/ Runtime

Spec == Init /\ [][Next]_vars

-----------------------------------------------------------------------------
(* What the component promises.                                             *)

(* Whatever was edited, rejected, approved again or rolled back, an           *)
(* assignment that is approved, active or paused names the release of its     *)
(* current version, which was validated and approved.                         *)
ActiveIsApproved ==
    \A a \in Assignments : asg[a].status \in {"approved", "active", "paused"} =>
        /\ asg[a].version \in 1 .. Len(versions[a])
        /\ asg[a].release = versions[a][asg[a].version]

(* What is recorded as the answer of an assignment was generated by the       *)
(* release the assignment named at that moment.                               *)
AnswersComeFromTheAssignment == answer.model = answer.release

(* An assignment serves a release only after it was approved for it, and      *)
(* nothing is approved for it while it serves (AssignedReleases).             *)
Served == INSTANCE AssignedReleases WITH
    serving  <- [a \in Assignments |-> IF asg[a].status = "active" THEN asg[a].release
                                       ELSE NoRelease],
    approved <- [a \in Assignments |-> {versions[a][v] : v \in 1 .. Len(versions[a])}]

ServesOnlyApproved == Served!ServiceSpec

-----------------------------------------------------------------------------
(* What the documents say and the code does not do.                           *)

(* docs/admin_chat_lab.md: a session makes "no bypass of the                  *)
(* release-eligibility checks that were already satisfied when the assignment *)
(* was approved": nothing is answered by a release never approved for it.     *)
ServedReleasesAreApproved ==
    answer.assignment \in Assignments =>
        \E v \in 1 .. Len(versions[answer.assignment]) :
            versions[answer.assignment][v] = answer.release

(* docs/inference_runtime_architecture.md: "A public activation must pass a   *)
(* separate explicit gate every time."                                        *)
PublicActivationsPassTheGate ==
    [][\A a \in Assignments :
         /\ ScopeOf[a] = "public_chat"
         /\ asg[a].status # "active"
         /\ asg'[a].status = "active"
         => PublicGate(a)]_vars

(* approval_policy.py: "approvals become stale the moment the underlying      *)
(* eligibility/manifest evidence changes" - a version is approved by every    *)
(* required role on the release it is made of.                                *)
VersionsAreFreshlyApproved ==
    [][\A a \in Assignments : Len(versions'[a]) > Len(versions[a]) =>
         \A role \in RequiredRoles(a) : approval'[a][role].release = asg[a].release]_vars

(* docs/inference_canary.md: a terminal row is appended "once the configured  *)
(* max_request_count is reached" - no run executes more requests than that.   *)
CanariesKeepTheirBudget == \A a \in Assignments : canary[a].requests <= CanaryMax

=============================================================================
