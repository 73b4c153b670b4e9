---------------------------- MODULE RagPromotion ----------------------------
(***************************************************************************)
(* Content of the RAG sandbox on its way to public chat: a promotion       *)
(* request, its approvals, the release candidates built for it, their      *)
(* activation and rollback, and what public chat then retrieves from.      *)
(*                                                                         *)
(*   backend/services/production_rag_*_service.py                          *)
(*   backend/services/public_rag_scope_resolver.py                         *)
(*   backend/services/rag_retrieval_service.py (profiles)                  *)
(*   backend/database/repositories/production_readiness.py                 *)
(*                                                                         *)
(* Building, activating and rolling back are chains of transactions that   *)
(* nothing of the server interleaves with, but that a crash may cut.  An   *)
(* operation is one action whose disjuncts say how far it came.            *)
(***************************************************************************)
EXTENDS Naturals, Sequences, FiniteSets

CONSTANTS
    Spaces,        \* knowledge spaces
    HandMade,      \* those where an admin made a profile by hand: it goes by the space's name
    Requests,      \* rows of production_rag_promotion_requests
    SpaceOf,       \* the space a request names
    NoRequest,     \* the request of a candidate that does not exist
    NoProfile,     \* no profile was active
    MaxCandidates, \* bound: candidates built
    MaxApprovals   \* bound: approvals asked for, of each request

Candidates == 1 .. MaxCandidates  \* row ids: a later candidate has a greater one
Profiles   == Candidates \cup HandMade \* a candidate has a profile of its own

ASSUME SpacesAssumption  ==
    SpaceOf \in [Requests -> Spaces] /\ Spaces \cap Nat = {} /\ HandMade \subseteq Spaces
ASSUME NothingAssumption == NoRequest \notin Requests /\ NoProfile \notin Spaces \cup Nat
ASSUME BoundsAssumption  == MaxCandidates \in Nat /\ MaxApprovals \in [Requests -> Nat]

VARIABLES
    request,   \* the status of each request
    approvals, \* its approvals, oldest first
    candidate, \* rows of production_rag_release_candidates
    profile,   \* the status of each retrieval profile
    orderly    \* history: no chain was cut and nothing was done out of turn so far

vars == <<request, approvals, candidate, profile, orderly>>

(* linked: its profile is entered.  snapshot: the previous profile in its  *)
(* latest pre_activation_snapshot.  production_visible is 1 exactly while  *)
(* the status is 'activated': both are written together.                   *)
Candidate == [request: Requests \cup {NoRequest}, linked: BOOLEAN,
              snapshot: Profiles \cup {NoProfile},
              status: {"absent", "building", "built", "validating", "validated",
                       "validation_failed", "activated", "superseded", "failed"}]

TypeOK ==
    /\ request \in [Requests -> {"absent", "draft", "awaiting_review", "approved",
                      "building_candidate", "candidate_ready", "validation_failed",
                      "ready_for_activation"}]
    /\ approvals \in [Requests -> Seq({"pending", "approved", "lapsed", "expired"})]
    /\ candidate \in [Candidates -> Candidate]
    /\ profile \in [Profiles -> {"absent", "draft", "validated", "active", "archived"}]
    /\ orderly \in BOOLEAN

Init ==
    /\ request = [r \in Requests |-> "absent"]
    /\ approvals = [r \in Requests |-> <<>>]
    /\ candidate = [c \in Candidates |-> [request |-> NoRequest, linked |-> FALSE,
                      snapshot |-> NoProfile, status |-> "absent"]]
    /\ profile = [p \in Profiles |-> "absent"]
    /\ orderly = TRUE

-----------------------------------------------------------------------------
InSpace(p, s) == p = s \/ (p \in Candidates /\ candidate[p].status # "absent"
                           /\ SpaceOf[candidate[p].request] = s)
Space(c)  == SpaceOf[candidate[c].request]
Active(s) == {p \in Profiles : InSpace(p, s) /\ profile[p] = "active"}
Live      == {c \in Candidates : candidate[c].status = "activated"}

(* resolve: the newest activated candidate, over all spaces, if its        *)
(* profile is active.                                                      *)
Served == {c \in Live : profile[c] = "active" /\ \A d \in Live : d <= c}

Given(r) == {i \in DOMAIN approvals[r] : approvals[r][i] # "pending"}
Latest(r) == approvals[r][Len(approvals[r])]

-----------------------------------------------------------------------------
(* The request and its approvals. *)

(* The sandbox experiment was eligible: that is looked at here only. *)
CreateRequest(r) ==
    /\ request[r] = "absent"
    /\ request' = [request EXCEPT ![r] = "draft"]
    /\ UNCHANGED <<approvals, candidate, profile, orderly>>

SubmitForReview(r) ==
    /\ request[r] = "draft"
    /\ request' = [request EXCEPT ![r] = "awaiting_review"]
    /\ UNCHANGED <<approvals, candidate, profile, orderly>>

RequestApproval(r) ==
    /\ request[r] \in {"draft", "awaiting_review"}
    /\ Len(approvals[r]) < MaxApprovals[r]
    /\ approvals' = [approvals EXCEPT ![r] = Append(@, "pending")]
    /\ UNCHANGED <<request, candidate, profile, orderly>>

(* Whatever has become of the request since: it is approved again. *)
Approve(r, i) ==
    /\ approvals[r][i] = "pending"
    /\ approvals' = [approvals EXCEPT ![r][i] = "approved"]
    /\ request' \in {request, [request EXCEPT ![r] = "approved"]}
    /\ UNCHANGED <<candidate, profile, orderly>>

ApprovalLapses(r, i) ==
    /\ approvals[r][i] = "approved"
    /\ approvals' = [approvals EXCEPT ![r][i] = "lapsed"]
    /\ UNCHANGED <<request, candidate, profile, orderly>>

-----------------------------------------------------------------------------
(* Building and validating a candidate. *)

Next1(c) == candidate[c].status = "absent" /\ \A d \in 1 .. c - 1 : candidate[d].status # "absent"

Built(r, c, linked, status) ==
    candidate' = [candidate EXCEPT ![c] =
                    [request |-> r, linked |-> linked, snapshot |-> NoProfile, status |-> status]]

(* Mutant: building leaves the request as it is. *)
BuildKeepingApproval(r, c) ==
    /\ request[r] = "approved"
    /\ Next1(c)
    /\ Built(r, c, TRUE, "built")
    /\ profile' = [profile EXCEPT ![c] = "validated"]
    /\ UNCHANGED <<request, approvals, orderly>>

(* The row, the request's status, the ingestion chain that ends with the   *)
(* profile, the row again, the link, the request again.                    *)
BuildCandidate(r, c) ==
    /\ request[r] = "approved"
    /\ Next1(c)
    /\ \/ /\ Built(r, c, FALSE, "building")
          /\ request' \in {request, [request EXCEPT ![r] = "building_candidate"]}
          /\ \/ UNCHANGED profile
             \/ /\ request' # request
                /\ \E s \in {"draft", "validated"} : profile' = [profile EXCEPT ![c] = s]
       \/ /\ Built(r, c, FALSE, "failed")
          /\ \E s \in {"building_candidate", "validation_failed"} :
                request' = [request EXCEPT ![r] = s]
          /\ profile' \in {profile, [profile EXCEPT ![c] = "draft"]}
       \/ /\ \E linked \in BOOLEAN : Built(r, c, linked, "built")
          /\ \E s \in {"building_candidate", "candidate_ready"} :
                /\ s = "candidate_ready" => candidate'[c].linked
                /\ request' = [request EXCEPT ![r] = s]
          /\ profile' = [profile EXCEPT ![c] = "validated"]
    /\ UNCHANGED <<approvals, orderly>>

RunValidation(c) ==
    /\ candidate[c].status = "built"
    /\ candidate[c].linked
    /\ \E s \in {"validating", IF profile[c] = "validated" THEN "validated"
                               ELSE "validation_failed"} :
          candidate' = [candidate EXCEPT ![c].status = s]
    /\ UNCHANGED <<request, approvals, profile, orderly>>

-----------------------------------------------------------------------------
(* Activation. *)

(* An approval found to have lapsed is marked, and the activation refused. *)
RefuseLapsed(c) ==
    /\ candidate[c].status = "validated"
    /\ LET r == candidate[c].request IN
          /\ approvals[r] # <<>>
          /\ Latest(r) = "lapsed"
          /\ approvals' = [approvals EXCEPT ![r][Len(approvals[r])] = "expired"]
    /\ UNCHANGED <<request, candidate, profile, orderly>>

MayActivate(c) ==
    /\ candidate[c].status = "validated"
    /\ approvals[candidate[c].request] # <<>>
    /\ Latest(candidate[c].request) = "approved"

(* Any one profile active in the space. *)
Previous(c) == IF Active(Space(c)) = {} THEN {NoProfile} ELSE Active(Space(c))

Archived(prev) == [p \in Profiles |-> IF p = prev THEN "archived" ELSE profile[p]]

Recorded(c, prev, status) ==
    candidate' = [candidate EXCEPT ![c].snapshot = prev, ![c].status = status]

(* Cut after the snapshot, after activate_profile, or after the previous   *)
(* profile was archived.                                                   *)
ActivateDies(c, prev) ==
    /\ Recorded(c, prev, "validated")
    /\ \/ UNCHANGED profile
       \/ /\ profile[c] = "validated"
          /\ \/ profile' = [profile EXCEPT ![c] = "active"]
             \/ profile' = [Archived(prev) EXCEPT ![c] = "active"]
    /\ orderly' = (orderly /\ profile' = profile)
    /\ UNCHANGED request

(* Mutant: the previous profile is archived first, and stays so when a check fails. *)
ActivateFailsLate(c, prev) ==
    /\ Recorded(c, prev, "failed")
    /\ profile' = [Archived(prev) EXCEPT ![c] = "validated"]
    /\ UNCHANGED <<request, orderly>>

(* activate_profile raises when the profile is not validated, a smoke      *)
(* check may raise: the profile goes back and the candidate fails.         *)
ActivateFails(c, prev) ==
    /\ Recorded(c, prev, "failed")
    /\ profile' = [profile EXCEPT ![c] = "validated"]
    /\ UNCHANGED <<request, orderly>>

(* Cut in the same place: the profile has gone back, the candidate has not *)
(* failed.                                                                 *)
ActivateFailsHalf(c, prev) ==
    /\ Recorded(c, prev, "validated")
    /\ profile' = [profile EXCEPT ![c] = "validated"]
    /\ UNCHANGED <<request, orderly>>

(* Out of turn: a newer candidate of the space is activated already. *)
InTurn(c) == \A d \in Live : Space(d) = Space(c) => d < c

(* Mutant: the previous profile is not archived. *)
ActivateBeside(c, prev) ==
    /\ profile[c] = "validated"
    /\ Recorded(c, prev, "activated")
    /\ profile' = [profile EXCEPT ![c] = "active"]
    /\ request' \in {request, [request EXCEPT ![candidate[c].request] = "ready_for_activation"]}
    /\ orderly' = (orderly /\ InTurn(c))

ActivateCompletes(c, prev) ==
    /\ profile[c] = "validated"
    /\ Recorded(c, prev, "activated")
    /\ profile' = [Archived(prev) EXCEPT ![c] = "active"]
    /\ request' \in {request, [request EXCEPT ![candidate[c].request] = "ready_for_activation"]}
    /\ orderly' = (orderly /\ InTurn(c))

Activate(c) ==
    /\ MayActivate(c)
    /\ \E prev \in Previous(c) :
          \/ ActivateDies(c, prev) \/ ActivateFails(c, prev) \/ ActivateFailsHalf(c, prev)
          \/ ActivateCompletes(c, prev)
    /\ UNCHANGED approvals

(* Mutant: the candidate keeps its status. *)
RollbackQuietly(c) ==
    /\ candidate[c].snapshot # NoProfile
    /\ profile' = [profile EXCEPT ![c] = "archived", ![candidate[c].snapshot] = "active"]
    /\ orderly' = (orderly /\ c \in Live
                   /\ \A d \in Live : Space(d) = Space(c) => d <= c)
    /\ UNCHANGED <<request, approvals, candidate>>

-----------------------------------------------------------------------------
(* Rollback to the snapshotted profile: both profiles in one transaction,  *)
(* then the candidate.  It looks at nobody's status.                       *)
Rollback(c) ==
    /\ candidate[c].snapshot # NoProfile
    /\ profile' = [profile EXCEPT ![c] = "archived", ![candidate[c].snapshot] = "active"]
    /\ \/ /\ candidate' = [candidate EXCEPT ![c].status = "superseded"]
          /\ orderly' = (orderly /\ c \in Live
                         /\ \A d \in Live : Space(d) = Space(c) => d <= c)
       \/ UNCHANGED candidate /\ orderly' = FALSE
    /\ UNCHANGED <<request, approvals>>

-----------------------------------------------------------------------------
(* The RAG admin routes and tools work on any profile.  In turn: a profile *)
(* made by hand, in a space that has no active one.                        *)

Made(p) == p \in HandMade \/ profile[p] # "absent"

ValidateProfile(p) ==
    /\ Made(p)
    /\ profile' = [profile EXCEPT ![p] = "validated"]
    /\ orderly' = (orderly /\ profile[p] # "active")
    /\ UNCHANGED <<request, approvals, candidate>>

ActivateProfile(p) ==
    /\ profile[p] = "validated"
    /\ profile' = [profile EXCEPT ![p] = "active"]
    /\ orderly' = (orderly /\ p \in HandMade /\ Active(p) = {})
    /\ UNCHANGED <<request, approvals, candidate>>

Next ==
    \/ \E r \in Requests :
          \/ CreateRequest(r) \/ SubmitForReview(r) \/ RequestApproval(r)
          \/ \E i \in DOMAIN approvals[r] : Approve(r, i) \/ ApprovalLapses(r, i)
          \/ \E c \in Candidates : BuildCandidate(r, c)
    \/ \E c \in Candidates :
          RunValidation(c) \/ RefuseLapsed(c) \/ Activate(c) \/ Rollback(c)
    \/ \E p \in Profiles : ValidateProfile(p) \/ ActivateProfile(p)

Spec == Init /\ [][Next]_vars

-----------------------------------------------------------------------------
(* While everything is done in turn, a space has at most one active        *)
(* profile, whatever fails on the way.                                     *)
OneActivePerSpace ==
    orderly => \A s \in Spaces : \A p, q \in Active(s) : p = q

(* And public chat is never left without content: it retrieves from the    *)
(* newest candidate that is activated, also after rollbacks.               *)
NewestIsServed ==
    orderly => \A c \in Live : (\A d \in Live : d <= c) => c \in Served

(* Every approval is good for one build: the candidates that were built or *)
(* failed are no more than the approvals given, though a request goes back *)
(* to 'approved' with each of them and builds may die.                     *)
OneBuildPerApproval ==
    \A r \in Requests :
        Cardinality({c \in Candidates : /\ candidate[c].request = r
                                        /\ candidate[c].status # "building"})
           <= Cardinality(Given(r))

(* An activation that fails changes nothing for public chat, not even when *)
(* it repeats one that was cut.                                            *)
FailureChangesNothing ==
    [][(\E c \in Candidates : /\ candidate[c].status = "validated"
                              /\ candidate'[c].status = "failed")
          => Served' = Served]_vars

(* "automatic rollback to the snapshotted previous profile on any failure" *)
(* (docs/production/phase15_text_nlp_production_readiness.md:134).         *)
FailureRestoresPrevious ==
    [][\A c \in Candidates :
          (/\ candidate[c].status = "validated"
           /\ candidate'[c].status = "failed"
           /\ candidate'[c].snapshot # NoProfile)
             => profile'[candidate'[c].snapshot] = "active"]_vars

(* Rollback "only ever returns to what was active before"                  *)
(* (production_rag_activation_service.py:200): nothing else stays active.  *)
RollbackLeavesOneActive ==
    [][\A c \in Candidates :
          candidate[c].status # "superseded" /\ candidate'[c].status = "superseded"
             => Active(Space(c))' = {candidate[c].snapshot}]_vars
=============================================================================
