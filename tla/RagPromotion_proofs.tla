------------------------ MODULE RagPromotion_proofs ------------------------
(***************************************************************************)
(* Proofs about RagPromotion: types, and what public chat retrieves from.  *)
(***************************************************************************)
EXTENDS RagPromotion, FiniteSetTheorems, TLAPS

(* The rows: one that exists belongs to a request, and one with a snapshot *)
(* was validated once.                                                     *)
Rows ==
    \A c \in Candidates :
        /\ candidate[c].status # "absent" => candidate[c].request \in Requests
        /\ candidate[c].snapshot # NoProfile => candidate[c].status \notin {"absent", "building"}

Typed == TypeOK /\ Rows

-----------------------------------------------------------------------------
(* Types. *)

LEMMA InitTyped == Init => Typed
  <1> SUFFICES ASSUME Init PROVE Typed
    OBVIOUS
  <1>1. TypeOK
    BY DEF Init, TypeOK, Candidate
  <1>2. Rows
    BY DEF Init, Rows
  <1> QED
    BY <1>1, <1>2 DEF Typed

(* A row with a field or two changed is a row. *)
LEMMA ChangedRow ==
  ASSUME NEW c \in Candidates, candidate[c] \in Candidate,
         NEW s \in {"absent", "building", "built", "validating", "validated",
                    "validation_failed", "activated", "superseded", "failed"},
         NEW p \in Profiles \cup {NoProfile}
  PROVE  /\ [candidate[c] EXCEPT !.status = s] \in Candidate
         /\ [candidate[c] EXCEPT !.snapshot = p, !.status = s] \in Candidate
  BY Zenon DEF Candidate

LEMMA CandidatesAreNat == Candidates \subseteq Nat /\ Candidates \cap HandMade = {}
  BY SpacesAssumption, BoundsAssumption DEF Candidates

(* What is entered under an existing row keeps Rows. *)
LEMMA RowsKept ==
  ASSUME Typed, NEW c \in Candidates, NEW row \in Candidate,
         candidate' = [candidate EXCEPT ![c] = row],
         row.status # "absent" => row.request \in Requests,
         row.snapshot # NoProfile => row.status \notin {"absent", "building"}
  PROVE  candidate' \in [Candidates -> Candidate] /\ Rows'
  BY DEF Typed, TypeOK, Rows

LEMMA RequestsTyped ==
  ASSUME Typed, NEW r \in Requests,
         CreateRequest(r) \/ SubmitForReview(r) \/ RequestApproval(r)
           \/ \E i \in DOMAIN approvals[r] : Approve(r, i) \/ ApprovalLapses(r, i)
  PROVE  Typed'
  <1>1. TypeOK'
    <2>1. CASE CreateRequest(r)
      BY <2>1 DEF CreateRequest, Typed, TypeOK
    <2>2. CASE SubmitForReview(r)
      BY <2>2 DEF SubmitForReview, Typed, TypeOK
    <2>3. CASE RequestApproval(r)
      BY <2>3 DEF RequestApproval, Typed, TypeOK
    <2>4. ASSUME NEW i \in DOMAIN approvals[r], Approve(r, i) PROVE TypeOK'
      BY <2>4 DEF Approve, Typed, TypeOK
    <2>5. ASSUME NEW i \in DOMAIN approvals[r], ApprovalLapses(r, i) PROVE TypeOK'
      BY <2>5 DEF ApprovalLapses, Typed, TypeOK
    <2> QED
      BY <2>1, <2>2, <2>3, <2>4, <2>5
  <1>2. UNCHANGED candidate
    BY DEF CreateRequest, SubmitForReview, RequestApproval, Approve, ApprovalLapses
  <1> QED
    BY <1>1, <1>2 DEF Typed, Rows

LEMMA BuildTyped ==
  ASSUME Typed, NEW r \in Requests, NEW c \in Candidates, BuildCandidate(r, c)
  PROVE  Typed'
  <1>1. PICK linked \in BOOLEAN, s \in {"building", "built", "failed"} :
          candidate' = [candidate EXCEPT ![c] = [request |-> r, linked |-> linked,
                          snapshot |-> NoProfile, status |-> s]]
    BY DEF BuildCandidate, Built
  <1> DEFINE row == [request |-> r, linked |-> linked, snapshot |-> NoProfile, status |-> s]
  <1>2. row \in Candidate /\ row.status # "absent" /\ row.request = r /\ row.snapshot = NoProfile
    BY DEF Candidate
  <1>3. candidate' = [candidate EXCEPT ![c] = row]
    BY <1>1
  <1> HIDE DEF row
  <1>4. candidate' \in [Candidates -> Candidate] /\ Rows'
    BY <1>2, <1>3, RowsKept
  <1>5. request' \in [Requests -> {"absent", "draft", "awaiting_review", "approved",
                      "building_candidate", "candidate_ready", "validation_failed",
                      "ready_for_activation"}]
    BY DEF BuildCandidate, Typed, TypeOK
  <1>6. profile' \in [Profiles -> {"absent", "draft", "validated", "active", "archived"}]
    BY DEF BuildCandidate, Typed, TypeOK, Profiles
  <1> QED
    BY <1>4, <1>5, <1>6 DEF BuildCandidate, Typed, TypeOK

LEMMA ValidationTyped ==
  ASSUME Typed, NEW c \in Candidates, RunValidation(c)
  PROVE  Typed'
  <1>1. PICK s \in {"validating", "validated", "validation_failed"} :
          candidate' = [candidate EXCEPT ![c].status = s]
    BY DEF RunValidation
  <1> DEFINE row == [candidate[c] EXCEPT !.status = s]
  <1>2. candidate[c] \in Candidate
    BY DEF Typed, TypeOK
  <1>3. row \in Candidate
    BY <1>2, ChangedRow, NoProfile \in Profiles \cup {NoProfile}
  <1>4. row.status = s /\ row.request = candidate[c].request /\ row.snapshot = candidate[c].snapshot
    BY <1>2 DEF Candidate
  <1>5. candidate' = [candidate EXCEPT ![c] = row]
    BY <1>1
  <1>6. candidate[c].request \in Requests
    BY DEF RunValidation, Typed, Rows
  <1> HIDE DEF row
  <1>7. candidate' \in [Candidates -> Candidate] /\ Rows'
    BY <1>3, <1>4, <1>5, <1>6, RowsKept
  <1> QED
    BY <1>7 DEF RunValidation, Typed, TypeOK

LEMMA RefuseTyped ==
  ASSUME Typed, NEW c \in Candidates, RefuseLapsed(c)
  PROVE  Typed'
  <1> DEFINE r == candidate[c].request
  <1>1. r \in Requests
    BY DEF RefuseLapsed, Typed, Rows
  <1>2. approvals[r] \in Seq({"pending", "approved", "lapsed", "expired"}) /\ approvals[r] # <<>>
    BY <1>1 DEF RefuseLapsed, Typed, TypeOK
  <1>3. Len(approvals[r]) \in DOMAIN approvals[r]
    BY <1>2
  <1> DEFINE new == [approvals[r] EXCEPT ![Len(approvals[r])] = "expired"]
  <1>4. new \in Seq({"pending", "approved", "lapsed", "expired"})
    BY <1>2, <1>3
  <1>5. approvals' = [approvals EXCEPT ![r] = new]
    BY DEF RefuseLapsed
  <1> QED
    BY <1>1, <1>4, <1>5 DEF RefuseLapsed, Typed, TypeOK, Rows

(* Every outcome of an activation enters a snapshot and one of three       *)
(* statuses, and changes the profile of the candidate and the previous one.*)
LEMMA ActivateShape ==
  ASSUME Typed, NEW c \in Candidates, Activate(c)
  PROVE  /\ candidate[c] \in Candidate
         /\ candidate[c].status = "validated"
         /\ candidate[c].request \in Requests
         /\ Space(c) \in Spaces
         /\ \A prev \in Previous(c) : prev \in Profiles \cup {NoProfile}
         /\ \E prev \in Previous(c), s \in {"validated", "failed", "activated"} :
               Recorded(c, prev, s)
  <1>1. candidate[c] \in Candidate
    BY DEF Typed, TypeOK
  <1>2. candidate[c].status = "validated"
    BY DEF Activate, MayActivate
  <1>3. candidate[c].request \in Requests
    BY <1>2 DEF Typed, Rows
  <1>4. \A prev \in Previous(c) : prev \in Profiles \cup {NoProfile}
    BY DEF Previous, Active
  <1>5. \E prev \in Previous(c), s \in {"validated", "failed", "activated"} : Recorded(c, prev, s)
    BY DEF Activate, ActivateDies, ActivateFails, ActivateFailsHalf, ActivateCompletes
  <1> QED
    BY <1>1, <1>2, <1>3, <1>4, <1>5, SpacesAssumption DEF Space

LEMMA ActivateTyped ==
  ASSUME Typed, NEW c \in Candidates, Activate(c)
  PROVE  Typed'
  <1>1. PICK prev \in Previous(c), s \in {"validated", "failed", "activated"} :
          Recorded(c, prev, s)
    BY ActivateShape
  <1>2. prev \in Profiles \cup {NoProfile} /\ candidate[c] \in Candidate
        /\ candidate[c].request \in Requests
    BY ActivateShape
  <1> DEFINE row == [candidate[c] EXCEPT !.snapshot = prev, !.status = s]
  <1>3. row \in Candidate
    BY <1>2, ChangedRow
  <1>4. row.status = s /\ row.request = candidate[c].request
    BY <1>2 DEF Candidate
  <1>5. candidate' = [candidate EXCEPT ![c] = row]
    BY <1>1 DEF Recorded
  <1> HIDE DEF row
  <1>6. candidate' \in [Candidates -> Candidate] /\ Rows'
    BY <1>2, <1>3, <1>4, <1>5, RowsKept
  <1>7. profile' \in [Profiles -> {"absent", "draft", "validated", "active", "archived"}]
    BY DEF Activate, ActivateDies, ActivateFails, ActivateFailsHalf, ActivateCompletes,
           Archived, Typed, TypeOK, Profiles
  <1>8. request' \in [Requests -> {"absent", "draft", "awaiting_review", "approved",
                      "building_candidate", "candidate_ready", "validation_failed",
                      "ready_for_activation"}]
    BY DEF Activate, ActivateDies, ActivateFails, ActivateFailsHalf, ActivateCompletes,
           Typed, TypeOK
  <1>9. orderly' \in BOOLEAN
    BY DEF Activate, ActivateDies, ActivateFails, ActivateFailsHalf, ActivateCompletes,
           Typed, TypeOK
  <1>10. approvals' = approvals
    BY DEF Activate
  <1> QED
    BY <1>6, <1>7, <1>8, <1>9, <1>10 DEF Typed, TypeOK

LEMMA RollbackTyped ==
  ASSUME Typed, NEW c \in Candidates, Rollback(c)
  PROVE  Typed'
  <1>1. candidate[c] \in Candidate
    BY DEF Typed, TypeOK
  <1> DEFINE row == [candidate[c] EXCEPT !.status = "superseded"]
  <1>2. row \in Candidate
    BY <1>1, ChangedRow, NoProfile \in Profiles \cup {NoProfile}
  <1>3. row.status = "superseded" /\ row.request = candidate[c].request
    BY <1>1 DEF Candidate
  <1>4. candidate[c].request \in Requests
    BY DEF Rollback, Typed, Rows
  <1>5. candidate' = candidate \/ candidate' = [candidate EXCEPT ![c] = row]
    BY DEF Rollback
  <1> HIDE DEF row
  <1>6. candidate' \in [Candidates -> Candidate] /\ Rows'
    <2>1. CASE candidate' = candidate
      BY <2>1 DEF Typed, TypeOK, Rows
    <2>2. CASE candidate' = [candidate EXCEPT ![c] = row]
      BY <2>2, <1>2, <1>3, <1>4, RowsKept
    <2> QED
      BY <1>5, <2>1, <2>2
  <1>7. profile' \in [Profiles -> {"absent", "draft", "validated", "active", "archived"}]
    BY DEF Rollback, Typed, TypeOK
  <1>8. orderly' \in BOOLEAN
    BY DEF Rollback, Typed, TypeOK
  <1> QED
    BY <1>6, <1>7, <1>8 DEF Rollback, Typed, TypeOK

LEMMA ProfilesTyped ==
  ASSUME Typed, NEW p \in Profiles, ValidateProfile(p) \/ ActivateProfile(p)
  PROVE  Typed'
  BY DEF ValidateProfile, ActivateProfile, Typed, TypeOK, Rows

LEMMA NextTyped == Typed /\ [Next]_vars => Typed'
  <1> SUFFICES ASSUME Typed, [Next]_vars PROVE Typed'
    OBVIOUS
  <1>1. CASE UNCHANGED vars
    BY <1>1 DEF vars, Typed, TypeOK, Rows
  <1>2. CASE Next
    BY <1>2, RequestsTyped, BuildTyped, ValidationTyped, RefuseTyped, ActivateTyped,
       RollbackTyped, ProfilesTyped DEF Next
  <1> QED
    BY <1>1, <1>2

LEMMA AlwaysTyped == Spec => []Typed
  <1>1. Init => Typed
    BY InitTyped
  <1>2. Typed /\ [Next]_vars => Typed'
    BY NextTyped
  <1> QED
    BY <1>1, <1>2, PTL DEF Spec

(* Every row of the promotion keeps its type, for any requests, spaces and *)
(* bounds (the schema's CHECKs, schema.py:9415).                           *)
THEOREM PromotionTyped == Spec => []TypeOK
  BY AlwaysTyped, PTL DEF Typed

-----------------------------------------------------------------------------
(* What a step leaves alone. *)

SameLive == /\ Live' = Live
            /\ \A c \in Live : Space(c)' = Space(c) /\ candidate'[c].snapshot = candidate[c].snapshot

(* Only an activation that completes and a rollback change what is live.   *)
LEMMA BuildLive ==
  ASSUME Typed, NEW r \in Requests, NEW c \in Candidates, BuildCandidate(r, c)
  PROVE  /\ SameLive
         /\ c \notin Live
         /\ \A p \in Profiles : profile'[p] = profile[p] \/ (p = c /\ profile'[p] # "active")
         /\ \A d \in Candidates : candidate[d].status = "validated" => candidate'[d] = candidate[d]
  <1>1. PICK linked \in BOOLEAN, s \in {"building", "built", "failed"} :
          candidate' = [candidate EXCEPT ![c] = [request |-> r, linked |-> linked,
                          snapshot |-> NoProfile, status |-> s]]
    BY DEF BuildCandidate, Built
  <1>2. candidate[c].status = "absent"
    BY DEF BuildCandidate, Next1
  <1>3. \A d \in Candidates : d # c => candidate'[d] = candidate[d]
    BY <1>1 DEF Typed, TypeOK
  <1>4. candidate'[c].status \in {"building", "built", "failed"}
    BY <1>1 DEF Typed, TypeOK
  <1>5. SameLive
    BY <1>2, <1>3, <1>4 DEF SameLive, Live, Space
  <1>6. \A p \in Profiles : profile'[p] = profile[p] \/ (p = c /\ profile'[p] # "active")
    BY DEF BuildCandidate, Typed, TypeOK, Profiles
  <1> QED
    BY <1>2, <1>3, <1>5, <1>6 DEF Live

LEMMA ValidationLive ==
  ASSUME Typed, NEW c \in Candidates, RunValidation(c)
  PROVE  /\ SameLive
         /\ UNCHANGED <<profile, orderly>>
         /\ \A d \in Candidates : candidate[d].status = "validated" => candidate'[d] = candidate[d]
  <1>1. PICK s \in {"validating", "validated", "validation_failed"} :
          candidate' = [candidate EXCEPT ![c].status = s]
    BY DEF RunValidation
  <1>2. candidate[c].status = "built"
    BY DEF RunValidation
  <1>3. candidate[c] \in Candidate
    BY DEF Typed, TypeOK
  <1>4. \A d \in Candidates : d # c => candidate'[d] = candidate[d]
    BY <1>1 DEF Typed, TypeOK
  <1>5. candidate'[c].status = s
    BY <1>1, <1>3 DEF Typed, TypeOK, Candidate
  <1>6. SameLive
    BY <1>2, <1>4, <1>5 DEF SameLive, Live, Space
  <1> QED
    BY <1>2, <1>4, <1>6 DEF RunValidation

(* What an activation enters in its row, and nowhere else. *)
LEMMA RecordedRow ==
  ASSUME Typed, NEW c \in Candidates, NEW prev \in Profiles \cup {NoProfile},
         NEW s \in {"validated", "failed", "activated"}, Recorded(c, prev, s)
  PROVE  /\ \A d \in Candidates : d # c => candidate'[d] = candidate[d]
         /\ candidate'[c].status = s
         /\ candidate'[c].snapshot = prev
         /\ candidate'[c].request = candidate[c].request
         /\ \A d \in Candidates : Space(d)' = Space(d)
  <1>1. candidate[c] \in Candidate
    BY DEF Typed, TypeOK
  <1>2. \A d \in Candidates : d # c => candidate'[d] = candidate[d]
    BY DEF Recorded, Typed, TypeOK
  <1>3. candidate'[c] = [candidate[c] EXCEPT !.snapshot = prev, !.status = s]
    BY DEF Recorded, Typed, TypeOK
  <1>4. candidate'[c].status = s /\ candidate'[c].snapshot = prev
        /\ candidate'[c].request = candidate[c].request
    BY <1>1, <1>3 DEF Candidate
  <1> QED
    BY <1>2, <1>4 DEF Space

LEMMA CutActivationLive ==
  ASSUME Typed, NEW c \in Candidates, candidate[c].status = "validated",
         NEW prev \in Profiles \cup {NoProfile},
         NEW s \in {"validated", "failed"}, Recorded(c, prev, s)
  PROVE  SameLive /\ c \notin Live
  BY RecordedRow DEF SameLive, Live

-----------------------------------------------------------------------------
(* A failed activation. *)

(* Where a validated candidate fails, its activation did. *)
LEMMA FailureIsActivation ==
  ASSUME Typed, [Next]_vars, NEW c \in Candidates,
         candidate[c].status = "validated", candidate'[c].status = "failed"
  PROVE  \E prev \in Previous(c) : ActivateFails(c, prev)
  <1>1. candidate' # candidate
    OBVIOUS
  <1>2. Next
    BY <1>1 DEF vars
  <1>3. ASSUME NEW r \in Requests, NEW d \in Candidates, BuildCandidate(r, d) PROVE FALSE
    BY <1>3, BuildLive
  <1>4. ASSUME NEW d \in Candidates, RunValidation(d) PROVE FALSE
    BY <1>4, ValidationLive
  <1>5. ASSUME NEW d \in Candidates, Rollback(d) PROVE FALSE
    <2>1. candidate[d] \in Candidate /\ candidate[c] \in Candidate
      BY DEF Typed, TypeOK
    <2>2. candidate' = candidate \/ candidate' = [candidate EXCEPT ![d].status = "superseded"]
      BY <1>5 DEF Rollback
    <2>3. candidate'[c] = candidate[c] \/ candidate'[c].status = "superseded"
      BY <2>1, <2>2 DEF Typed, TypeOK, Candidate
    <2> QED
      BY <2>3
  <1>6. PICK d \in Candidates : Activate(d)
    BY <1>1, <1>2, <1>3, <1>4, <1>5 DEF Next, CreateRequest, SubmitForReview, RequestApproval,
       Approve, ApprovalLapses, RefuseLapsed, ValidateProfile, ActivateProfile
  <1>7. PICK prev \in Previous(d) :
           ActivateDies(d, prev) \/ ActivateFails(d, prev) \/ ActivateFailsHalf(d, prev)
             \/ ActivateCompletes(d, prev)
    BY <1>6 DEF Activate
  <1>8. prev \in Profiles \cup {NoProfile}
    BY <1>6, <1>7, ActivateShape
  <1>9. d = c
    <2>1. \E s \in {"validated", "failed", "activated"} : Recorded(d, prev, s)
      BY <1>7 DEF ActivateDies, ActivateFails, ActivateFailsHalf, ActivateCompletes
    <2> QED
      BY <2>1, <1>8, RecordedRow
  <1>10. ~(Recorded(d, prev, "validated") \/ Recorded(d, prev, "activated"))
    <2>1. "validated" # "failed" /\ "activated" # "failed"
      OBVIOUS
    <2> QED
      BY <1>8, <1>9, <2>1, RecordedRow
  <1> QED
    BY <1>7, <1>9, <1>10 DEF ActivateDies, ActivateFailsHalf, ActivateCompletes

LEMMA FailureKeepsServed ==
  ASSUME Typed, NEW c \in Candidates, candidate[c].status = "validated",
         NEW prev \in Previous(c), ActivateFails(c, prev)
  PROVE  Served' = Served
  <1>1. prev \in Profiles \cup {NoProfile}
    BY DEF Previous, Active
  <1>2. SameLive /\ c \notin Live
    BY <1>1, CutActivationLive DEF ActivateFails
  <1>3. \A d \in Live : profile'[d] = profile[d]
    BY <1>2 DEF ActivateFails, Typed, TypeOK, Live, Profiles
  <1> QED
    BY <1>2, <1>3 DEF Served, SameLive

(* A failed activation leaves public chat as it is, whatever was cut       *)
(* before and whoever set profiles by hand (the except branch of activate, *)
(* production_rag_activation_service.py:154).                              *)
THEOREM HarmlessFailure == Spec => FailureChangesNothing
  <1> DEFINE Body == (\E c \in Candidates : /\ candidate[c].status = "validated"
                                            /\ candidate'[c].status = "failed")
                        => Served' = Served
  <1>1. Typed /\ [Next]_vars => Body
    BY FailureIsActivation, FailureKeepsServed
  <1>2. Typed /\ [Next]_vars => [Body]_vars
    BY <1>1
  <1> QED
    BY <1>2, AlwaysTyped, PTL DEF Spec, FailureChangesNothing

-----------------------------------------------------------------------------
(* Everything in turn.  The profile active in a space is the newest live   *)
(* candidate's, or made by hand where none is live; a space with a live    *)
(* candidate has one; and the snapshot of a live candidate is the live one *)
(* before it.                                                              *)
Mate(c, d) == d \in Live /\ Space(d) = Space(c)

ActiveIsNewest(p) ==
    \/ p \in HandMade /\ \A d \in Live : Space(d) # p
    \/ p \in Live /\ \A d \in Live : Space(d) = Space(p) => d <= p

SnapshotBefore(c) ==
    LET prev == candidate[c].snapshot IN
        \/ /\ Mate(c, prev)
           /\ prev < c
           /\ \A d \in Live : Mate(c, d) /\ d < c => d <= prev
        \/ /\ prev \in {NoProfile, Space(c)}
           /\ \A d \in Live : Mate(c, d) => ~(d < c)

InOrder ==
    /\ \A p \in Profiles : profile[p] = "active" => ActiveIsNewest(p)
    /\ \A c \in Live : \E d \in Live : Space(d) = Space(c) /\ c <= d /\ profile[d] = "active"
    /\ \A c \in Live : SnapshotBefore(c)

Order == orderly => InOrder

LEMMA OrderServes == Typed /\ Order => OneActivePerSpace /\ NewestIsServed
  <1> SUFFICES ASSUME Typed, Order PROVE OneActivePerSpace /\ NewestIsServed
    OBVIOUS
  <1>1. OneActivePerSpace
    <2> SUFFICES ASSUME InOrder, NEW s \in Spaces, NEW p \in Active(s), NEW q \in Active(s)
                 PROVE  p = q
      BY DEF OneActivePerSpace, Order
    <2>1. ActiveIsNewest(p) /\ ActiveIsNewest(q)
      BY DEF InOrder, Active
    <2>2. ASSUME NEW x \in Active(s)
          PROVE  x \in Live => Space(x) = s
      <3>1. x \in Live => x \notin Spaces
        BY CandidatesAreNat, SpacesAssumption DEF Live
      <3> QED
        BY <3>1 DEF Active, InSpace, Space
    <2>3. ASSUME NEW x \in Active(s)
          PROVE  x \in HandMade => x = s
      BY CandidatesAreNat DEF Active, InSpace
    <2>4. Live \subseteq Nat
      BY CandidatesAreNat DEF Live
    <2>5. CASE p \in HandMade /\ \A d \in Live : Space(d) # p
      BY <2>1, <2>2, <2>3, <2>5 DEF ActiveIsNewest
    <2>6. CASE q \in HandMade /\ \A d \in Live : Space(d) # q
      BY <2>1, <2>2, <2>3, <2>6 DEF ActiveIsNewest
    <2>7. CASE p \in Live /\ q \in Live /\ p <= q /\ q <= p
      BY <2>4, <2>7
    <2> QED
      BY <2>1, <2>2, <2>5, <2>6, <2>7 DEF ActiveIsNewest
  <1>2. NewestIsServed
    <2> SUFFICES ASSUME InOrder, NEW c \in Live, \A d \in Live : d <= c PROVE c \in Served
      BY DEF NewestIsServed, Order
    <2>1. PICK d \in Live : c <= d /\ profile[d] = "active"
      BY DEF InOrder
    <2>2. d \in Nat /\ c \in Nat
      BY CandidatesAreNat DEF Live
    <2>3. d = c
      BY <2>1, <2>2
    <2> QED
      BY <2>1, <2>3 DEF Served
  <1> QED
    BY <1>1, <1>2

(* A step that changes neither what is live nor which profiles are active. *)
LEMMA OrderKept ==
  ASSUME Typed, Typed', Order, SameLive, orderly' => orderly,
         orderly => \A p \in Profiles : (profile'[p] = "active") <=> (profile[p] = "active")
  PROVE  Order'
  <1> SUFFICES ASSUME InOrder,
                      \A p \in Profiles : (profile'[p] = "active") <=> (profile[p] = "active")
               PROVE  InOrder'
    BY DEF Order
  <1>1. Live \subseteq Profiles /\ Live \subseteq Candidates
    BY DEF Live, Profiles
  <1>2. \A p \in Profiles : ActiveIsNewest(p)' <=> ActiveIsNewest(p)
    BY DEF ActiveIsNewest, SameLive
  <1>3. \A c \in Live : SnapshotBefore(c)' <=> SnapshotBefore(c)
    BY DEF SnapshotBefore, Mate, SameLive
  <1>4. \A c \in Live' : \E d \in Live' : Space(d)' = Space(c)' /\ c <= d /\ profile'[d] = "active"
    BY <1>1 DEF InOrder, SameLive
  <1> QED
    BY <1>2, <1>3, <1>4 DEF InOrder, SameLive

LEMMA SameCandidatesLive == UNCHANGED candidate => SameLive
  BY DEF SameLive, Live, Space

LEMMA FailingOrder ==
  ASSUME Typed, Typed', Order, NEW c \in Candidates, candidate[c].status = "validated",
         NEW prev \in Profiles \cup {NoProfile},
         ActivateDies(c, prev) \/ ActivateFails(c, prev) \/ ActivateFailsHalf(c, prev)
  PROVE  Order'
  <1>1. SameLive /\ c \notin Live
    BY CutActivationLive DEF ActivateDies, ActivateFails, ActivateFailsHalf
  <1>2. orderly => profile[c] # "active"
    BY <1>1, CandidatesAreNat DEF Order, InOrder, ActiveIsNewest, Profiles
  <1>3. CASE ActivateDies(c, prev)
    <2>1. orderly' => orderly /\ profile' = profile
      BY <1>3 DEF ActivateDies
    <2>2. CASE ~orderly'
      BY <2>2 DEF Order
    <2>3. CASE orderly'
      BY <2>1, <2>3, <1>1, OrderKept
    <2> QED
      BY <2>2, <2>3
  <1>4. CASE ActivateFails(c, prev) \/ ActivateFailsHalf(c, prev)
    <2>1. orderly' = orderly /\ profile' = [profile EXCEPT ![c] = "validated"]
      BY <1>4 DEF ActivateFails, ActivateFailsHalf
    <2>2. orderly => \A p \in Profiles : (profile'[p] = "active") <=> (profile[p] = "active")
      BY <2>1, <1>2 DEF Typed, TypeOK
    <2> QED
      BY <2>1, <2>2, <1>1, OrderKept
  <1> QED
    BY <1>3, <1>4

(* The previous profile of a candidate activated in turn is that of the    *)
(* live candidate before it, or made by hand, or none.                     *)
LEMMA PreviousInOrder ==
  ASSUME Typed, InOrder, NEW c \in Candidates, candidate[c].status = "validated",
         Space(c) \in Spaces, NEW prev \in Previous(c)
  PROVE  \/ /\ Mate(c, prev)
            /\ \A d \in Live : Mate(c, d) => d <= prev
         \/ /\ prev \in {NoProfile, Space(c)}
            /\ \A d \in Live : ~Mate(c, d)
  <1>1. CASE Active(Space(c)) = {}
    <2>1. prev = NoProfile
      BY <1>1 DEF Previous
    <2>2. ASSUME NEW d \in Live, Mate(c, d) PROVE FALSE
      <3>1. PICK e \in Live : Space(e) = Space(d) /\ profile[e] = "active"
        BY DEF InOrder
      <3>2. e \in Candidates /\ candidate[e].status = "activated"
        BY DEF Live
      <3>3. e \in Active(Space(c))
        BY <2>2, <3>1, <3>2 DEF Active, InSpace, Profiles, Mate, Space
      <3> QED
        BY <1>1, <3>3
    <2> QED
      BY <2>1, <2>2
  <1>2. CASE prev \in Active(Space(c))
    <2>1. prev \in Profiles /\ profile[prev] = "active" /\ InSpace(prev, Space(c))
      BY <1>2 DEF Active
    <2>2. ActiveIsNewest(prev)
      BY <2>1 DEF InOrder
    <2>3. CASE prev \in HandMade
      <3>1. prev \notin Candidates /\ prev = Space(c)
        BY <2>1, <2>3, CandidatesAreNat DEF InSpace
      <3> QED
        BY <2>2, <3>1 DEF ActiveIsNewest, Live, Mate
    <2>4. CASE prev \in Live /\ prev \notin HandMade
      <3>1. prev \in Nat
        BY <2>4, CandidatesAreNat DEF Live
      <3>2. prev # Space(c)
        BY <3>1, SpacesAssumption
      <3>3. Space(prev) = Space(c)
        BY <2>1, <3>2 DEF InSpace, Space
      <3> QED
        BY <2>2, <2>4, <3>3 DEF ActiveIsNewest, Mate
    <2> QED
      BY <2>2, <2>3, <2>4 DEF ActiveIsNewest
  <1> QED
    BY <1>1, <1>2 DEF Previous

LEMMA CompletedOrder ==
  ASSUME Typed, Typed', Order, NEW c \in Candidates, Activate(c),
         NEW prev \in Previous(c), ActivateCompletes(c, prev)
  PROVE  Order'
  <1> SUFFICES ASSUME orderly' PROVE InOrder'
    BY DEF Order
  <1>1. InOrder /\ InTurn(c)
    BY DEF ActivateCompletes, Order
  <1>2. /\ candidate[c].status = "validated" /\ Space(c) \in Spaces
        /\ prev \in Profiles \cup {NoProfile}
    BY ActivateShape
  <1>3. /\ \A d \in Candidates : d # c => candidate'[d] = candidate[d]
        /\ candidate'[c].status = "activated"
        /\ candidate'[c].snapshot = prev
        /\ \A d \in Candidates : Space(d)' = Space(d)
    BY <1>2, RecordedRow DEF ActivateCompletes
  <1>4. Live' = Live \cup {c} /\ c \notin Live /\ Live \subseteq Candidates
    BY <1>2, <1>3 DEF Live
  <1>5. Candidates \subseteq Nat /\ Candidates \cap HandMade = {} /\ Spaces \cap Nat = {}
        /\ HandMade \subseteq Spaces
    BY CandidatesAreNat, SpacesAssumption
  <1>6. \A d \in Live : Space(d) = Space(c) => d < c
    BY <1>1 DEF InTurn
  <1>7. \/ /\ Mate(c, prev)
           /\ \A d \in Live : Mate(c, d) => d <= prev
        \/ /\ prev \in {NoProfile, Space(c)}
           /\ \A d \in Live : ~Mate(c, d)
    BY <1>1, <1>2, PreviousInOrder
  <1>8. /\ profile'[c] = "active"
        /\ \A p \in Profiles : p # c => profile'[p] = IF p = prev THEN "archived" ELSE profile[p]
    BY DEF ActivateCompletes, Archived, Profiles
  <1>9. \A p \in Profiles : profile'[p] = "active" => ActiveIsNewest(p)'
    <2> SUFFICES ASSUME NEW p \in Profiles, profile'[p] = "active" PROVE ActiveIsNewest(p)'
      OBVIOUS
    <2>1. CASE p = c
      BY <2>1, <1>3, <1>4, <1>5, <1>6 DEF ActiveIsNewest
    <2>2. CASE p # c
      <3>1. profile[p] = "active" /\ p # prev
        BY <1>8, <2>2
      <3>2. ActiveIsNewest(p)
        BY <1>1, <3>1 DEF InOrder
      <3>3. CASE p \in HandMade /\ \A d \in Live : Space(d) # p
        <4>1. Space(c) # p
          <5>1. SUFFICES ASSUME Space(c) = p PROVE FALSE
            OBVIOUS
          <5>2. p \in Active(Space(c))
            BY <3>1, <5>1 DEF Active, InSpace
          <5>3. Active(Space(c)) # {} /\ prev \in Active(Space(c))
            BY <5>2 DEF Previous
          <5>4. prev # NoProfile
            BY <5>3, NothingAssumption, <1>5 DEF Active, Profiles
          <5> QED
            BY <5>1, <5>4, <1>7, <3>1, <3>3 DEF Mate
        <4> QED
          BY <3>3, <4>1, <1>3, <1>4 DEF ActiveIsNewest
      <3>4. CASE p \in Live /\ \A d \in Live : Space(d) = Space(p) => d <= p
        <4>1. Space(p) # Space(c)
          <5>1. SUFFICES ASSUME Space(p) = Space(c) PROVE FALSE
            OBVIOUS
          <5>2. Mate(c, p)
            BY <3>4, <5>1 DEF Mate
          <5>3. Mate(c, prev) /\ p <= prev
            BY <1>7, <3>4, <5>2
          <5>4. prev <= p
            BY <3>4, <5>1, <5>3 DEF Mate
          <5>5. p \in Nat /\ prev \in Nat
            BY <3>4, <5>3, <1>4, <1>5 DEF Mate
          <5> QED
            BY <3>1, <5>3, <5>4, <5>5
        <4> QED
          BY <3>4, <4>1, <1>3, <1>4 DEF ActiveIsNewest
      <3> QED
        BY <3>2, <3>3, <3>4 DEF ActiveIsNewest
    <2> QED
      BY <2>1, <2>2
  <1>10. ASSUME NEW d \in Live'
         PROVE  \E e \in Live' : Space(e)' = Space(d)' /\ d <= e /\ profile'[e] = "active"
    <2>1. CASE d = c \/ Space(d) = Space(c)
      BY <2>1, <1>3, <1>4, <1>5, <1>6, <1>8
    <2>2. CASE d # c /\ Space(d) # Space(c)
      <3>1. PICK e \in Live : Space(e) = Space(d) /\ d <= e /\ profile[e] = "active"
        BY <2>2, <1>1, <1>4 DEF InOrder
      <3>2. e # prev
        <4>1. e \in Nat
          BY <1>4, <1>5
        <4>2. e \notin {NoProfile, Space(c)}
          BY <4>1, <1>2, <1>5, NothingAssumption
        <4> QED
          BY <1>7, <2>2, <3>1, <4>2 DEF Mate
      <3>3. e # c /\ e \in Profiles
        BY <1>4 DEF Profiles
      <3> QED
        BY <3>1, <3>2, <3>3, <1>3, <1>4, <1>8
    <2> QED
      BY <2>1, <2>2
  <1>11. ASSUME NEW d \in Live'
         PROVE  SnapshotBefore(d)'
    <2>1. CASE d = c
      <3>1. \A e \in Candidates : Mate(c, e)' <=> (Mate(c, e) \/ e = c)
        BY <1>3, <1>4 DEF Mate
      <3>2. CASE Mate(c, prev) /\ \A e \in Live : Mate(c, e) => e <= prev
        <4>1. prev < c /\ prev \in Candidates
          BY <3>2, <1>4, <1>6 DEF Mate
        <4>2. \A e \in Live' : Mate(c, e)' /\ e < c => e <= prev
          BY <3>1, <3>2, <1>4, <1>5
        <4> QED
          BY <2>1, <3>1, <3>2, <4>1, <4>2, <1>3 DEF SnapshotBefore
      <3>3. CASE prev \in {NoProfile, Space(c)} /\ \A e \in Live : ~Mate(c, e)
        <4>1. \A e \in Live' : Mate(c, e)' => ~(e < c)
          BY <3>1, <3>3, <1>4, <1>5
        <4> QED
          BY <2>1, <3>3, <4>1, <1>3 DEF SnapshotBefore
      <3> QED
        BY <1>7, <3>2, <3>3
    <2>2. CASE d # c
      <3>1. d \in Live /\ SnapshotBefore(d) /\ candidate'[d] = candidate[d]
        BY <2>2, <1>1, <1>3, <1>4 DEF InOrder
      <3>2. \A e \in Live : Mate(d, e)' <=> Mate(d, e)
        BY <3>1, <1>3, <1>4 DEF Mate
      <3>3. Mate(d, c)' => ~(c < d)
        BY <3>1, <1>3, <1>4, <1>5, <1>6 DEF Mate
      <3>4. \A e : Mate(d, e) => e \in Live
        BY DEF Mate
      <3>5. Space(d)' = Space(d)
        BY <1>3, <1>4, <3>1
      <3> QED
        BY <3>1, <3>2, <3>3, <3>4, <3>5, <1>4 DEF SnapshotBefore
    <2> QED
      BY <2>1, <2>2
  <1> QED
    BY <1>9, <1>10, <1>11 DEF InOrder

(* A rollback in turn: what was live before takes over. *)
LEMMA RollbackOrder ==
  ASSUME Typed, Typed', Order, NEW c \in Candidates, Rollback(c)
  PROVE  Order'
  <1> SUFFICES ASSUME orderly' PROVE InOrder'
    BY DEF Order
  <1> DEFINE prev == candidate[c].snapshot
  <1>1. /\ candidate' = [candidate EXCEPT ![c].status = "superseded"]
        /\ orderly /\ InOrder /\ c \in Live
        /\ \A d \in Live : Space(d) = Space(c) => d <= c
    BY DEF Rollback, Order
  <1>2. prev # NoProfile /\ prev \in Profiles
    BY DEF Rollback, Typed, TypeOK, Candidate
  <1>3. candidate[c] \in Candidate
    BY DEF Typed, TypeOK
  <1>4. /\ \A d \in Candidates : d # c => candidate'[d] = candidate[d]
        /\ candidate'[c].status = "superseded"
        /\ candidate'[c].request = candidate[c].request
    BY <1>1, <1>3 DEF Typed, TypeOK, Candidate
  <1>5. Live' = Live \ {c} /\ Live \subseteq Candidates
    BY <1>4 DEF Live
  <1>6. \A d \in Candidates : Space(d)' = Space(d)
    BY <1>4 DEF Space
  <1>7. Candidates \subseteq Nat /\ Candidates \cap HandMade = {} /\ Spaces \cap Nat = {}
        /\ HandMade \subseteq Spaces
    BY CandidatesAreNat, SpacesAssumption
  <1>8. Space(c) \in Spaces
    BY <1>1, SpacesAssumption DEF Typed, Rows, Live, Space
  <1>9. \/ /\ Mate(c, prev)
           /\ prev < c
           /\ \A d \in Live : Mate(c, d) /\ d < c => d <= prev
        \/ /\ prev = Space(c) /\ prev \in HandMade
           /\ \A d \in Live : Mate(c, d) => ~(d < c)
    <2>1. SnapshotBefore(c)
      BY <1>1 DEF InOrder
    <2>2. prev = Space(c) => prev \in HandMade
      BY <1>2, <1>7, <1>8 DEF Profiles
    <2> QED
      BY <2>1, <2>2, <1>2 DEF SnapshotBefore
  <1>10. prev # c
    BY <1>1, <1>5, <1>7, <1>9
  <1>11. /\ profile'[prev] = "active" /\ profile'[c] = "archived"
         /\ \A p \in Profiles : p \notin {c, prev} => profile'[p] = profile[p]
    BY <1>2, <1>10 DEF Rollback, Typed, TypeOK, Profiles
  <1> HIDE DEF prev
  (* Of the space's live candidates only c was not before the snapshot. *)
  <1>12. \A d \in Live' : Space(d) = Space(c) => Mate(c, prev) /\ d <= prev
    <2> SUFFICES ASSUME NEW d \in Live', Space(d) = Space(c) PROVE Mate(c, prev) /\ d <= prev
      OBVIOUS
    <2>1. d \in Live /\ d # c /\ d \in Nat /\ c \in Nat
      BY <1>5, <1>7
    <2>2. d < c
      BY <1>1, <2>1
    <2> QED
      BY <1>9, <2>1, <2>2 DEF Mate
  <1>13. ASSUME NEW p \in Profiles, profile'[p] = "active"
         PROVE  ActiveIsNewest(p)'
    <2>1. CASE p = prev
      <3>1. CASE Mate(c, prev)
        BY <2>1, <3>1, <1>5, <1>6, <1>10, <1>12 DEF ActiveIsNewest, Mate
      <3>2. CASE prev = Space(c) /\ prev \in HandMade /\ ~Mate(c, prev)
        BY <2>1, <3>2, <1>5, <1>6, <1>12 DEF ActiveIsNewest
      <3> QED
        BY <1>9, <3>1, <3>2
    <2>2. CASE p # prev
      <3>1. p # c /\ profile[p] = "active"
        BY <2>2, <1>11, <1>13
      <3>2. ActiveIsNewest(p)
        BY <1>1, <3>1 DEF InOrder
      <3> QED
        BY <3>1, <3>2, <1>5, <1>6 DEF ActiveIsNewest
    <2> QED
      BY <2>1, <2>2
  <1>14. ASSUME NEW d \in Live'
         PROVE  \E e \in Live' : Space(e)' = Space(d)' /\ d <= e /\ profile'[e] = "active"
    <2>1. CASE Space(d) = Space(c)
      <3>1. Mate(c, prev) /\ d <= prev
        BY <2>1, <1>12
      <3> QED
        BY <3>1, <2>1, <1>5, <1>6, <1>10, <1>11 DEF Mate
    <2>2. CASE Space(d) # Space(c)
      <3>1. PICK e \in Live : Space(e) = Space(d) /\ d <= e /\ profile[e] = "active"
        BY <1>1, <1>5 DEF InOrder
      <3>2. e # c /\ e \in Profiles
        BY <2>2, <3>1, <1>5 DEF Profiles
      <3>3. profile'[e] = "active"
        BY <3>1, <3>2, <1>11
      <3> QED
        BY <3>1, <3>2, <3>3, <1>5, <1>6
    <2> QED
      BY <2>1, <2>2
  <1>15. ASSUME NEW d \in Live'
         PROVE  SnapshotBefore(d)'
    <2>1. d \in Live /\ d # c /\ SnapshotBefore(d) /\ candidate'[d] = candidate[d]
      BY <1>1, <1>4, <1>5 DEF InOrder
    <2>2. \A e : Mate(d, e)' <=> (Mate(d, e) /\ e # c)
      BY <2>1, <1>5, <1>6 DEF Mate
    <2>3. Space(d)' = Space(d)
      BY <1>5, <1>6
    <2>4. Mate(d, c) => ~(c < d)
      BY <2>1, <1>1, <1>5, <1>7 DEF Mate
    <2> QED
      BY <2>1, <2>2, <2>3, <2>4, <1>5 DEF SnapshotBefore
  <1> QED
    BY <1>13, <1>14, <1>15 DEF InOrder

LEMMA BuildOrder ==
  ASSUME Typed, Typed', Order, NEW r \in Requests, NEW c \in Candidates, BuildCandidate(r, c)
  PROVE  Order'
  <1>1. /\ SameLive /\ c \notin Live
        /\ \A p \in Profiles : profile'[p] = profile[p] \/ (p = c /\ profile'[p] # "active")
    BY BuildLive
  <1>2. orderly => profile[c] # "active"
    BY <1>1, CandidatesAreNat DEF Order, InOrder, ActiveIsNewest, Profiles
  <1>3. orderly' = orderly
    BY DEF BuildCandidate
  <1> QED
    BY <1>1, <1>2, <1>3, OrderKept

LEMMA ValidateProfileOrder ==
  ASSUME Typed, Typed', Order, NEW p \in Profiles, ValidateProfile(p)
  PROVE  Order'
  <1>1. SameLive
    BY SameCandidatesLive DEF ValidateProfile
  <1>2. CASE ~orderly'
    BY <1>2 DEF Order
  <1>3. CASE orderly'
    <2>1. orderly /\ profile[p] # "active" /\ profile' = [profile EXCEPT ![p] = "validated"]
      BY <1>3 DEF ValidateProfile
    <2>2. \A q \in Profiles : (profile'[q] = "active") <=> (profile[q] = "active")
      BY <2>1 DEF Typed, TypeOK
    <2> QED
      BY <1>1, <2>1, <2>2, OrderKept
  <1> QED
    BY <1>2, <1>3

LEMMA ActivateProfileOrder ==
  ASSUME Typed, Typed', Order, NEW p \in Profiles, ActivateProfile(p)
  PROVE  Order'
  <1> SUFFICES ASSUME orderly' PROVE InOrder'
    BY DEF Order
  <1>1. /\ InOrder /\ p \in HandMade /\ Active(p) = {}
        /\ profile' = [profile EXCEPT ![p] = "active"] /\ candidate' = candidate
    BY DEF ActivateProfile, Order
  <1>2. SameLive
    BY SameCandidatesLive, <1>1
  <1>3. Live \subseteq Candidates /\ Candidates \subseteq Profiles /\ p \notin Live
    BY <1>1, CandidatesAreNat DEF Live, Profiles
  <1>4. \A d \in Live : Space(d) # p
    <2> SUFFICES ASSUME NEW d \in Live, Space(d) = p PROVE FALSE
      OBVIOUS
    <2>1. PICK e \in Live : Space(e) = p /\ profile[e] = "active"
      BY <1>1 DEF InOrder
    <2>2. e \in Active(p)
      BY <2>1, <1>3 DEF Active, InSpace, Live, Space
    <2> QED
      BY <1>1, <2>2
  <1>5. \A q \in Profiles : q # p => profile'[q] = profile[q]
    BY <1>1 DEF Typed, TypeOK
  <1>6. \A q \in Profiles : ActiveIsNewest(q)' <=> ActiveIsNewest(q)
    BY <1>2 DEF ActiveIsNewest, SameLive
  <1>7. \A q \in Profiles : profile'[q] = "active" => ActiveIsNewest(q)'
    BY <1>1, <1>4, <1>5, <1>6 DEF InOrder, ActiveIsNewest
  <1>8. \A c \in Live' : \E d \in Live' : Space(d)' = Space(c)' /\ c <= d /\ profile'[d] = "active"
    <2> SUFFICES ASSUME NEW c \in Live
                 PROVE  \E d \in Live : Space(d) = Space(c) /\ c <= d /\ profile'[d] = "active"
      BY <1>2 DEF SameLive
    <2>1. PICK d \in Live : Space(d) = Space(c) /\ c <= d /\ profile[d] = "active"
      BY <1>1 DEF InOrder
    <2>2. profile'[d] = "active"
      BY <2>1, <1>3, <1>5
    <2> QED
      BY <2>1, <2>2
  <1>9. \A c \in Live' : SnapshotBefore(c)'
    BY <1>1, <1>2 DEF InOrder, SnapshotBefore, Mate, SameLive
  <1> QED
    BY <1>7, <1>8, <1>9 DEF InOrder

LEMMA InitOrder == Init => Order
  BY DEF Init, Order, InOrder, Live, Profiles

LEMMA NextOrder == Typed /\ Order /\ [Next]_vars => Order'
  <1> SUFFICES ASSUME Typed, Order, [Next]_vars PROVE Order'
    OBVIOUS
  <1>1. Typed'
    BY NextTyped
  <1>2. CASE UNCHANGED <<candidate, profile, orderly>>
    BY <1>1, <1>2, SameCandidatesLive, OrderKept
  <1>3. ASSUME NEW c \in Candidates, RunValidation(c) PROVE Order'
    BY <1>1, <1>3, ValidationLive, OrderKept
  <1>4. ASSUME NEW c \in Candidates, Activate(c) PROVE Order'
    <2>1. PICK prev \in Previous(c) :
             ActivateDies(c, prev) \/ ActivateFails(c, prev) \/ ActivateFailsHalf(c, prev)
               \/ ActivateCompletes(c, prev)
      BY <1>4 DEF Activate
    <2>2. prev \in Profiles \cup {NoProfile} /\ candidate[c].status = "validated"
      BY <1>4, <2>1, ActivateShape
    <2> QED
      BY <1>1, <1>4, <2>1, <2>2, FailingOrder, CompletedOrder
  <1>5. CASE UNCHANGED vars
    BY <1>2, <1>5 DEF vars
  <1>6. ASSUME NEW r \in Requests,
               CreateRequest(r) \/ SubmitForReview(r) \/ RequestApproval(r)
                 \/ \E i \in DOMAIN approvals[r] : Approve(r, i) \/ ApprovalLapses(r, i)
        PROVE  Order'
    BY <1>2, <1>6 DEF CreateRequest, SubmitForReview, RequestApproval, Approve, ApprovalLapses
  <1>7. ASSUME NEW c \in Candidates, RefuseLapsed(c) PROVE Order'
    BY <1>2, <1>7 DEF RefuseLapsed
  <1> QED
    BY <1>1, <1>3, <1>4, <1>5, <1>6, <1>7, BuildOrder, RollbackOrder, ValidateProfileOrder,
       ActivateProfileOrder DEF Next

LEMMA AlwaysOrder == Spec => [](Typed /\ Order)
  <1>1. Init => Typed /\ Order
    BY InitTyped, InitOrder
  <1>2. Typed /\ Order /\ [Next]_vars => (Typed /\ Order)'
    BY NextTyped, NextOrder
  <1> QED
    BY <1>1, <1>2, PTL DEF Spec

(* In turn, a space never has two active profiles: completed activations   *)
(* archive the previous one, failed ones put theirs back, rollbacks swap   *)
(* (activate and rollback of production_rag_activation_service.py).        *)
THEOREM OneActive == Spec => []OneActivePerSpace
  BY AlwaysOrder, OrderServes, PTL

(* In turn, public_rag_scope_resolver finds the newest activated candidate *)
(* with its profile active, through any chain of rollbacks.                *)
THEOREM NewestServed == Spec => []NewestIsServed
  BY AlwaysOrder, OrderServes, PTL

-----------------------------------------------------------------------------
(* Builds and approvals.  A request that is approved has one approval left *)
(* to build with.                                                          *)
Started(r) == {c \in Candidates : candidate[c].request = r /\ candidate[c].status # "building"}
Ready(r)   == IF request[r] = "approved" THEN 1 ELSE 0
Count      == \A r \in Requests : Cardinality(Started(r)) + Ready(r) <= Cardinality(Given(r))

LEMMA Sizes ==
  ASSUME Typed, NEW r \in Requests
  PROVE  /\ IsFiniteSet(Started(r)) /\ Cardinality(Started(r)) \in Nat
         /\ IsFiniteSet(Given(r)) /\ Cardinality(Given(r)) \in Nat
  <1>1. IsFiniteSet(Candidates)
    BY BoundsAssumption, FS_Interval DEF Candidates
  <1>2. Started(r) \subseteq Candidates
    BY DEF Started
  <1>3. approvals[r] \in Seq({"pending", "approved", "lapsed", "expired"})
    BY DEF Typed, TypeOK
  <1>4. IsFiniteSet(1 .. Len(approvals[r])) /\ Given(r) \subseteq 1 .. Len(approvals[r])
    <2>1. Len(approvals[r]) \in Int /\ DOMAIN approvals[r] = 1 .. Len(approvals[r])
      BY <1>3
    <2>2. IsFiniteSet(1 .. Len(approvals[r]))
      BY <2>1, FS_Interval
    <2> QED
      BY <2>1, <2>2 DEF Given
  <1>5. IsFiniteSet(Started(r)) /\ IsFiniteSet(Given(r))
    BY <1>1, <1>2, <1>4, FS_Subset
  <1> QED
    BY <1>5, FS_CardinalityType

LEMMA MoreGiven ==
  ASSUME Typed, Typed', Count, NEW r \in Requests,
         Started(r)' \subseteq Started(r), Given(r) \subseteq Given(r)',
         request'[r] = "approved" => request[r] = "approved"
  PROVE  Cardinality(Started(r))' + Ready(r)' <= Cardinality(Given(r))'
  <1>1. /\ IsFiniteSet(Started(r)) /\ Cardinality(Started(r)) \in Nat
        /\ IsFiniteSet(Given(r)) /\ Cardinality(Given(r)) \in Nat
    BY Sizes
  <1>2. (/\ IsFiniteSet(Started(r)) /\ Cardinality(Started(r)) \in Nat
         /\ IsFiniteSet(Given(r)) /\ Cardinality(Given(r)) \in Nat)'
    BY Sizes, PTL
  <1>3. Cardinality(Started(r)') <= Cardinality(Started(r))
    BY <1>1, FS_Subset
  <1>4. Cardinality(Given(r)) <= Cardinality(Given(r)')
    BY <1>2, FS_Subset
  <1>5. Ready(r)' <= Ready(r) /\ Ready(r) \in Nat /\ Ready(r)' \in Nat
    BY DEF Ready
  <1>6. Cardinality(Started(r)) + Ready(r) <= Cardinality(Given(r))
    BY DEF Count
  <1> QED
    BY <1>1, <1>2, <1>3, <1>4, <1>5, <1>6

LEMMA ApproveCount ==
  ASSUME Typed, Typed', Count, NEW r \in Requests, NEW i \in DOMAIN approvals[r], Approve(r, i)
  PROVE  Count'
  <1> SUFFICES ASSUME NEW q \in Requests
               PROVE  Cardinality(Started(q))' + Ready(q)' <= Cardinality(Given(q))'
    BY DEF Count
  <1>1. Started(q)' = Started(q)
    BY DEF Approve, Started
  <1>2. CASE q # r
    <2>1. Given(q)' = Given(q) /\ request'[q] = request[q]
      BY <1>2 DEF Approve, Given, Typed, TypeOK
    <2> QED
      BY <1>1, <2>1, MoreGiven
  <1>3. CASE q = r
    <2>1. approvals[r] \in Seq({"pending", "approved", "lapsed", "expired"})
      BY DEF Typed, TypeOK
    <2>2. approvals'[r] = [approvals[r] EXCEPT ![i] = "approved"] /\ approvals[r][i] = "pending"
      BY DEF Approve, Typed, TypeOK
    <2>3. Given(r)' = Given(r) \cup {i} /\ i \notin Given(r)
      BY <2>1, <2>2 DEF Given
    <2>4. IsFiniteSet(Given(r)) /\ Cardinality(Given(r)) \in Nat /\ Cardinality(Started(r)) \in Nat
      BY Sizes
    <2>5. Cardinality(Given(r)') = Cardinality(Given(r)) + 1
      BY <2>3, <2>4, FS_AddElement
    <2>6. Ready(r)' <= Ready(r) + 1 /\ Ready(r) \in Nat /\ Ready(r)' \in Nat
      BY DEF Ready
    <2>7. Cardinality(Started(r)) + Ready(r) <= Cardinality(Given(r))
      BY DEF Count
    <2> QED
      BY <1>1, <1>3, <2>4, <2>5, <2>6, <2>7
  <1> QED
    BY <1>2, <1>3

LEMMA BuildCount ==
  ASSUME Typed, Typed', Count, NEW r \in Requests, NEW c \in Candidates, BuildCandidate(r, c)
  PROVE  Count'
  <1> SUFFICES ASSUME NEW q \in Requests
               PROVE  Cardinality(Started(q))' + Ready(q)' <= Cardinality(Given(q))'
    BY DEF Count
  <1>1. PICK linked \in BOOLEAN, s \in {"building", "built", "failed"} :
          candidate' = [candidate EXCEPT ![c] = [request |-> r, linked |-> linked,
                          snapshot |-> NoProfile, status |-> s]]
    BY DEF BuildCandidate, Built
  <1>2. \A d \in Candidates : d # c => candidate'[d] = candidate[d]
    BY <1>1 DEF Typed, TypeOK
  <1>3. candidate'[c].request = r /\ candidate'[c].status = s
    BY <1>1 DEF Typed, TypeOK
  <1>4. Given(q)' = Given(q)
    BY DEF BuildCandidate, Given
  <1>5. request'[q] = "approved" => request[q] = "approved"
    BY DEF BuildCandidate, Typed, TypeOK
  <1>6. CASE q # r \/ s = "building"
    <2>1. Started(q)' \subseteq Started(q)
      BY <1>2, <1>3, <1>6 DEF Started
    <2> QED
      BY <2>1, <1>4, <1>5, MoreGiven
  <1>7. CASE q = r /\ s # "building"
    <2>1. Started(r)' \subseteq Started(r) \cup {c}
      BY <1>2 DEF Started
    <2>2. request[r] = "approved" /\ request'[r] # "approved"
      <3>1. candidate'[c].status # "building"
        BY <1>3, <1>7
      <3>2. ~Built(r, c, FALSE, "building")
        BY <3>1 DEF Built, Typed, TypeOK
      <3> QED
        BY <3>2 DEF BuildCandidate, Typed, TypeOK
    <2>3. IsFiniteSet(Started(r)) /\ Cardinality(Started(r)) \in Nat /\ Cardinality(Given(r)) \in Nat
      BY Sizes
    <2>4. IsFiniteSet(Started(r) \cup {c})
          /\ Cardinality(Started(r) \cup {c}) <= Cardinality(Started(r)) + 1
      <3>1. Cardinality(Started(r) \cup {c}) =
              IF c \in Started(r) THEN Cardinality(Started(r)) ELSE Cardinality(Started(r)) + 1
        BY <2>3, FS_AddElement
      <3>2. IsFiniteSet(Started(r) \cup {c})
        BY <2>3, FS_AddElement
      <3>3. Cardinality(Started(r)) \in Nat
        BY <2>3
      <3> HIDE DEF Started
      <3> QED
        BY <3>1, <3>2, <3>3
    <2>5. Cardinality(Started(r)') <= Cardinality(Started(r) \cup {c})
          /\ Cardinality(Started(r)') \in Nat /\ Cardinality(Started(r) \cup {c}) \in Nat
      BY <2>1, <2>4, FS_Subset, FS_CardinalityType
    <2>6. Cardinality(Started(r)) + 1 <= Cardinality(Given(r))
      BY <2>2 DEF Count, Ready
    <2>7. Ready(r)' = 0
      BY <2>2 DEF Ready
    <2> QED
      BY <1>4, <1>7, <2>3, <2>4, <2>5, <2>6, <2>7
  <1> QED
    BY <1>6, <1>7

(* A later change of one row does not start a build. *)
LEMMA RowChangeStarts ==
  ASSUME Typed, NEW c \in Candidates, NEW r \in Requests,
         \A d \in Candidates : d # c => candidate'[d] = candidate[d],
         candidate'[c].request = candidate[c].request,
         candidate[c].status # "building"
  PROVE  Started(r)' \subseteq Started(r)
  BY DEF Started

LEMMA InitCount == Init => Count
  <1> SUFFICES ASSUME Init, NEW r \in Requests
               PROVE  Cardinality(Started(r)) + Ready(r) <= Cardinality(Given(r))
    BY DEF Count
  <1>1. Started(r) = {} /\ Ready(r) = 0 /\ Given(r) = {}
    BY NothingAssumption DEF Init, Started, Ready, Given
  <1> QED
    BY <1>1, FS_EmptySet

LEMMA NextCount == Typed /\ Count /\ [Next]_vars => Count'
  <1> SUFFICES ASSUME Typed, Count, [Next]_vars PROVE Count'
    OBVIOUS
  <1>1. Typed'
    BY NextTyped
  <1>2. ASSUME \A r \in Requests : Started(r)' \subseteq Started(r),
               \A r \in Requests : Given(r) \subseteq Given(r)',
               \A r \in Requests : request'[r] = "approved" => request[r] = "approved"
        PROVE  Count'
    BY <1>1, <1>2, MoreGiven DEF Count
  <1>3. CASE UNCHANGED <<request, approvals, candidate>>
    <2>1. \A r \in Requests : Started(r)' = Started(r) /\ Given(r)' = Given(r)
      BY <1>3 DEF Started, Given
    <2> QED
      BY <1>2, <1>3, <2>1
  <1>4. ASSUME NEW r \in Requests, CreateRequest(r) \/ SubmitForReview(r) PROVE Count'
    <2>1. \A q \in Requests : Started(q)' = Started(q) /\ Given(q)' = Given(q)
      BY <1>4 DEF CreateRequest, SubmitForReview, Started, Given
    <2>2. \A q \in Requests : request'[q] = "approved" => request[q] = "approved"
      BY <1>4 DEF CreateRequest, SubmitForReview, Typed, TypeOK
    <2> QED
      BY <1>2, <2>1, <2>2
  <1>5. ASSUME NEW r \in Requests, RequestApproval(r) PROVE Count'
    <2>1. \A q \in Requests : Started(q)' = Started(q)
      BY <1>5 DEF RequestApproval, Started
    <2>2. ASSUME NEW q \in Requests PROVE Given(q) \subseteq Given(q)'
      <3>1. approvals[q] \in Seq({"pending", "approved", "lapsed", "expired"})
        BY DEF Typed, TypeOK
      <3>2. approvals'[q] = approvals[q] \/ approvals'[q] = Append(approvals[q], "pending")
        BY <1>5 DEF RequestApproval, Typed, TypeOK
      <3> QED
        BY <3>1, <3>2 DEF Given
    <2> QED
      BY <1>2, <1>5, <2>1, <2>2 DEF RequestApproval
  <1>6. ASSUME NEW r \in Requests, NEW i \in DOMAIN approvals[r], ApprovalLapses(r, i) PROVE Count'
    <2>1. \A q \in Requests : Started(q)' = Started(q)
      BY <1>6 DEF ApprovalLapses, Started
    <2>2. \A q \in Requests : Given(q) \subseteq Given(q)'
      BY <1>6 DEF ApprovalLapses, Given, Typed, TypeOK
    <2> QED
      BY <1>2, <1>6, <2>1, <2>2 DEF ApprovalLapses
  <1>7. ASSUME NEW c \in Candidates, RunValidation(c) PROVE Count'
    <2>1. candidate[c] \in Candidate /\ candidate[c].status = "built"
      BY <1>7 DEF RunValidation, Typed, TypeOK
    <2>2. candidate'[c].request = candidate[c].request
          /\ \A d \in Candidates : d # c => candidate'[d] = candidate[d]
      BY <1>7, <2>1 DEF RunValidation, Typed, TypeOK, Candidate
    <2>3. \A q \in Requests : Started(q)' \subseteq Started(q)
      BY <2>1, <2>2, RowChangeStarts
    <2> QED
      BY <1>2, <1>7, <2>3 DEF RunValidation, Given
  <1>8. ASSUME NEW c \in Candidates, RefuseLapsed(c) PROVE Count'
    <2>1. \A q \in Requests : Started(q)' = Started(q)
      BY <1>8 DEF RefuseLapsed, Started
    <2>2. \A q \in Requests : Given(q) \subseteq Given(q)'
      BY <1>8 DEF RefuseLapsed, Given, Typed, TypeOK
    <2> QED
      BY <1>2, <1>8, <2>1, <2>2 DEF RefuseLapsed
  <1>9. ASSUME NEW c \in Candidates, Activate(c) PROVE Count'
    <2>1. PICK prev \in Previous(c), s \in {"validated", "failed", "activated"} :
             Recorded(c, prev, s)
      BY <1>9, ActivateShape
    <2>2. prev \in Profiles \cup {NoProfile} /\ candidate[c].status = "validated"
      BY <1>9, ActivateShape
    <2>3. \A q \in Requests : Started(q)' \subseteq Started(q)
      BY <2>1, <2>2, RecordedRow, RowChangeStarts
    <2>4. \A q \in Requests : Given(q)' = Given(q)
      BY <1>9 DEF Activate, Given
    <2>5. \A q \in Requests : request'[q] = "approved" => request[q] = "approved"
      BY <1>9 DEF Activate, ActivateDies, ActivateFails, ActivateFailsHalf, ActivateCompletes,
                  Typed, TypeOK
    <2> QED
      BY <1>2, <2>3, <2>4, <2>5
  <1>10. ASSUME NEW c \in Candidates, Rollback(c) PROVE Count'
    <2>1. candidate[c] \in Candidate /\ candidate[c].status # "building"
      BY <1>10 DEF Rollback, Typed, TypeOK, Rows
    <2>2. candidate' = candidate \/ candidate' = [candidate EXCEPT ![c].status = "superseded"]
      BY <1>10 DEF Rollback
    <2>3. candidate'[c].request = candidate[c].request
          /\ \A d \in Candidates : d # c => candidate'[d] = candidate[d]
      BY <2>1, <2>2 DEF Typed, TypeOK, Candidate
    <2>4. \A q \in Requests : Started(q)' \subseteq Started(q)
      BY <2>1, <2>3, RowChangeStarts
    <2> QED
      BY <1>2, <1>10, <2>4 DEF Rollback, Given
  <1>11. ASSUME NEW p \in Profiles, ValidateProfile(p) \/ ActivateProfile(p) PROVE Count'
    BY <1>3, <1>11 DEF ValidateProfile, ActivateProfile
  <1>12. CASE UNCHANGED vars
    BY <1>3, <1>12 DEF vars
  <1> QED
    BY <1>1, <1>4, <1>5, <1>6, <1>7, <1>8, <1>9, <1>10, <1>11, <1>12, ApproveCount, BuildCount
       DEF Next

LEMMA CountBounds == Typed /\ Count => OneBuildPerApproval
  <1> SUFFICES ASSUME Typed, Count, NEW r \in Requests
               PROVE  Cardinality(Started(r)) <= Cardinality(Given(r))
    BY DEF OneBuildPerApproval, Started
  <1>1. Cardinality(Started(r)) \in Nat /\ Cardinality(Given(r)) \in Nat /\ Ready(r) \in Nat
    BY Sizes DEF Ready
  <1> QED
    BY <1>1 DEF Count

(* However often a request is approved again and whichever builds die, no  *)
(* more candidates are built than approvals were given (build_candidate's  *)
(* status check and approve's two transactions).                           *)
THEOREM BuildsApproved == Spec => []OneBuildPerApproval
  <1>1. Init => Typed /\ Count
    BY InitTyped, InitCount
  <1>2. Typed /\ Count /\ [Next]_vars => (Typed /\ Count)'
    BY NextTyped, NextCount
  <1>3. Typed /\ Count => OneBuildPerApproval
    BY CountBounds
  <1> QED
    BY <1>1, <1>2, <1>3, PTL DEF Spec
=============================================================================
