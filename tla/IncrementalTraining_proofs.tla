-------------------- MODULE IncrementalTraining_proofs --------------------
(***************************************************************************)
(* Proofs about IncrementalTraining: types, what dataset versions hold,    *)
(* what runs were started for, decisions on checkpoints, and the chain of  *)
(* ReviewedModels behind a model in staging.                               *)
(***************************************************************************)
EXTENDS IncrementalTraining, TLAPS

-----------------------------------------------------------------------------
(* Types. *)

LEMMA InitTyped == Init => TypeOK
  BY NothingAssumption, BoundsAssumption
     DEF Init, TypeOK, Example, Record, Promotion, Request, Run, Checkpoint, NoCheckpoint, Jobs

(* A row with some fields changed is a row. *)
LEMMA ChangedCheckpoint ==
  ASSUME NEW c \in Checkpoint,
         NEW s \in {"absent", "created", "verified", "corrupt", "evaluation_pending",
                    "evaluated", "accepted_candidate", "rejected"},
         NEW d \in {"none", "accepted", "rejected", "needs_more_testing"},
         NEW j \in Jobs \cup {0}
  PROVE  /\ [c EXCEPT !.status = s] \in Checkpoint
         /\ [c EXCEPT !.job = j] \in Checkpoint
         /\ [c EXCEPT !.decision = d] \in Checkpoint
         /\ [c EXCEPT !.regressed = TRUE] \in Checkpoint
         /\ [c EXCEPT !.reported = TRUE] \in Checkpoint
         /\ [c EXCEPT !.model = TRUE] \in Checkpoint
  BY Zenon DEF Checkpoint

LEMMA ChangedPromotion ==
  ASSUME NEW p \in Promotion, NEW S \in SUBSET Examples, NEW R \in SUBSET Records,
         NEW s \in {"absent", "draft", "awaiting_approval", "approved", "lapsed",
                    "expired", "ready"}
  PROVE  /\ [p EXCEPT !.status = s] \in Promotion
         /\ [[[p EXCEPT !.status = s] EXCEPT !.selected = S] EXCEPT !.replay = R] \in Promotion
         /\ [[p EXCEPT !.status = s] EXCEPT !.items = R] \in Promotion
  <1>1. [p EXCEPT !.status = s] \in Promotion
    BY Zenon DEF Promotion
  <1>2. [[p EXCEPT !.status = s] EXCEPT !.selected = S] \in Promotion
    BY <1>1, Zenon DEF Promotion
  <1> QED
    BY <1>1, <1>2, Zenon DEF Promotion

LEMMA ChangedRecord ==
  ASSUME NEW d \in Record, NEW t \in Texts \cup Segments, NEW s \in {"absent", "review", "approved"}
  PROVE  [d EXCEPT !.status = s] \in Record /\ [d EXCEPT !.text = t] \in Record
  BY Zenon DEF Record

LEMMA ChangedRequest ==
  ASSUME NEW q \in Request,
         NEW s \in {"absent", "draft", "awaiting_approval", "approved", "rejected", "started"}
  PROVE  [q EXCEPT !.status = s] \in Request
  BY Zenon DEF Request

LEMMA ChangedRun ==
  ASSUME NEW r \in Run, NEW s \in {"absent", "queued", "completed", "failed", "cancelled"}
  PROVE  [r EXCEPT !.status = s] \in Run
  BY Zenon DEF Run

(* The operations on records. *)
RecordStep(r) ==
    \/ \E text \in Texts : AddRecord(r, text) \/ EditRecord(r, text)
    \/ \E text \in Segments : BridgeRecord(r, text)
    \/ ReviewRecord(r)

(* The operations that only move a promotion on. *)
StatusStep(p) ==
    \/ SubmitPromotion(p) \/ ApprovePromotion(p)
    \/ PromotionLapses(p) \/ RefuseLapsedPromotion(p)

DataNext ==
    \/ \E e \in Examples : Review(e)
    \/ \E r \in Records : RecordStep(r)
    \/ \E p \in Promotions :
          \/ \E S \in SUBSET Examples, R \in SUBSET Rows : CreatePromotion(p, S, R)
          \/ StatusStep(p) \/ Materialize(p)

(* What a record step does: one row, made or changed. *)
LEMMA RecordShape ==
  ASSUME TypeOK, NEW r \in Records, RecordStep(r)
  PROVE  /\ UNCHANGED <<example, promotion, runs, ckpt, orderly>>
         /\ record'[r].status \in {"review", "approved"}
         /\ record' = [record EXCEPT ![r] = record'[r]]
         /\ \/ Made(r) /\ record'[r].text = record[r].text
            \/ record'[r].text \in Texts /\ Free(record'[r].text)
            \/ ~Made(r) /\ record'[r].text \in Segments
         /\ record'[r] \in Record
  <1>1. record[r] \in Record /\ record \in [Records -> Record]
    BY DEF TypeOK
  <1>2. ASSUME NEW text \in Texts, AddRecord(r, text)
        PROVE  /\ record' = [record EXCEPT ![r] = [status |-> "review", text |-> text]]
               /\ Free(text) /\ UNCHANGED <<example, promotion, runs, ckpt, orderly>>
    BY <1>2 DEF AddRecord
  <1>3. ASSUME NEW text \in Texts, EditRecord(r, text)
        PROVE  /\ record' = [record EXCEPT ![r] = [record[r] EXCEPT !.text = text]]
               /\ record[r].status = "review"
               /\ Free(text) /\ UNCHANGED <<example, promotion, runs, ckpt, orderly>>
    BY <1>3 DEF EditRecord
  <1>4. ASSUME NEW text \in Texts
        PROVE  /\ [record[r] EXCEPT !.text = text] \in Record
               /\ [record[r] EXCEPT !.text = text].text = text
               /\ [record[r] EXCEPT !.text = text].status = record[r].status
    BY <1>1, ChangedRecord, Zenon DEF Record
  <1>5. ASSUME ReviewRecord(r)
        PROVE  \E s \in {"review", "approved"} :
                 /\ record' = [record EXCEPT ![r] = [record[r] EXCEPT !.status = s]]
                 /\ Made(r) /\ UNCHANGED <<example, promotion, runs, ckpt, orderly>>
    BY <1>5 DEF ReviewRecord
  <1>6. ASSUME NEW s \in {"review", "approved"}
        PROVE  /\ [record[r] EXCEPT !.status = s] \in Record
               /\ [record[r] EXCEPT !.status = s].status = s
               /\ [record[r] EXCEPT !.status = s].text = record[r].text
    BY <1>1, ChangedRecord, Zenon DEF Record
  <1>7. CASE \E text \in Texts : AddRecord(r, text)
    BY <1>1, <1>2, <1>7 DEF Record
  <1>8. CASE \E text \in Texts : EditRecord(r, text)
    <2>1. PICK text \in Texts : EditRecord(r, text)
      BY <1>8
    <2>2. record'[r] = [record[r] EXCEPT !.text = text]
      BY <1>1, <1>3, <2>1
    <2> QED
      BY <1>3, <1>4, <2>1, <2>2
  <1>9. CASE \E text \in Segments : BridgeRecord(r, text)
    <2>1. PICK text \in Segments :
            /\ record' = [record EXCEPT ![r] = [status |-> "approved", text |-> text]]
            /\ ~Made(r) /\ UNCHANGED <<example, promotion, runs, ckpt, orderly>>
      BY <1>9 DEF BridgeRecord
    <2>2. record'[r] = [status |-> "approved", text |-> text]
      BY <1>1, <2>1
    <2>3. record'[r].status = "approved" /\ record'[r].text = text /\ record'[r] \in Record
      BY <2>2 DEF Record
    <2> QED
      BY <2>1, <2>2, <2>3
  <1>10. CASE ReviewRecord(r)
    <2>1. PICK s \in {"review", "approved"} :
            /\ record' = [record EXCEPT ![r] = [record[r] EXCEPT !.status = s]]
            /\ Made(r) /\ UNCHANGED <<example, promotion, runs, ckpt, orderly>>
      BY <1>5, <1>10
    <2>2. record'[r] = [record[r] EXCEPT !.status = s]
      BY <1>1, <2>1
    <2> QED
      BY <1>6, <2>1, <2>2
  <1> QED
    BY <1>7, <1>8, <1>9, <1>10 DEF RecordStep

(* What a materialization does: new rows, each of another example, and at  *)
(* its end a version of records that are approved.                         *)
LEMMA MaterializeShape ==
  ASSUME NEW p \in Promotions, Materialize(p)
  PROVE  /\ UNCHANGED <<example, runs, ckpt, orderly>> /\ promotion[p].status = "approved"
         /\ \E N \in SUBSET (Records \ Rows) :
            \E of \in [N -> promotion[p].selected], left \in SUBSET N :
               /\ \A r, s \in N : of[r] = of[s] => r = s
               /\ \A r \in N : Free(TextOf(of[r]))
               /\ MakeRecords(N, of, left)
               /\ \/ UNCHANGED promotion
                  \/ \E items \in SUBSET (N \cup promotion[p].replay) :
                       /\ \A r \in items : record'[r].status = "approved"
                       /\ promotion' = [promotion EXCEPT ![p].status = "ready",
                                                         ![p].items = items]
  <1>1. PICK N \in SUBSET (Records \ Rows) : \E of \in Injection(N, promotion[p].selected) :
          /\ \A r \in N : Free(TextOf(of[r]))
          /\ \/ MakeRecords(N, of, {}) /\ Build(p, N)
             \/ /\ \E left \in {{}} \cup {{r} : r \in N} : MakeRecords(N, of, left)
                /\ UNCHANGED promotion
    BY DEF Materialize
  <1>2. PICK of \in Injection(N, promotion[p].selected) :
          /\ \A r \in N : Free(TextOf(of[r]))
          /\ \/ MakeRecords(N, of, {}) /\ Build(p, N)
             \/ /\ \E left \in {{}} \cup {{r} : r \in N} : MakeRecords(N, of, left)
                /\ UNCHANGED promotion
    BY <1>1
  <1>3. of \in [N -> promotion[p].selected] /\ \A r, s \in N : of[r] = of[s] => r = s
    BY DEF Injection, IsInjective
  <1>4. CASE MakeRecords(N, of, {}) /\ Build(p, N)
    BY <1>2, <1>3, <1>4 DEF Build, Materialize
  <1>5. CASE /\ \E left \in {{}} \cup {{r} : r \in N} : MakeRecords(N, of, left)
             /\ UNCHANGED promotion
    BY <1>2, <1>3, <1>5 DEF Materialize
  <1> QED
    BY <1>2, <1>4, <1>5

LEMMA MaterializeItems ==
  ASSUME TypeOK, NEW p \in Promotions, Materialize(p), ~UNCHANGED promotion
  PROVE  \E items \in SUBSET Records :
            promotion' = [promotion EXCEPT ![p].status = "ready", ![p].items = items]
  <1>1. PICK N \in SUBSET (Records \ Rows) : \E items \in SUBSET (N \cup promotion[p].replay) :
          promotion' = [promotion EXCEPT ![p].status = "ready", ![p].items = items]
    BY MaterializeShape
  <1>2. N \cup promotion[p].replay \subseteq Records
    BY DEF TypeOK, Promotion
  <1> QED
    BY <1>1, <1>2

LEMMA DataTyped ==
  ASSUME TypeOK, DataNext
  PROVE  TypeOK'
  <1>1. ASSUME NEW e \in Examples, Review(e) PROVE TypeOK'
    <2>1. UNCHANGED <<record, promotion, runs, ckpt>> /\ orderly' \in BOOLEAN
      BY <1>1 DEF Review, TypeOK, Selected
    <2>2. example' \in [Examples -> Example]
      <3>1. PICK ok \in BOOLEAN, t \in {example[e].text, example[e].text + 1} :
              /\ t <= MaxTexts
              /\ \/ example' = [example EXCEPT ![e] = [text |-> t, endorsed |-> ok,
                                  status |-> IF ok THEN "approved" ELSE "rejected"]]
                 \/ example' = [example EXCEPT ![e].text = t, ![e].endorsed = ok]
        BY <1>1 DEF Review
      <3>2. t \in 0 .. MaxTexts
        BY <3>1, BoundsAssumption DEF TypeOK, Example
      <3>3. [text |-> t, endorsed |-> ok, status |-> IF ok THEN "approved" ELSE "rejected"]
              \in Example
        BY <3>2 DEF Example
      <3>4. [[example[e] EXCEPT !.text = t] EXCEPT !.endorsed = ok] \in Example
        <4>1. example[e] \in Example
          BY DEF TypeOK
        <4>2. [example[e] EXCEPT !.text = t] \in Example
          BY <3>2, <4>1, Zenon DEF Example
        <4> QED
          BY <4>2, Zenon DEF Example
      <3> QED
        BY <3>1, <3>3, <3>4 DEF TypeOK
    <2> QED
      BY <2>1, <2>2 DEF TypeOK, runs
  <1>2. ASSUME NEW p \in Promotions, NEW S \in SUBSET Examples, NEW R \in SUBSET Rows,
               CreatePromotion(p, S, R)
        PROVE TypeOK'
    <2>1. R \in SUBSET Records
      BY DEF Rows
    <2>2. [[[promotion[p] EXCEPT !.status = "draft"] EXCEPT !.selected = S] EXCEPT !.replay = R]
             \in Promotion
      BY <2>1, ChangedPromotion DEF TypeOK
    <2>3. promotion' \in [Promotions -> Promotion]
      BY <1>2, <2>2 DEF CreatePromotion, TypeOK
    <2> QED
      BY <1>2, <2>3 DEF CreatePromotion, TypeOK, runs
  <1>3. ASSUME NEW p \in Promotions, StatusStep(p)
        PROVE TypeOK'
    <2>1. PICK s \in {"awaiting_approval", "approved", "lapsed", "expired"} :
            promotion' = [promotion EXCEPT ![p].status = s]
      BY <1>3 DEF StatusStep, SubmitPromotion, ApprovePromotion, PromotionLapses,
                  RefuseLapsedPromotion
    <2>2. UNCHANGED <<example, record, runs, ckpt, orderly>>
      BY <1>3 DEF StatusStep, SubmitPromotion, ApprovePromotion, PromotionLapses,
                  RefuseLapsedPromotion
    <2>3. promotion' \in [Promotions -> Promotion]
      BY <2>1, ChangedPromotion DEF TypeOK
    <2> QED
      BY <2>2, <2>3 DEF TypeOK, runs
  <1>4. ASSUME NEW p \in Promotions, Materialize(p) PROVE TypeOK'
    <2>1. PICK N \in SUBSET (Records \ Rows) :
          \E of \in [N -> promotion[p].selected], left \in SUBSET N :
             /\ MakeRecords(N, of, left)
             /\ \/ UNCHANGED promotion
                \/ \E items \in SUBSET (N \cup promotion[p].replay) :
                     promotion' = [promotion EXCEPT ![p].status = "ready", ![p].items = items]
      BY <1>4, MaterializeShape
    <2>2. PICK of \in [N -> promotion[p].selected], left \in SUBSET N :
             /\ MakeRecords(N, of, left)
             /\ \/ UNCHANGED promotion
                \/ \E items \in SUBSET (N \cup promotion[p].replay) :
                     promotion' = [promotion EXCEPT ![p].status = "ready", ![p].items = items]
      BY <2>1
    <2>3. record' \in [Records -> Record]
      <3>1. \A r \in N : of[r] \in Examples
        BY <2>1, <2>2 DEF TypeOK, Promotion
      <3>2. \A r \in N : TextOf(of[r]) \in Texts
        BY <3>1 DEF TypeOK, Example, TextOf, Texts
      <3>3. \A r \in N : [status |-> IF r \in left THEN "review" ELSE "approved",
                         text |-> TextOf(of[r])] \in Record
        BY <3>2 DEF Record
      <3> QED
        BY <2>2, <3>3 DEF MakeRecords, TypeOK
    <2>4. promotion' \in [Promotions -> Promotion]
      <3>1. CASE UNCHANGED promotion
        BY <3>1 DEF TypeOK
      <3>2. ASSUME NEW items \in SUBSET (N \cup promotion[p].replay),
                   promotion' = [promotion EXCEPT ![p].status = "ready", ![p].items = items]
            PROVE  promotion' \in [Promotions -> Promotion]
        <4>1. items \in SUBSET Records
          BY <2>1, <3>2 DEF TypeOK, Promotion
        <4>2. [[promotion[p] EXCEPT !.status = "ready"] EXCEPT !.items = items] \in Promotion
          BY <4>1, ChangedPromotion DEF TypeOK
        <4> QED
          BY <3>2, <4>2 DEF TypeOK
      <3> QED
        BY <2>2, <3>1, <3>2
    <2> QED
      BY <1>4, <2>3, <2>4, MaterializeShape DEF TypeOK, runs
  <1>5. ASSUME NEW r \in Records, RecordStep(r) PROVE TypeOK'
    <2>1. record' \in [Records -> Record]
      BY <1>5, RecordShape DEF TypeOK
    <2> QED
      BY <1>5, <2>1, RecordShape DEF TypeOK, runs
  <1> QED
    BY <1>1, <1>2, <1>3, <1>4, <1>5 DEF DataNext

(* An approval that changes its status leaves a list of approvals. *)
LEMMA ChangedApproval ==
  ASSUME TypeOK, NEW q \in Requests, NEW i \in DOMAIN approvals[q],
         NEW s \in {"pending", "approved", "rejected", "lapsed", "expired"},
         approvals' = [approvals EXCEPT ![q][i] = s]
  PROVE  approvals' \in [Requests -> Seq({"pending", "approved", "rejected", "lapsed", "expired"})]
  <1> DEFINE A == {"pending", "approved", "rejected", "lapsed", "expired"}
             new == [approvals[q] EXCEPT ![i] = s]
  <1>1. approvals[q] \in Seq(A) /\ approvals \in [Requests -> Seq(A)]
    BY DEF TypeOK
  <1>2. new \in Seq(A)
    BY <1>1
  <1>3. approvals' = [approvals EXCEPT ![q] = new]
    OBVIOUS
  <1> HIDE DEF new, A
  <1>4. approvals' \in [Requests -> Seq(A)]
    BY <1>1, <1>2, <1>3
  <1> QED
    BY <1>4 DEF A

LEMMA RequestsTyped ==
  ASSUME TypeOK, NEW q \in Requests,
         \/ \E p \in Promotions : CreateRunRequest(q, p)
         \/ SubmitRunRequest(q) \/ RequestApproval(q)
         \/ \E i \in DOMAIN approvals[q] :
               Decide(q, i) \/ ApprovalLapses(q, i) \/ RefuseLapsedApproval(q, i)
  PROVE  TypeOK'
  <1>1. ASSUME NEW p \in Promotions, CreateRunRequest(q, p) PROVE TypeOK'
    BY <1>1 DEF CreateRunRequest, TypeOK, Request, data
  <1>2. CASE SubmitRunRequest(q)
    BY <1>2, ChangedRequest DEF SubmitRunRequest, TypeOK, data
  <1>3. CASE RequestApproval(q)
    BY <1>3 DEF RequestApproval, TypeOK, data
  <1>4. ASSUME NEW i \in DOMAIN approvals[q], Decide(q, i) PROVE TypeOK'
    <2>1. PICK s \in {"approved", "rejected"} :
            /\ approvals' = [approvals EXCEPT ![q][i] = s]
            /\ request' \in {request, [request EXCEPT ![q].status = s]}
      BY <1>4 DEF Decide
    <2>2. request' \in [Requests -> Request]
      <3>1. [request[q] EXCEPT !.status = s] \in Request
        BY ChangedRequest DEF TypeOK
      <3> QED
        BY <2>1, <3>1 DEF TypeOK
    <2>3. approvals' \in [Requests -> Seq({"pending", "approved", "rejected", "lapsed", "expired"})]
      BY <2>1, ChangedApproval
    <2> QED
      BY <1>4, <2>2, <2>3 DEF Decide, TypeOK, data
  <1>5. ASSUME NEW i \in DOMAIN approvals[q], ApprovalLapses(q, i) \/ RefuseLapsedApproval(q, i)
        PROVE TypeOK'
    BY <1>5, ChangedApproval DEF ApprovalLapses, RefuseLapsedApproval, TypeOK, data
  <1> QED
    BY <1>1, <1>2, <1>3, <1>4, <1>5

LEMMA EnqueueTyped ==
  ASSUME TypeOK, NEW j \in Jobs, Enqueue(j)
  PROVE  /\ job' \in [Jobs -> {"absent", "queued", "completed", "failed", "stopped"}]
         /\ queue' \in Seq(Jobs)
  BY DEF Enqueue, TypeOK

LEMMA TakeTyped ==
  ASSUME TypeOK, NEW s \in {"completed", "failed", "stopped"}, Take(s)
  PROVE  /\ Head(queue) \in Jobs
         /\ job' \in [Jobs -> {"absent", "queued", "completed", "failed", "stopped"}]
         /\ queue' \in Seq(Jobs)
  BY DEF Take, TypeOK

LEMMA RunsTyped ==
  ASSUME TypeOK,
         \/ \E q \in Requests : \E i \in DOMAIN approvals[q] : \E j \in Jobs : StartRun(q, i, j)
         \/ WorkerRuns \/ RunOne
         \/ \E j \in Jobs : QueueJob(j)
  PROVE  TypeOK'
  <1>1. ASSUME NEW q \in Requests, NEW i \in DOMAIN approvals[q], NEW j \in Jobs,
               StartRun(q, i, j)
        PROVE TypeOK'
    <2>1. request' \in [Requests -> Request] /\ serving' \in Jobs \cup {0}
          /\ run' \in [Jobs -> Run]
      <3>1. [request |-> q, status |-> "queued"] \in Run
        BY DEF Run
      <3>2. [request[q] EXCEPT !.status = "started"] \in Request
        BY ChangedRequest DEF TypeOK
      <3> QED
        BY <1>1, <3>1, <3>2 DEF StartRun, TypeOK
    <2> QED
      BY <1>1, <2>1, EnqueueTyped DEF StartRun, TypeOK, data
  <1>2. CASE WorkerRuns
    BY <1>2, TakeTyped DEF WorkerRuns, TypeOK, data
  <1>3. CASE RunOne
    <2>1. serving \in Jobs /\ serving' = 0 /\ UNCHANGED <<data, request, approvals, orderly>>
      BY <1>3 DEF RunOne, TypeOK
    <2>2. \/ UNCHANGED <<job, queue>>
          \/ \E s \in {"completed", "failed", "stopped"} : Take(s)
      BY <1>3 DEF RunOne
    <2>3. /\ job' \in [Jobs -> {"absent", "queued", "completed", "failed", "stopped"}]
          /\ queue' \in Seq(Jobs)
      BY <2>2, TakeTyped DEF TypeOK
    <2>4. run' \in [Jobs -> Run]
      <3>1. PICK s \in {"completed", "failed", "cancelled"} :
              UNCHANGED run \/ run' = [run EXCEPT ![serving].status = s]
        BY <1>3 DEF RunOne, Recorded
      <3>2. [run[serving] EXCEPT !.status = s] \in Run
        BY <2>1, ChangedRun DEF TypeOK
      <3> QED
        BY <2>1, <3>1, <3>2 DEF TypeOK
    <2>5. UNCHANGED ckpt \/ /\ Head(queue) \in Jobs
                            /\ ckpt' = [ckpt EXCEPT ![serving].status = "created",
                                                    ![serving].job = Head(queue)]
      BY <1>3, TakeTyped DEF RunOne
    <2>6. ckpt' \in [Jobs -> Checkpoint]
      <3>1. CASE UNCHANGED ckpt
        BY <3>1 DEF TypeOK
      <3>2. CASE ~UNCHANGED ckpt
        <4> DEFINE c == [ckpt[serving] EXCEPT !.status = "created"]
        <4>1. c \in Checkpoint
          BY <2>1, ChangedCheckpoint DEF TypeOK
        <4>2. [c EXCEPT !.job = Head(queue)] \in Checkpoint
          BY <2>5, <3>2, <4>1, ChangedCheckpoint
        <4> QED
          BY <2>1, <2>5, <3>2, <4>2 DEF TypeOK
      <3> QED
        BY <3>1, <3>2
    <2> QED
      BY <2>1, <2>3, <2>4, <2>6 DEF TypeOK, data
  <1>4. ASSUME NEW j \in Jobs, QueueJob(j) PROVE TypeOK'
    BY <1>4, EnqueueTyped DEF QueueJob, TypeOK, data
  <1> QED
    BY <1>1, <1>2, <1>3, <1>4

LEMMA CheckpointTyped ==
  ASSUME TypeOK, NEW r \in Jobs,
         Verify(r) \/ Evaluate(r) \/ CompareRegressed(r) \/ FinalizeReport(r)
           \/ Accept(r) \/ Reject(r) \/ AskForMore(r)
  PROVE  TypeOK'
  <1>1. UNCHANGED <<data, runs, orderly>>
    BY DEF Verify, Evaluate, CompareRegressed, FinalizeReport, Accept, Reject, AskForMore,
           CheckpointStep
  <1>2. ckpt' \in [Jobs -> Checkpoint]
    <2> DEFINE c == ckpt[r]
               decided == [[c EXCEPT !.model = TRUE] EXCEPT !.decision = "accepted"]
    <2>1. c \in Checkpoint
      BY DEF TypeOK
    <2>2. CASE Verify(r) \/ Evaluate(r)
      <3>1. PICK s \in {"verified", "corrupt", "evaluation_pending", "evaluated"} :
              ckpt' = [ckpt EXCEPT ![r].status = s]
        BY <2>2 DEF Verify, Evaluate
      <3>2. [c EXCEPT !.status = s] \in Checkpoint
        BY <2>1, ChangedCheckpoint
      <3> QED
        BY <3>1, <3>2 DEF TypeOK
    <2>3. CASE CompareRegressed(r) \/ FinalizeReport(r) \/ AskForMore(r)
      BY <2>1, <2>3, ChangedCheckpoint DEF CompareRegressed, FinalizeReport, AskForMore, TypeOK
    <2>4. CASE Accept(r)
      <3>1. [c EXCEPT !.model = TRUE] \in Checkpoint
        BY <2>1, ChangedCheckpoint
      <3>2. decided \in Checkpoint
        BY <3>1, ChangedCheckpoint
      <3>3. [decided EXCEPT !.status = "accepted_candidate"] \in Checkpoint
        BY <3>2, ChangedCheckpoint
      <3> QED
        BY <2>4, <3>1, <3>2, <3>3 DEF Accept, TypeOK
    <2>5. CASE Reject(r)
      <3>1. [c EXCEPT !.decision = "rejected"] \in Checkpoint
        BY <2>1, ChangedCheckpoint
      <3>2. [[c EXCEPT !.decision = "rejected"] EXCEPT !.status = "rejected"] \in Checkpoint
        BY <3>1, ChangedCheckpoint
      <3> QED
        BY <2>5, <3>1, <3>2 DEF Reject, TypeOK
    <2> QED
      BY <2>2, <2>3, <2>4, <2>5
  <1> QED
    BY <1>1, <1>2 DEF TypeOK, data, runs

LEMMA StepTyped == TypeOK /\ [Next]_vars => TypeOK'
  <1> SUFFICES ASSUME TypeOK, [Next]_vars PROVE TypeOK'
    OBVIOUS
  <1>1. CASE UNCHANGED vars
    BY <1>1 DEF vars, data, runs, TypeOK
  <1>2. CASE Next
    BY <1>2, DataTyped, RequestsTyped, RunsTyped, CheckpointTyped
       DEF Next, DataNext, RecordStep, StatusStep
  <1> QED
    BY <1>1, <1>2

(* Type correctness. *)
THEOREM TrainingTyped == Spec => []TypeOK
  BY InitTyped, StepTyped, PTL DEF Spec

-----------------------------------------------------------------------------
(* What a dataset version holds. *)

(* No two records have the same text, those of corpora apart. *)
Distinct == \A r, s \in Rows :
               record[r].text = record[s].text => r = s \/ record[r].text \in Segments

(* What is new in a version is no text of a corpus. *)
NewAreTexts ==
    \A p \in Promotions : \A r \in promotion[p].items \ promotion[p].replay :
        record[r].text \notin Segments

ItemsMade == \A p \in Promotions : promotion[p].items \cup promotion[p].replay \subseteq Rows

OnlyReadyHasItems ==
    \A p \in Promotions : promotion[p].items # {} => promotion[p].status = "ready"

SharedRows ==
    \A p, q \in Promotions : p # q =>
        promotion[p].items \cap promotion[q].items
            \subseteq promotion[p].replay \cup promotion[q].replay

Reviewed ==
    orderly => \A e \in Examples :
                  example[e].status = "approved" \/ Selected(e) => example[e].endorsed

DataInv ==
    /\ Distinct /\ ItemsMade /\ NewAreTexts /\ OnlyReadyHasItems /\ SharedRows
    /\ Reviewed

(* Every operation on requests, runs and checkpoints leaves data alone. *)
LEMMA DataUntouched ==
  ASSUME Next
  PROVE  UNCHANGED <<data, orderly>> \/ DataNext
  <1>1. ASSUME NEW q \in Requests,
               \/ \E p \in Promotions : CreateRunRequest(q, p)
               \/ SubmitRunRequest(q) \/ RequestApproval(q)
               \/ \E i \in DOMAIN approvals[q] :
                     \/ Decide(q, i) \/ ApprovalLapses(q, i) \/ RefuseLapsedApproval(q, i)
                     \/ \E j \in Jobs : StartRun(q, i, j)
        PROVE UNCHANGED <<data, orderly>>
    BY <1>1 DEF CreateRunRequest, SubmitRunRequest, RequestApproval, Decide, ApprovalLapses,
                RefuseLapsedApproval, StartRun
  <1>2. CASE WorkerRuns \/ RunOne
    BY <1>2 DEF WorkerRuns, RunOne
  <1>3. ASSUME NEW j \in Jobs,
               \/ QueueJob(j)
               \/ Verify(j) \/ Evaluate(j) \/ CompareRegressed(j) \/ FinalizeReport(j)
               \/ Accept(j) \/ Reject(j) \/ AskForMore(j)
        PROVE UNCHANGED <<data, orderly>>
    BY <1>3 DEF QueueJob, Verify, Evaluate, CompareRegressed, FinalizeReport, Accept, Reject,
                AskForMore, CheckpointStep
  <1> QED
    BY <1>1, <1>2, <1>3 DEF Next, DataNext, RecordStep, StatusStep

LEMMA ReviewKeepsData ==
  ASSUME TypeOK, DataInv, NEW e \in Examples, Review(e)
  PROVE  DataInv' /\ UNCHANGED promotion
  <1>1. UNCHANGED <<record, promotion>>
    BY DEF Review
  <1>2. (Distinct /\ ItemsMade /\ NewAreTexts /\ OnlyReadyHasItems /\ SharedRows)'
    BY <1>1 DEF DataInv, Distinct, ItemsMade, NewAreTexts, OnlyReadyHasItems, SharedRows,
                Rows, Made
  <1>3. Reviewed'
    <2> SUFFICES ASSUME orderly',  NEW f \in Examples,
                        example'[f].status = "approved" \/ Selected(f)'
                 PROVE  example'[f].endorsed
      BY DEF Reviewed
    <2>1. orderly /\ ~Selected(e)
      BY DEF Review
    <2>2. PICK ok \in BOOLEAN, t \in {example[e].text, example[e].text + 1} :
            example' = [example EXCEPT ![e] = [text |-> t, endorsed |-> ok,
                          status |-> IF ok THEN "approved" ELSE "rejected"]]
      BY <2>1 DEF Review
    <2>3. CASE f = e
      BY <1>1, <2>1, <2>2, <2>3 DEF TypeOK, Selected
    <2>4. CASE f # e
      BY <1>1, <2>1, <2>2, <2>4 DEF TypeOK, Selected, DataInv, Reviewed
    <2> QED
      BY <2>3, <2>4
  <1> QED
    BY <1>1, <1>2, <1>3 DEF DataInv

(* A record keeps its text or takes one that no record has, unless it is   *)
(* made of a corpus.                                                       *)
LEMMA RecordKeepsData ==
  ASSUME TypeOK, DataInv, NEW r \in Records, RecordStep(r)
  PROVE  DataInv' /\ UNCHANGED promotion
  <1>1. /\ UNCHANGED <<example, promotion, orderly>>
        /\ record'[r].status \in {"review", "approved"}
        /\ \/ Made(r) /\ record'[r].text = record[r].text
           \/ record'[r].text \in Texts /\ Free(record'[r].text)
           \/ ~Made(r) /\ record'[r].text \in Segments
    BY RecordShape
  <1>2. \A s \in Records \ {r} : record'[s] = record[s]
    BY RecordShape DEF TypeOK
  <1>3. Rows' = Rows \cup {r}
    BY <1>1, <1>2 DEF Rows, Made
  <1>4. Distinct'
    <2>1. ASSUME NEW s \in Rows, s # r, record'[r].text = record'[s].text
          PROVE  record'[r].text \in Segments
      <3>1. record'[s] = record[s]
        BY <1>2, <2>1 DEF Rows
      <3>2. CASE Made(r) /\ record'[r].text = record[r].text
        BY <2>1, <3>1, <3>2 DEF DataInv, Distinct, Rows
      <3>3. CASE Free(record'[r].text)
        BY <2>1, <3>1, <3>3 DEF Free
      <3> QED
        BY <1>1, <3>2, <3>3
    <2>2. ASSUME NEW s \in Rows \ {r}, NEW t \in Rows \ {r}, record'[s].text = record'[t].text
          PROVE  s = t \/ record'[s].text \in Segments
      BY <1>2, <2>2 DEF DataInv, Distinct, Rows
    <2> QED
      BY <1>3, <2>1, <2>2 DEF Distinct
  <1>5. (ItemsMade /\ OnlyReadyHasItems /\ SharedRows /\ Reviewed)'
    BY <1>1, <1>3 DEF DataInv, ItemsMade, OnlyReadyHasItems, SharedRows, Reviewed, Selected
  <1>6. NewAreTexts'
    <2> SUFFICES ASSUME NEW p \in Promotions, NEW s \in promotion[p].items \ promotion[p].replay
                 PROVE  record'[s].text \notin Segments
      BY <1>1 DEF NewAreTexts
    <2>1. s \in Rows /\ s \in Records /\ record[s].text \notin Segments
      BY DEF DataInv, ItemsMade, NewAreTexts, Rows
    <2>2. CASE s # r
      BY <1>2, <2>1, <2>2
    <2>3. CASE s = r
      BY <1>1, <2>1, <2>3, SegmentsAssumption DEF Rows
    <2> QED
      BY <2>2, <2>3
  <1> QED
    BY <1>1, <1>4, <1>5, <1>6 DEF DataInv

LEMMA CreateKeepsData ==
  ASSUME TypeOK, DataInv, NEW p \in Promotions, NEW S \in SUBSET Examples,
         NEW R \in SUBSET Rows, CreatePromotion(p, S, R)
  PROVE  DataInv' /\ \A q \in Promotions : promotion'[q].items = promotion[q].items
  <1>1. /\ UNCHANGED <<example, record, orderly>>
        /\ \A e \in S : example[e].status = "approved"
        /\ promotion[p].status = "absent"
        /\ promotion' = [promotion EXCEPT ![p].status = "draft", ![p].selected = S,
                                          ![p].replay = R]
    BY DEF CreatePromotion
  <1>2. /\ \A q \in Promotions \ {p} : promotion'[q] = promotion[q]
        /\ promotion'[p] = [[[promotion[p] EXCEPT !.status = "draft"] EXCEPT !.selected = S]
                               EXCEPT !.replay = R]
    BY <1>1 DEF TypeOK
  <1>3. /\ promotion'[p].items = promotion[p].items
        /\ promotion'[p].selected = S /\ promotion'[p].replay = R
    <2>1. promotion[p] \in Promotion
      BY DEF TypeOK
    <2> QED
      BY <1>2, <2>1 DEF Promotion
  <1>4. promotion[p].items = {}
    BY <1>1 DEF DataInv, OnlyReadyHasItems
  <1>5. UNCHANGED Rows
    BY <1>1 DEF Rows, Made
  <1>6. (Distinct /\ ItemsMade)'
    BY <1>1, <1>2, <1>3, <1>5 DEF DataInv, Distinct, ItemsMade
  <1>7. (NewAreTexts /\ OnlyReadyHasItems /\ SharedRows)'
    BY <1>1, <1>2, <1>3, <1>4 DEF DataInv, NewAreTexts, OnlyReadyHasItems, SharedRows
  <1>8. Reviewed'
    BY <1>1, <1>2, <1>3 DEF DataInv, Reviewed, Selected
  <1> QED
    BY <1>2, <1>3, <1>6, <1>7, <1>8 DEF DataInv

(* What only moves a promotion on, and never from "ready". *)
LEMMA StatusShape ==
  ASSUME TypeOK, NEW p \in Promotions, StatusStep(p)
  PROVE  /\ UNCHANGED <<example, record, runs, ckpt, orderly>>
         /\ promotion[p].status # "ready" /\ promotion'[p].status # "ready"
         /\ \A q \in Promotions \ {p} : promotion'[q] = promotion[q]
         /\ promotion'[p].selected = promotion[p].selected
         /\ promotion'[p].replay = promotion[p].replay
         /\ promotion'[p].items = promotion[p].items
  <1>1. PICK s \in {"awaiting_approval", "approved", "lapsed", "expired"} :
          promotion' = [promotion EXCEPT ![p].status = s]
    BY DEF StatusStep, SubmitPromotion, ApprovePromotion, PromotionLapses,
           RefuseLapsedPromotion
  <1>2. /\ UNCHANGED <<example, record, runs, ckpt, orderly>>
        /\ promotion[p].status # "ready"
    BY DEF StatusStep, SubmitPromotion, ApprovePromotion, PromotionLapses,
           RefuseLapsedPromotion
  <1>3. promotion[p] \in Promotion
    BY DEF TypeOK
  <1>4. promotion'[p] = [promotion[p] EXCEPT !.status = s]
    BY <1>1 DEF TypeOK
  <1>5. /\ promotion'[p].status = s
        /\ promotion'[p].selected = promotion[p].selected
        /\ promotion'[p].replay = promotion[p].replay
        /\ promotion'[p].items = promotion[p].items
    BY <1>3, <1>4, Zenon DEF Promotion
  <1>6. \A q \in Promotions \ {p} : promotion'[q] = promotion[q]
    BY <1>1 DEF TypeOK
  <1> QED
    BY <1>2, <1>5, <1>6

LEMMA StatusKeepsData ==
  ASSUME TypeOK, DataInv, NEW p \in Promotions, StatusStep(p)
  PROVE  DataInv' /\ \A q \in Promotions : promotion'[q].items = promotion[q].items
  <1>1. /\ UNCHANGED <<example, record, orderly>>
        /\ promotion[p].status # "ready"
        /\ \A q \in Promotions \ {p} : promotion'[q] = promotion[q]
    BY StatusShape
  <1>2. \A q \in Promotions : /\ promotion'[q].items = promotion[q].items
                             /\ promotion'[q].replay = promotion[q].replay
                             /\ promotion'[q].selected = promotion[q].selected
    BY StatusShape
  <1>3. UNCHANGED Rows
    BY <1>1 DEF Rows, Made
  <1>4. (Distinct /\ ItemsMade /\ NewAreTexts /\ SharedRows)'
    BY <1>1, <1>2, <1>3 DEF DataInv, Distinct, ItemsMade, NewAreTexts, SharedRows
  <1>5. OnlyReadyHasItems'
    BY <1>1, <1>2 DEF DataInv, OnlyReadyHasItems
  <1>6. Reviewed'
    BY <1>1, <1>2 DEF DataInv, Reviewed, Selected
  <1> QED
    BY <1>2, <1>4, <1>5, <1>6 DEF DataInv

(* What is in the version that is built: approved records, replayed or     *)
(* made of the examples selected.                                          *)
LEMMA MaterializeKeepsData ==
  ASSUME TypeOK, DataInv, NEW p \in Promotions, Materialize(p)
  PROVE  /\ DataInv'
         /\ \A q \in Promotions : promotion'[q].items # promotion[q].items =>
              /\ q = p
              /\ \A r \in promotion'[p].items :
                    /\ record'[r].status = "approved"
                    /\ \/ r \in promotion[p].replay
                       \/ \E e \in promotion[p].selected : record'[r].text = TextOf(e)
  <1>1. UNCHANGED <<example, orderly>> /\ promotion[p].status = "approved"
    BY MaterializeShape
  <1>2. PICK N \in SUBSET (Records \ Rows) :
        \E of \in [N -> promotion[p].selected], left \in SUBSET N :
           /\ \A r, s \in N : of[r] = of[s] => r = s
           /\ \A r \in N : Free(TextOf(of[r]))
           /\ MakeRecords(N, of, left)
           /\ \/ UNCHANGED promotion
              \/ \E items \in SUBSET (N \cup promotion[p].replay) :
                   /\ \A r \in items : record'[r].status = "approved"
                   /\ promotion' = [promotion EXCEPT ![p].status = "ready", ![p].items = items]
    BY MaterializeShape
  <1>3. PICK of \in [N -> promotion[p].selected], left \in SUBSET N :
           /\ \A r, s \in N : of[r] = of[s] => r = s
           /\ \A r \in N : Free(TextOf(of[r]))
           /\ MakeRecords(N, of, left)
           /\ \/ UNCHANGED promotion
              \/ \E items \in SUBSET (N \cup promotion[p].replay) :
                   /\ \A r \in items : record'[r].status = "approved"
                   /\ promotion' = [promotion EXCEPT ![p].status = "ready", ![p].items = items]
    BY <1>2
  <1>4. /\ \A r \in N : record'[r].text = TextOf(of[r]) /\ record'[r].status # "absent"
        /\ \A r \in Records \ N : record'[r] = record[r]
    BY <1>3 DEF MakeRecords
  <1>5. Rows' = Rows \cup N
    BY <1>4 DEF Rows, Made
  <1>6. Distinct'
    <2>1. ASSUME NEW r \in N, NEW s \in N, record'[r].text = record'[s].text PROVE r = s
      BY <1>3, <1>4, <2>1 DEF TextOf
    <2>2. ASSUME NEW r \in N, NEW s \in Rows PROVE record'[r].text # record'[s].text
      BY <1>3, <1>4, <2>2 DEF Free, Rows
    <2>3. \A s \in Rows : record'[s] = record[s]
      BY <1>4 DEF Rows
    <2> QED
      BY <1>5, <2>1, <2>2, <2>3 DEF DataInv, Distinct
  <1>7. \A r \in N : record'[r].text \notin Segments
    <2>1. \A r \in N : TextOf(of[r]) \in Texts
      BY DEF TextOf, Texts, TypeOK, Promotion, Example
    <2> QED
      BY <1>4, <2>1, SegmentsAssumption
  <1>8. \A q \in Promotions : \A r \in promotion[q].items : record'[r] = record[r]
    BY <1>4 DEF DataInv, ItemsMade, Rows
  <1>9. CASE UNCHANGED promotion
    <2>1. (ItemsMade /\ NewAreTexts /\ OnlyReadyHasItems /\ SharedRows /\ Reviewed)'
      BY <1>1, <1>5, <1>8, <1>9
         DEF DataInv, ItemsMade, NewAreTexts, OnlyReadyHasItems, SharedRows, Reviewed, Selected
    <2> QED
      BY <1>6, <1>9, <2>1 DEF DataInv
  <1>10. ASSUME NEW items \in SUBSET (N \cup promotion[p].replay),
               \A r \in items : record'[r].status = "approved",
               promotion' = [promotion EXCEPT ![p].status = "ready", ![p].items = items]
        PROVE  /\ DataInv'
               /\ promotion'[p].items = items
               /\ \A q \in Promotions \ {p} : promotion'[q].items = promotion[q].items
    <2>1. \A q \in Promotions \ {p} : promotion'[q] = promotion[q]
      BY <1>10 DEF TypeOK
    <2>2. promotion'[p] = [[promotion[p] EXCEPT !.status = "ready"] EXCEPT !.items = items]
      BY <1>10 DEF TypeOK
    <2>3. /\ promotion'[p].items = items /\ promotion'[p].status = "ready"
          /\ promotion'[p].replay = promotion[p].replay
          /\ promotion'[p].selected = promotion[p].selected
      <3>1. promotion[p] \in Promotion
        BY DEF TypeOK
      <3> QED
        BY <2>2, <3>1 DEF Promotion
    <2>4. ItemsMade'
      BY <1>5, <2>1, <2>3 DEF DataInv, ItemsMade
    <2>5. NewAreTexts'
      BY <1>7, <1>8, <2>1, <2>3 DEF DataInv, NewAreTexts
    <2>6. OnlyReadyHasItems'
      BY <2>1, <2>3 DEF DataInv, OnlyReadyHasItems
    <2>7. \A q \in Promotions \ {p} : items \cap promotion[q].items \subseteq promotion[p].replay
      BY DEF DataInv, ItemsMade
    <2>8. SharedRows'
      BY <2>1, <2>3, <2>7 DEF DataInv, SharedRows
    <2>9. Reviewed'
      BY <1>1, <2>1, <2>3 DEF DataInv, Reviewed, Selected
    <2> QED
      BY <1>6, <2>1, <2>3, <2>4, <2>5, <2>6, <2>8, <2>9 DEF DataInv
  <1>11. \A r \in N : of[r] \in promotion[p].selected
    OBVIOUS
  <1> QED
    BY <1>3, <1>4, <1>9, <1>10, <1>11

LEMMA InitData == Init => DataInv
  BY DEF Init, DataInv, Distinct, ItemsMade, NewAreTexts, OnlyReadyHasItems, SharedRows,
         Reviewed, Selected, Rows, Made

LEMMA StepData == TypeOK /\ DataInv /\ [Next]_vars => DataInv'
  <1> SUFFICES ASSUME TypeOK, DataInv, [Next]_vars PROVE DataInv'
    OBVIOUS
  <1>1. CASE UNCHANGED <<data, orderly>>
    BY <1>1 DEF data, DataInv, Distinct, ItemsMade, NewAreTexts, OnlyReadyHasItems, SharedRows,
                Reviewed, Selected, Rows, Made
  <1>2. CASE ~UNCHANGED <<data, orderly>>
    <2>1. DataNext
      BY <1>2, DataUntouched DEF vars
    <2> QED
      BY <2>1, ReviewKeepsData, RecordKeepsData, CreateKeepsData, StatusKeepsData,
         MaterializeKeepsData DEF DataNext
  <1> QED
    BY <1>1, <1>2

(* Two dataset versions share a text only where one replays the other's    *)
(* record of it, or both replay records of a corpus: another row is made   *)
(* only of a text that no row has, a version that is built takes its own   *)
(* new rows or those it replays, and what another version holds was a row  *)
(* before.                                                                 *)
THEOREM TextsShared == Spec => []SharedOnlyByReplay
  <1>1. DataInv => SharedOnlyByReplay
    <2> SUFFICES ASSUME DataInv, NEW p \in Promotions, NEW q \in Promotions, p # q,
                        NEW r \in promotion[p].items, NEW s \in promotion[q].items,
                        record[r].text = record[s].text
                 PROVE  \/ r = s /\ r \in promotion[p].replay \cup promotion[q].replay
                        \/ r \in promotion[p].replay /\ s \in promotion[q].replay
      BY DEF SharedOnlyByReplay
    <2>1. r \in Rows /\ s \in Rows
      BY DEF DataInv, ItemsMade
    <2>2. CASE r = s
      BY <2>2 DEF DataInv, SharedRows
    <2>3. CASE r # s
      <3>1. record[r].text \in Segments /\ record[s].text \in Segments
        BY <2>1, <2>3 DEF DataInv, Distinct
      <3> QED
        BY <3>1 DEF DataInv, NewAreTexts
    <2> QED
      BY <2>2, <2>3
  <1> QED
    BY InitTyped, StepTyped, InitData, StepData, <1>1, PTL DEF Spec

(* What a version that is built holds are approved records: those it       *)
(* replays, and the words of the selected examples, which a reviewer       *)
(* approved.                                                               *)
LEMMA StepBuilds ==
  ASSUME TypeOK, DataInv, [Next]_vars
  PROVE  \A p \in Promotions :
            orderly /\ promotion'[p].items # promotion[p].items
               => \A r \in promotion'[p].items :
                     /\ record'[r].status = "approved"
                     /\ r \in promotion[p].replay \/ record'[r].text \in Endorsed
  <1> SUFFICES ASSUME NEW q \in Promotions, orderly, promotion'[q].items # promotion[q].items
               PROVE  \A r \in promotion'[q].items :
                         /\ record'[r].status = "approved"
                         /\ r \in promotion[q].replay \/ record'[r].text \in Endorsed
    OBVIOUS
  <1>1. DataNext /\ ~UNCHANGED promotion
    BY DataUntouched DEF vars, data
  <1>2. PICK p \in Promotions : Materialize(p)
    BY <1>1, ReviewKeepsData, RecordKeepsData, CreateKeepsData, StatusKeepsData DEF DataNext
  <1>3. /\ q = p
        /\ \A r \in promotion'[p].items :
              /\ record'[r].status = "approved"
              /\ \/ r \in promotion[p].replay
                 \/ \E e \in promotion[p].selected : record'[r].text = TextOf(e)
    BY <1>2, MaterializeKeepsData
  <1>4. \A e \in promotion[p].selected : e \in Examples /\ example[e].endorsed
    BY DEF DataInv, Reviewed, Selected, TypeOK, Promotion
  <1> QED
    BY <1>3, <1>4 DEF Endorsed

THEOREM ReviewedTextsBuilt == Spec => BuildsReviewedTexts
  <1>1. TypeOK /\ DataInv /\ [Next]_vars =>
          [\A p \in Promotions :
              orderly /\ promotion'[p].items # promotion[p].items
                 => \A r \in promotion'[p].items :
                       /\ record'[r].status = "approved"
                       /\ r \in promotion[p].replay \/ record'[r].text \in Endorsed]_vars
    BY StepBuilds
  <1> QED
    BY InitTyped, StepTyped, InitData, StepData, <1>1, PTL DEF Spec, BuildsReviewedTexts

-----------------------------------------------------------------------------
(* What runs were started for. *)

RequestOnReady(q) ==
    \E p \in Promotions : request[q].promotion = p /\ promotion[p].status = "ready"

RequestInv ==
    \A q \in Requests :
        /\ request[q].status # "absent" => RequestOnReady(q)
        /\ approvals[q] # <<>> => request[q].status # "absent"

ServingInv == serving # 0 => run[serving].status # "absent"

RunInv == RequestInv /\ ServingInv /\ RunsAreApproved

LEMMA InitRun == Init => RunInv
  BY DEF Init, RunInv, RequestInv, ServingInv, RunsAreApproved

(* A promotion that is ready stays so, whatever is done to the data. *)
LEMMA DataKeepsRuns ==
  ASSUME TypeOK, RunInv, DataNext
  PROVE  RunInv'
  <1>1. UNCHANGED runs
    BY RecordShape, StatusShape DEF DataNext, Review, CreatePromotion, Materialize
  <1>2. \A p \in Promotions : promotion[p].status = "ready" => promotion'[p].status = "ready"
    <2> SUFFICES ASSUME NEW q \in Promotions, promotion[q].status = "ready"
                 PROVE  promotion'[q].status = "ready"
      OBVIOUS
    <2>1. CASE UNCHANGED promotion
      BY <2>1
    <2>2. ASSUME NEW p \in Promotions, NEW S \in SUBSET Examples, NEW R \in SUBSET Rows,
                 CreatePromotion(p, S, R)
          PROVE  promotion'[q] = promotion[q]
      BY <2>2 DEF CreatePromotion, TypeOK
    <2>3. ASSUME NEW p \in Promotions, StatusStep(p) PROVE promotion'[q] = promotion[q]
      BY <2>3, StatusShape
    <2>4. ASSUME NEW p \in Promotions, Materialize(p), ~UNCHANGED promotion
          PROVE  promotion'[q] = promotion[q]
      <3>1. promotion[p].status = "approved"
        BY <2>4, MaterializeShape
      <3>2. \E items \in SUBSET Records :
              promotion' = [promotion EXCEPT ![p].status = "ready", ![p].items = items]
        BY <2>4, MaterializeItems
      <3> QED
        BY <3>1, <3>2 DEF TypeOK
    <2> QED
      BY <2>1, <2>2, <2>3, <2>4, RecordShape DEF DataNext, Review
  <1> QED
    BY <1>1, <1>2 DEF runs, RunInv, RequestInv, RequestOnReady, ServingInv, RunsAreApproved

(* Requests keep what they were made on, and an approval that was given    *)
(* remains as one that was.                                                *)
LEMMA RequestsKeepRuns ==
  ASSUME TypeOK, RunInv, NEW q \in Requests,
         \/ \E p \in Promotions : CreateRunRequest(q, p)
         \/ SubmitRunRequest(q) \/ RequestApproval(q)
         \/ \E i \in DOMAIN approvals[q] :
               Decide(q, i) \/ ApprovalLapses(q, i) \/ RefuseLapsedApproval(q, i)
  PROVE  RunInv'
  <1>1. UNCHANGED <<data, serving, run>>
    BY DEF CreateRunRequest, SubmitRunRequest, RequestApproval, Decide, ApprovalLapses,
           RefuseLapsedApproval
  <1>2. \/ UNCHANGED request
        \/ /\ request[q].status = "absent"
           /\ \E p \in Promotions :
                 /\ promotion[p].status = "ready"
                 /\ request' = [request EXCEPT ![q] = [promotion |-> p, status |-> "draft"]]
        \/ /\ request[q].status # "absent"
           /\ \E s \in {"awaiting_approval", "approved", "rejected"} :
                 request' = [request EXCEPT ![q].status = s]
    <2>1. ASSUME NEW i \in DOMAIN approvals[q], Decide(q, i) PROVE request[q].status # "absent"
      BY <2>1 DEF RunInv, RequestInv, TypeOK
    <2> QED
      BY <2>1 DEF CreateRunRequest, SubmitRunRequest, RequestApproval, Decide, ApprovalLapses,
                  RefuseLapsedApproval
  <1>3. \/ UNCHANGED approvals
        \/ /\ request[q].status # "absent"
           /\ \/ approvals' = [approvals EXCEPT ![q] = Append(@, "pending")]
              \/ \E i \in DOMAIN approvals[q], s \in {"approved", "rejected", "lapsed", "expired"} :
                    /\ approvals' = [approvals EXCEPT ![q][i] = s]
                    /\ approvals[q][i] = "pending" \/ s \in {"lapsed", "expired"}
    <2>1. ASSUME NEW i \in DOMAIN approvals[q] PROVE request[q].status # "absent"
      BY <2>1 DEF RunInv, RequestInv, TypeOK
    <2> QED
      BY <2>1 DEF CreateRunRequest, SubmitRunRequest, RequestApproval, Decide, ApprovalLapses,
                  RefuseLapsedApproval
  <1>4. \A r \in Requests : request[r].status # "absent" =>
            request'[r].promotion = request[r].promotion /\ request'[r].status # "absent"
    <2>1. CASE UNCHANGED request
      BY <2>1
    <2>2. CASE request[q].status = "absent"
      BY <1>2, <2>2 DEF TypeOK
    <2>3. ASSUME NEW s \in {"awaiting_approval", "approved", "rejected"},
                 request' = [request EXCEPT ![q].status = s]
          PROVE  \A r \in Requests : request[r].status # "absent" =>
                    request'[r].promotion = request[r].promotion /\ request'[r].status # "absent"
      BY <2>3 DEF TypeOK, Request
    <2> QED
      BY <1>2, <2>1, <2>2, <2>3
  <1>5. \A r \in Requests : Granted(r) => Granted(r)'
    <2> SUFFICES ASSUME NEW r \in Requests, NEW k \in DOMAIN approvals[r],
                        approvals[r][k] \in {"approved", "lapsed", "expired"}
                 PROVE  /\ k \in DOMAIN approvals'[r]
                        /\ approvals'[r][k] \in {"approved", "lapsed", "expired"}
      BY DEF Granted
    <2>1. CASE UNCHANGED approvals
      BY <2>1
    <2>2. CASE approvals' = [approvals EXCEPT ![q] = Append(@, "pending")]
      BY <2>2 DEF TypeOK
    <2>3. ASSUME NEW i \in DOMAIN approvals[q],
                 NEW s \in {"approved", "rejected", "lapsed", "expired"},
                 approvals' = [approvals EXCEPT ![q][i] = s],
                 approvals[q][i] = "pending" \/ s \in {"lapsed", "expired"}
          PROVE  /\ k \in DOMAIN approvals'[r]
                 /\ approvals'[r][k] \in {"approved", "lapsed", "expired"}
      BY <2>3 DEF TypeOK
    <2> QED
      BY <1>3, <2>1, <2>2, <2>3
  <1>6. \A r \in Requests :
            approvals'[r] # <<>> => approvals[r] # <<>> \/ request[r].status # "absent"
    BY <1>3 DEF TypeOK
  <1>7. RequestInv'
    <2> SUFFICES ASSUME NEW r \in Requests
                 PROVE  /\ request'[r].status # "absent" => RequestOnReady(r)'
                        /\ approvals'[r] # <<>> => request'[r].status # "absent"
      BY DEF RequestInv
    <2>1. approvals'[r] # <<>> => request'[r].status # "absent"
      BY <1>4, <1>6 DEF RunInv, RequestInv
    <2>2. request'[r].status # "absent" => RequestOnReady(r)'
      <3>1. CASE request[r].status # "absent"
        BY <1>1, <1>4, <3>1 DEF RunInv, RequestInv, RequestOnReady, data
      <3>2. CASE request[r].status = "absent"
        <4>1. CASE request'[r] = request[r]
          BY <3>2, <4>1
        <4>2. CASE request'[r] # request[r]
          <5>1. r = q
            BY <1>2, <4>2 DEF TypeOK
          <5>2. PICK p \in Promotions :
                  /\ promotion[p].status = "ready"
                  /\ request' = [request EXCEPT ![q] = [promotion |-> p, status |-> "draft"]]
            BY <1>2, <3>2, <4>2, <5>1
          <5>3. request'[r].promotion = p /\ promotion'[p].status = "ready"
            BY <1>1, <5>1, <5>2 DEF data, TypeOK
          <5> QED
            BY <5>3 DEF RequestOnReady
        <4> QED
          BY <4>1, <4>2
      <3> QED
        BY <3>1, <3>2
    <2> QED
      BY <2>1, <2>2
  <1>8. RunsAreApproved'
    <2>1. ASSUME NEW j \in Jobs, run[j].status # "absent"
          PROVE  /\ run[j].request \in Requests
                 /\ Granted(run[j].request)
                 /\ request[run[j].request].status # "absent"
      BY <2>1 DEF RunInv, RunsAreApproved, Granted, RequestInv, TypeOK
    <2>2. \A r \in Requests : Granted(r) /\ request[r].status # "absent"
            => RequestOnReady(r)' /\ Granted(r)'
      BY <1>4, <1>5, <1>7 DEF RequestInv
    <2> QED
      BY <1>1, <2>1, <2>2 DEF RunsAreApproved, RequestOnReady, Granted
  <1>9. ServingInv'
    BY <1>1 DEF RunInv, ServingInv
  <1> QED
    BY <1>7, <1>8, <1>9 DEF RunInv

LEMMA StartKeepsRuns ==
  ASSUME TypeOK, RunInv, NEW q \in Requests, NEW i \in DOMAIN approvals[q], NEW j \in Jobs,
         StartRun(q, i, j)
  PROVE  RunInv'
  <1>1. UNCHANGED <<data, approvals>>
    BY DEF StartRun
  <1>2. request[q].status # "absent" /\ Granted(q)
    BY DEF StartRun, RunInv, RequestInv, Granted, TypeOK
  <1>3. \A r \in Requests : /\ request'[r].promotion = request[r].promotion
                            /\ request[r].status # "absent" <=> request'[r].status # "absent"
    <2>1. UNCHANGED request \/ request' = [request EXCEPT ![q].status = "started"]
      BY DEF StartRun
    <2>2. CASE UNCHANGED request
      BY <2>2
    <2>3. CASE request' = [request EXCEPT ![q].status = "started"]
      BY <1>2, <2>3 DEF TypeOK, Request
    <2> QED
      BY <2>1, <2>2, <2>3
  <1>4. RequestInv'
    BY <1>1, <1>3 DEF RunInv, RequestInv, RequestOnReady, data
  <1>5. RunsAreApproved'
    <2>1. ASSUME NEW k \in Jobs, run'[k].status # "absent"
          PROVE  run'[k].request \in Requests /\ Granted(run'[k].request)
      <3>1. run'[k] = run[k] \/ run'[k].request = q
        BY DEF StartRun, TypeOK
      <3> QED
        BY <1>2, <2>1, <3>1 DEF RunInv, RunsAreApproved, Granted
    <2>2. \A r \in Requests : Granted(r) => request[r].status # "absent"
      BY DEF RunInv, RequestInv, Granted, TypeOK
    <2>3. \A r \in Requests : Granted(r) => RequestOnReady(r)' /\ Granted(r)'
      BY <1>1, <1>3, <1>4, <2>2 DEF RequestInv, Granted
    <2> QED
      BY <2>1, <2>3 DEF RunsAreApproved, RequestOnReady, Granted
  <1>6. ServingInv'
    BY DEF StartRun, ServingInv, TypeOK
  <1> QED
    BY <1>4, <1>5, <1>6 DEF RunInv

LEMMA ExecutionKeepsRuns ==
  ASSUME TypeOK, RunInv, WorkerRuns \/ RunOne \/ \E j \in Jobs : QueueJob(j)
  PROVE  RunInv'
  <1>1. UNCHANGED <<data, request, approvals>>
    BY DEF WorkerRuns, RunOne, QueueJob
  <1>2. \/ UNCHANGED <<serving, run>>
        \/ /\ serving # 0 /\ serving' = 0
           /\ \/ UNCHANGED run
              \/ \E s \in {"completed", "failed", "cancelled"} :
                    run' = [run EXCEPT ![serving].status = s]
    BY DEF WorkerRuns, RunOne, QueueJob, Recorded
  <1>3. \A r \in Jobs : /\ run'[r].request = run[r].request
                        /\ run'[r].status # "absent" => run[r].status # "absent"
    <2>1. serving # 0 => serving \in Jobs /\ run[serving].status # "absent"
      BY DEF TypeOK, RunInv, ServingInv
    <2>2. CASE UNCHANGED run
      BY <2>2
    <2>3. CASE ~UNCHANGED run
      <3>1. PICK s \in {"completed", "failed", "cancelled"} :
              run' = [run EXCEPT ![serving].status = s]
        BY <1>2, <2>3
      <3>2. serving \in Jobs /\ run[serving].status # "absent"
        BY <1>2, <2>1, <2>3
      <3>3. \A r \in Jobs \ {serving} : run'[r] = run[r]
        BY <3>1 DEF TypeOK
      <3>4. run'[serving] = [run[serving] EXCEPT !.status = s] /\ run[serving] \in Run
        BY <3>1, <3>2 DEF TypeOK
      <3>5. run'[serving].request = run[serving].request
        BY <3>4, Zenon DEF Run
      <3>6. ASSUME NEW r \in Jobs
            PROVE  /\ run'[r].request = run[r].request
                   /\ run'[r].status # "absent" => run[r].status # "absent"
        BY <3>2, <3>3, <3>5
      <3> QED
        BY <3>6
    <2> QED
      BY <2>2, <2>3
  <1>4. RequestInv'
    BY <1>1 DEF RunInv, RequestInv, RequestOnReady, data
  <1>5. ServingInv'
    BY <1>2 DEF RunInv, ServingInv
  <1>6. RunsAreApproved'
    BY <1>1, <1>3 DEF RunInv, RunsAreApproved, data
  <1> QED
    BY <1>4, <1>5, <1>6 DEF RunInv

LEMMA StepRun == TypeOK /\ RunInv /\ [Next]_vars => RunInv'
  <1> SUFFICES ASSUME TypeOK, RunInv, [Next]_vars PROVE RunInv'
    OBVIOUS
  <1>1. CASE UNCHANGED <<data, runs>>
    BY <1>1 DEF data, runs, RunInv, RequestInv, RequestOnReady, ServingInv, RunsAreApproved
  <1>2. ASSUME NEW r \in Jobs,
               Verify(r) \/ Evaluate(r) \/ CompareRegressed(r) \/ FinalizeReport(r)
                 \/ Accept(r) \/ Reject(r) \/ AskForMore(r)
        PROVE UNCHANGED <<data, runs>>
    BY <1>2 DEF Verify, Evaluate, CompareRegressed, FinalizeReport, Accept, Reject, AskForMore,
                CheckpointStep
  <1>3. CASE ~UNCHANGED <<data, runs>>
    <2>1. Next
      BY <1>3 DEF vars
    <2> QED
      BY <1>2, <1>3, <2>1, DataKeepsRuns, RequestsKeepRuns, StartKeepsRuns, ExecutionKeepsRuns
         DEF Next, DataNext, RecordStep, StatusStep
  <1> QED
    BY <1>1, <1>3

(* Every run was started for a request on a dataset version that had been  *)
(* built, under an approval that somebody gave.                            *)
THEOREM ApprovedRuns == Spec => []RunsAreApproved
  <1>1. RunInv => RunsAreApproved
    BY DEF RunInv
  <1> QED
    BY InitTyped, StepTyped, InitRun, StepRun, <1>1, PTL DEF Spec

-----------------------------------------------------------------------------
(* Decisions on checkpoints. *)

(* A run that is being executed, and one not made yet, have no checkpoint. *)
FreshCheckpoint ==
    /\ \A j \in Jobs : job[j] = "absent" => ckpt[j].status = "absent"
    /\ serving # 0 => ckpt[serving].status = "absent" /\ job[serving] # "absent"

DecisionInv == FreshCheckpoint /\ AcceptedHasModel

(* What a step does to the checkpoints' statuses. *)
LEMMA CheckpointSteps ==
  ASSUME TypeOK, Next, ~UNCHANGED ckpt
  PROVE  \/ /\ RunOne
            /\ serving \in Jobs
            /\ \E j \in Jobs : ckpt' = [ckpt EXCEPT ![serving].status = "created",
                                                    ![serving].job = j]
         \/ \E r \in Jobs :
               /\ serving = 0
               /\ UNCHANGED <<data, runs, orderly>>
               /\ \/ Verify(r) \/ Evaluate(r) \/ CompareRegressed(r) \/ FinalizeReport(r)
                  \/ Accept(r) \/ Reject(r) \/ AskForMore(r)
  <1>1. \/ RunOne
        \/ \E r \in Jobs : \/ Verify(r) \/ Evaluate(r) \/ CompareRegressed(r) \/ FinalizeReport(r)
                           \/ Accept(r) \/ Reject(r) \/ AskForMore(r)
    BY DEF Next, Review, AddRecord, BridgeRecord, EditRecord, ReviewRecord,
           CreatePromotion, SubmitPromotion, ApprovePromotion, PromotionLapses,
           RefuseLapsedPromotion, Materialize, CreateRunRequest, SubmitRunRequest, RequestApproval,
           Decide, ApprovalLapses, RefuseLapsedApproval, StartRun, WorkerRuns, QueueJob
  <1>2. CASE RunOne
    <2>1. Head(queue) \in Jobs
      BY <1>2, TakeTyped DEF RunOne
    <2> QED
      BY <1>2, <2>1 DEF RunOne, TypeOK
  <1>3. ASSUME NEW r \in Jobs,
               Verify(r) \/ Evaluate(r) \/ CompareRegressed(r) \/ FinalizeReport(r)
                  \/ Accept(r) \/ Reject(r) \/ AskForMore(r)
        PROVE serving = 0 /\ UNCHANGED <<data, runs, orderly>>
    BY <1>3 DEF Verify, Evaluate, CompareRegressed, FinalizeReport, Accept, Reject, AskForMore,
                CheckpointStep
  <1> QED
    BY <1>1, <1>2, <1>3

(* An operation on the checkpoint of r leaves the others alone, and r's    *)
(* where a decision was carried out; it makes none accepted that has no    *)
(* model.                                                                  *)
LEMMA OperationShape ==
  ASSUME TypeOK, NEW r \in Jobs,
         Verify(r) \/ Evaluate(r) \/ CompareRegressed(r) \/ FinalizeReport(r)
           \/ Accept(r) \/ Reject(r) \/ AskForMore(r)
  PROVE  /\ \A s \in Jobs \ {r} : ckpt'[s] = ckpt[s]
         /\ ckpt[r].status # "absent"
         /\ \/ /\ ckpt[r].status \notin {"accepted_candidate", "rejected"}
               /\ \/ ckpt'[r].status # "accepted_candidate"
                  \/ ckpt'[r].model /\ ckpt'[r].decision = "accepted"
            \/ /\ ckpt'[r].status = ckpt[r].status
               /\ ckpt'[r].decision = ckpt[r].decision
               /\ ckpt'[r].model = ckpt[r].model
  <1>1. ckpt[r] \in Checkpoint
    BY DEF TypeOK
  <1>2. CASE Verify(r) \/ Evaluate(r)
    BY <1>2 DEF Verify, Evaluate, TypeOK, Checkpoint
  <1>3. CASE CompareRegressed(r) \/ FinalizeReport(r)
    BY <1>3 DEF CompareRegressed, FinalizeReport, TypeOK, Checkpoint
  <1>4. CASE Accept(r)
    <2>1. ckpt[r].status = "evaluated"
      BY <1>4 DEF Accept, Decidable
    <2>2. CASE ckpt' = [ckpt EXCEPT ![r].model = TRUE]
      BY <1>1, <2>1, <2>2 DEF TypeOK, Checkpoint
    <2>3. CASE ckpt' = [ckpt EXCEPT ![r].model = TRUE, ![r].decision = "accepted"]
      BY <1>1, <2>1, <2>3 DEF TypeOK, Checkpoint
    <2>4. CASE ckpt' = [ckpt EXCEPT ![r].model = TRUE, ![r].decision = "accepted",
                                    ![r].status = "accepted_candidate"]
      BY <1>1, <2>1, <2>4 DEF TypeOK, Checkpoint
    <2> QED
      BY <1>4, <2>2, <2>3, <2>4 DEF Accept
  <1>5. CASE Reject(r)
    BY <1>5 DEF Reject, Decidable, TypeOK, Checkpoint
  <1>6. CASE AskForMore(r)
    BY <1>6 DEF AskForMore, Decidable, TypeOK, Checkpoint
  <1> QED
    BY <1>2, <1>3, <1>4, <1>5, <1>6

LEMMA InitDecision == Init => DecisionInv
  BY DEF Init, NoCheckpoint, DecisionInv, FreshCheckpoint, AcceptedHasModel

LEMMA RunOneShape ==
  ASSUME TypeOK, NEW j \in Jobs, serving \in Jobs,
         ckpt' = [ckpt EXCEPT ![serving].status = "created", ![serving].job = j]
  PROVE  /\ \A s \in Jobs \ {serving} : ckpt'[s] = ckpt[s]
         /\ ckpt'[serving].status = "created"
  BY DEF TypeOK, Checkpoint

(* Jobs are never forgotten, and the server takes up a new one. *)
LEMMA JobsStay ==
  ASSUME TypeOK, [Next]_vars
  PROVE  /\ \A j \in Jobs : job[j] # "absent" => job'[j] # "absent"
         /\ \/ serving' \in {serving, 0}
            \/ serving' \in Jobs /\ job[serving'] = "absent" /\ job'[serving'] # "absent"
  <1>1. CASE UNCHANGED <<job, serving>>
    BY <1>1
  <1>2. ASSUME NEW q \in Requests, NEW i \in DOMAIN approvals[q], NEW j \in Jobs,
               StartRun(q, i, j)
        PROVE  /\ \A k \in Jobs : job[k] # "absent" => job'[k] # "absent"
               /\ serving' = serving \/ (serving' = j /\ job[j] = "absent" /\ job'[j] # "absent")
    BY <1>2 DEF StartRun, NextId, Enqueue, TypeOK
  <1>3. CASE WorkerRuns
    BY <1>3 DEF WorkerRuns, Take, TypeOK
  <1>4. CASE RunOne
    <2>1. serving' = 0
      BY <1>4 DEF RunOne
    <2>2. UNCHANGED job \/ \E s \in {"completed", "failed", "stopped"} : Take(s)
      BY <1>4 DEF RunOne
    <2> QED
      BY <2>1, <2>2 DEF Take, TypeOK
  <1>5. ASSUME NEW j \in Jobs, QueueJob(j)
        PROVE  /\ \A k \in Jobs : job[k] # "absent" => job'[k] # "absent"
               /\ serving' = serving
    BY <1>5 DEF QueueJob, Enqueue, TypeOK
  <1>6. CASE ~UNCHANGED <<job, serving>>
    <2>1. Next
      BY <1>6 DEF vars, runs
    <2>2. \/ \E q \in Requests : \E i \in DOMAIN approvals[q] : \E j \in Jobs : StartRun(q, i, j)
          \/ WorkerRuns \/ RunOne \/ \E j \in Jobs : QueueJob(j)
      BY <1>6, <2>1
         DEF Next, Review, AddRecord, BridgeRecord, EditRecord, ReviewRecord,
             CreatePromotion, SubmitPromotion, ApprovePromotion, PromotionLapses,
             RefuseLapsedPromotion, Materialize, CreateRunRequest, SubmitRunRequest,
             RequestApproval, Decide, ApprovalLapses, RefuseLapsedApproval, Verify, Evaluate,
             CompareRegressed, FinalizeReport, Accept, Reject, AskForMore, CheckpointStep, runs
    <2> QED
      BY <2>2, <1>2, <1>3, <1>4, <1>5
  <1> QED
    BY <1>1, <1>6

LEMMA StepDecision == TypeOK /\ DecisionInv /\ [Next]_vars => DecisionInv'
  <1> SUFFICES ASSUME TypeOK, DecisionInv, [Next]_vars PROVE DecisionInv'
    OBVIOUS
  <1>1. CASE UNCHANGED ckpt
    <2>1. FreshCheckpoint'
      BY <1>1, JobsStay DEF DecisionInv, FreshCheckpoint, TypeOK
    <2> QED
      BY <1>1, <2>1 DEF DecisionInv, AcceptedHasModel
  <1>2. CASE ~UNCHANGED ckpt
    <2>1. Next
      BY <1>2 DEF vars
    <2>2. CASE RunOne /\ serving \in Jobs
               /\ \E j \in Jobs : ckpt' = [ckpt EXCEPT ![serving].status = "created",
                                                       ![serving].job = j]
      <3>1. serving' = 0
        BY <2>2 DEF RunOne
      <3>2. job[serving] # "absent"
        BY <2>2 DEF DecisionInv, FreshCheckpoint, Jobs
      <3>3. FreshCheckpoint'
        BY <2>2, <3>1, <3>2, RunOneShape, JobsStay DEF DecisionInv, FreshCheckpoint
      <3>4. AcceptedHasModel'
        BY <2>2, RunOneShape DEF DecisionInv, AcceptedHasModel
      <3> QED
        BY <3>3, <3>4 DEF DecisionInv
    <2>3. ASSUME NEW r \in Jobs, serving = 0, UNCHANGED <<data, runs, orderly>>,
                 Verify(r) \/ Evaluate(r) \/ CompareRegressed(r) \/ FinalizeReport(r)
                   \/ Accept(r) \/ Reject(r) \/ AskForMore(r)
          PROVE DecisionInv'
      <3>1. UNCHANGED <<job, serving>>
        BY <2>3 DEF runs
      <3>2. FreshCheckpoint'
        BY <2>3, <3>1, OperationShape DEF DecisionInv, FreshCheckpoint
      <3>3. AcceptedHasModel'
        BY <2>3, OperationShape DEF DecisionInv, AcceptedHasModel
      <3> QED
        BY <3>2, <3>3 DEF DecisionInv
    <2> QED
      BY <1>2, <2>1, <2>2, <2>3, CheckpointSteps
  <1> QED
    BY <1>1, <1>2

(* A checkpoint that is accepted has a model in staging and a recorded     *)
(* decision to accept it.                                                  *)
THEOREM ModelOfAccepted == Spec => []AcceptedHasModel
  <1>1. DecisionInv => AcceptedHasModel
    BY DEF DecisionInv
  <1> QED
    BY InitTyped, StepTyped, InitDecision, StepDecision, <1>1, PTL DEF Spec

LEMMA StepFinal ==
  ASSUME TypeOK, DecisionInv, [Next]_vars
  PROVE  \A r \in Jobs :
            ckpt[r].status \in {"accepted_candidate", "rejected"}
               => /\ ckpt'[r].status = ckpt[r].status
                  /\ ckpt'[r].decision = ckpt[r].decision
                  /\ ckpt'[r].model = ckpt[r].model
  <1>1. CASE UNCHANGED ckpt
    BY <1>1
  <1>2. CASE ~UNCHANGED ckpt
    <2>1. Next
      BY <1>2 DEF vars
    <2>2. serving # 0 => ckpt[serving].status = "absent"
      BY DEF DecisionInv, FreshCheckpoint
    <2> QED
      BY <1>2, <2>1, <2>2, CheckpointSteps, RunOneShape, OperationShape DEF Jobs
  <1> QED
    BY <1>1, <1>2

(* A decision that was carried out is final. *)
THEOREM FinalDecision == Spec => DecisionsAreFinal
  <1>1. TypeOK /\ DecisionInv /\ [Next]_vars =>
          [\A r \in Jobs :
              ckpt[r].status \in {"accepted_candidate", "rejected"}
                 => /\ ckpt'[r].status = ckpt[r].status
                    /\ ckpt'[r].decision = ckpt[r].decision
                    /\ ckpt'[r].model = ckpt[r].model]_vars
    BY StepFinal
  <1> QED
    BY InitTyped, StepTyped, InitDecision, StepDecision, <1>1, PTL DEF Spec, DecisionsAreFinal

-----------------------------------------------------------------------------
(* ReviewedModels: each step adds one link to the chain behind a model, or  *)
(* none.                                                                    *)
BuiltOf   == {p \in Promotions : promotion[p].status = "ready"}
BasisOf   == [q \in Requests |-> request[q].promotion]
GrantedOf == {q \in Requests : Granted(q)}
CauseOf   == [r \in Jobs |-> run[r].request]
StagesOf  == [r \in Jobs |-> StageOf(r)]
StagedOf  == {r \in Jobs : ckpt[r].model}

ChainStep == [Models!ModelNext]_(Models!modelVars)

(* Rows not made yet are blank. *)
Blank ==
    /\ \A q \in Requests : request[q].status = "absent" => request[q].promotion = NoPromotion
    /\ \A j \in Jobs : job[j] = "absent" => run[j].status = "absent"

LEMMA InitBlank == Init => Blank
  BY DEF Init, Blank

LEMMA StepBlank == TypeOK /\ RunInv /\ DecisionInv /\ Blank /\ [Next]_vars => Blank'
  <1> SUFFICES ASSUME TypeOK, RunInv, DecisionInv, Blank, [Next]_vars PROVE Blank'
    OBVIOUS
  <1>1. \A q \in Requests : \/ request'[q].status # "absent"
                            \/ request'[q] = request[q]
    <2>1. CASE UNCHANGED request
      BY <2>1
    <2>2. ASSUME NEW q \in Requests, NEW s \in {"awaiting_approval", "approved", "rejected",
                                                "started"},
                 request' = [request EXCEPT ![q].status = s]
          PROVE  \A r \in Requests : request'[r].status # "absent" \/ request'[r] = request[r]
      <3>1. request[q] \in Request /\ request'[q] = [request[q] EXCEPT !.status = s]
        BY <2>2 DEF TypeOK
      <3>2. request'[q].status = s
        BY <3>1, Zenon DEF Request
      <3>3. \A r \in Requests \ {q} : request'[r] = request[r]
        BY <2>2 DEF TypeOK
      <3> QED
        BY <3>2, <3>3
    <2>3. ASSUME NEW q \in Requests, NEW p \in Promotions, CreateRunRequest(q, p)
          PROVE  \A r \in Requests : request'[r].status # "absent" \/ request'[r] = request[r]
      BY <2>3 DEF CreateRunRequest, TypeOK
    <2>4. CASE ~UNCHANGED request
      <3>1. Next
        BY <2>4 DEF vars, runs
      <3>2. \/ \E q \in Requests, p \in Promotions : CreateRunRequest(q, p)
            \/ \E q \in Requests : \E s \in {"awaiting_approval", "approved", "rejected",
                                            "started"} :
                  request' = [request EXCEPT ![q].status = s]
        BY <2>4, <3>1
           DEF Next, Review, AddRecord, BridgeRecord, EditRecord, ReviewRecord,
               CreatePromotion, SubmitPromotion, ApprovePromotion,
               PromotionLapses, RefuseLapsedPromotion, Materialize, SubmitRunRequest,
               RequestApproval, Decide, ApprovalLapses, RefuseLapsedApproval, StartRun,
               WorkerRuns, RunOne, QueueJob, Verify, Evaluate, CompareRegressed,
               FinalizeReport, Accept, Reject, AskForMore, CheckpointStep, runs
      <3> QED
        BY <2>2, <2>3, <3>2
    <2> QED
      BY <2>1, <2>4
  <1>2. ASSUME NEW k \in Jobs, job'[k] = "absent" PROVE run'[k].status = "absent"
    <2>1. job[k] = "absent" /\ run[k].status = "absent" /\ run[k] \in Run
      BY <1>2, JobsStay DEF Blank, TypeOK
    <2>2. CASE UNCHANGED run
      BY <2>1, <2>2
    <2>3. CASE ~UNCHANGED run
      <3>1. Next
        BY <2>3 DEF vars, runs
      <3>2. RunOne \/ \E q \in Requests : \E i \in DOMAIN approvals[q] : \E j \in Jobs :
                         StartRun(q, i, j)
        BY <2>3, <3>1
           DEF Next, Review, AddRecord, BridgeRecord, EditRecord, ReviewRecord,
               CreatePromotion, SubmitPromotion, ApprovePromotion,
               PromotionLapses, RefuseLapsedPromotion, Materialize, CreateRunRequest,
               SubmitRunRequest, RequestApproval, Decide, ApprovalLapses,
               RefuseLapsedApproval, WorkerRuns, QueueJob, Verify, Evaluate,
               CompareRegressed, FinalizeReport, Accept, Reject, AskForMore,
               CheckpointStep, runs
      <3>3. CASE RunOne
        <4>1. serving \in Jobs /\ serving # k
          BY <2>1, <3>3 DEF RunOne, TypeOK, DecisionInv, FreshCheckpoint
        <4>2. UNCHANGED run \/ \E s \in {"completed", "failed", "cancelled"} :
                                  run' = [run EXCEPT ![serving].status = s]
          BY <3>3 DEF RunOne, Recorded
        <4> QED
          BY <2>1, <4>1, <4>2 DEF TypeOK
      <3>4. ASSUME NEW q \in Requests, NEW i \in DOMAIN approvals[q], NEW j \in Jobs,
                   StartRun(q, i, j)
            PROVE  run'[k].status = "absent"
        <4>1. j # k
          BY <1>2, <3>4 DEF StartRun, Enqueue, TypeOK
        <4> QED
          BY <2>1, <3>4, <4>1 DEF StartRun, TypeOK
      <3> QED
        BY <3>2, <3>3, <3>4
    <2> QED
      BY <2>2, <2>3
  <1> QED
    BY <1>1, <1>2 DEF Blank

LEMMA DataSteps ==
  ASSUME TypeOK, DataNext
  PROVE  ChainStep
  <1>1. UNCHANGED <<runs, ckpt>>
    BY RecordShape, StatusShape DEF DataNext, Review, CreatePromotion, Materialize
  <1>2. UNCHANGED BuiltOf \/ \E p \in Promotions : BuiltOf' = BuiltOf \cup {p}
    <2>1. CASE UNCHANGED promotion
      BY <2>1 DEF BuiltOf
    <2>2. ASSUME NEW p \in Promotions, NEW S \in SUBSET Examples, NEW R \in SUBSET Rows,
                 CreatePromotion(p, S, R)
          PROVE  UNCHANGED BuiltOf
      <3>1. promotion[p].status # "ready" /\ promotion'[p].status = "draft"
        BY <2>2 DEF CreatePromotion, TypeOK, Promotion
      <3>2. \A o \in Promotions \ {p} : promotion'[o] = promotion[o]
        BY <2>2 DEF CreatePromotion, TypeOK
      <3> QED
        BY <3>1, <3>2 DEF BuiltOf
    <2>3. ASSUME NEW p \in Promotions, StatusStep(p) PROVE UNCHANGED BuiltOf
      BY <2>3, StatusShape DEF BuiltOf
    <2>4. ASSUME NEW p \in Promotions, Materialize(p), ~UNCHANGED promotion
          PROVE  BuiltOf' = BuiltOf \cup {p}
      <3>1. PICK items \in SUBSET Records :
              promotion' = [promotion EXCEPT ![p].status = "ready", ![p].items = items]
        BY <2>4, MaterializeItems
      <3>2. promotion'[p].status = "ready"
        BY <3>1 DEF TypeOK, Promotion
      <3>3. \A o \in Promotions \ {p} : promotion'[o] = promotion[o]
        BY <3>1 DEF TypeOK
      <3> QED
        BY <3>2, <3>3 DEF BuiltOf
    <2> QED
      BY <2>1, <2>2, <2>3, <2>4, RecordShape DEF DataNext, Review
  <1>3. UNCHANGED <<request, approvals, run, ckpt>>
    BY <1>1 DEF runs
  <1>4. UNCHANGED <<BasisOf, GrantedOf, CauseOf, StagesOf, StagedOf>>
    BY <1>3 DEF BasisOf, GrantedOf, CauseOf, StagesOf, StagedOf, Granted, StageOf
  <1>5. CASE UNCHANGED BuiltOf
    BY <1>4, <1>5
       DEF ChainStep, Models!modelVars, BuiltOf, BasisOf, GrantedOf, CauseOf, StagesOf, StagedOf
  <1>6. ASSUME NEW p \in Promotions, BuiltOf' = BuiltOf \cup {p} PROVE ChainStep
    <2>1. Models!Build(p)
      BY <1>4, <1>6
         DEF Models!Build, BuiltOf, BasisOf, GrantedOf, CauseOf, StagesOf, StagedOf
    <2> QED
      BY <2>1 DEF ChainStep, Models!ModelNext
  <1> QED
    BY <1>2, <1>5, <1>6

(* An approval that is decided grants the request, or decides nothing. *)
LEMMA GrantedShape ==
  ASSUME TypeOK, NEW q \in Requests, NEW i \in DOMAIN approvals[q],
         NEW s \in {"approved", "rejected", "lapsed", "expired"},
         approvals' = [approvals EXCEPT ![q][i] = s]
  PROVE  /\ s # "rejected" => GrantedOf' = GrantedOf \cup {q}
         /\ s = "rejected" /\ approvals[q][i] = "pending" => UNCHANGED GrantedOf
  <1> DEFINE G == {"approved", "lapsed", "expired"}
             A == {"pending", "approved", "rejected", "lapsed", "expired"}
  <1>1. approvals \in [Requests -> Seq(A)] /\ approvals[q] \in Seq(A)
    BY DEF TypeOK
  <1>2. approvals'[q] = [approvals[q] EXCEPT ![i] = s]
    BY <1>1
  <1>3. \A r \in Requests \ {q} : Granted(r)' <=> Granted(r)
    BY <1>1 DEF Granted
  <1>4. DOMAIN approvals'[q] = DOMAIN approvals[q] /\ approvals'[q][i] = s
    BY <1>1, <1>2
  <1>5. \A k \in DOMAIN approvals[q] : k # i => approvals'[q][k] = approvals[q][k]
    BY <1>1, <1>2
  <1>6. s # "rejected" => Granted(q)'
    BY <1>4 DEF Granted
  <1>7. s = "rejected" /\ approvals[q][i] = "pending" => (Granted(q)' <=> Granted(q))
    BY <1>4, <1>5 DEF Granted
  <1> QED
    BY <1>3, <1>6, <1>7 DEF GrantedOf

(* The operations on requests: only the first gives the request a          *)
(* promotion, only a decision grants it.                                   *)
LEMMA RequestSteps ==
  ASSUME TypeOK, RunInv, Blank, NEW q \in Requests,
         \/ \E p \in Promotions : CreateRunRequest(q, p)
         \/ SubmitRunRequest(q) \/ RequestApproval(q)
         \/ \E i \in DOMAIN approvals[q] :
               Decide(q, i) \/ ApprovalLapses(q, i) \/ RefuseLapsedApproval(q, i)
  PROVE  ChainStep
  <1>1. UNCHANGED <<promotion, run, ckpt>>
    BY DEF CreateRunRequest, SubmitRunRequest, RequestApproval, Decide, ApprovalLapses,
           RefuseLapsedApproval, data
  <1>2. UNCHANGED <<BuiltOf, CauseOf, StagesOf, StagedOf>>
    BY <1>1 DEF BuiltOf, CauseOf, StagesOf, StagedOf, StageOf
  <1>3. CASE UNCHANGED <<BasisOf, GrantedOf>>
    BY <1>2, <1>3
       DEF ChainStep, Models!modelVars, BuiltOf, BasisOf, GrantedOf, CauseOf, StagesOf, StagedOf
  <1>4. ASSUME NEW p \in Promotions, CreateRunRequest(q, p) PROVE ChainStep
    <2>1. BasisOf[q] = NoPromotion /\ p \in BuiltOf
      BY <1>4 DEF CreateRunRequest, Blank, BasisOf, BuiltOf
    <2>2. request' = [request EXCEPT ![q] = [promotion |-> p, status |-> "draft"]]
          /\ UNCHANGED approvals
      BY <1>4 DEF CreateRunRequest
    <2>3. BasisOf' = [BasisOf EXCEPT ![q] = p]
      BY <2>2 DEF BasisOf, TypeOK
    <2>4. UNCHANGED GrantedOf
      BY <2>2 DEF GrantedOf, Granted
    <2>5. Models!Ask(q, p)
      BY <1>2, <2>1, <2>3, <2>4
         DEF Models!Ask, BuiltOf, BasisOf, GrantedOf, CauseOf, StagesOf, StagedOf
    <2> QED
      BY <2>5 DEF ChainStep, Models!ModelNext
  <1>5. ASSUME UNCHANGED request
               \/ \E s \in {"awaiting_approval", "approved", "rejected"} :
                     request' = [request EXCEPT ![q].status = s]
        PROVE  UNCHANGED BasisOf
    <2>1. CASE UNCHANGED request
      BY <2>1 DEF BasisOf
    <2>2. ASSUME NEW s \in {"awaiting_approval", "approved", "rejected"},
                 request' = [request EXCEPT ![q].status = s]
          PROVE  UNCHANGED BasisOf
      <3>1. request[q] \in Request /\ request'[q] = [request[q] EXCEPT !.status = s]
        BY <2>2 DEF TypeOK
      <3>2. request'[q].promotion = request[q].promotion
        BY <3>1, Zenon DEF Request
      <3>3. \A r \in Requests \ {q} : request'[r] = request[r]
        BY <2>2 DEF TypeOK
      <3> QED
        BY <3>2, <3>3 DEF BasisOf
    <2> QED
      BY <1>5, <2>1, <2>2
  <1>6. CASE SubmitRunRequest(q)
    <2>1. UNCHANGED GrantedOf
      BY <1>6 DEF SubmitRunRequest, GrantedOf, Granted
    <2>2. request' = [request EXCEPT ![q].status = "awaiting_approval"]
      BY <1>6 DEF SubmitRunRequest
    <2> QED
      BY <1>3, <1>5, <2>1, <2>2
  <1>7. CASE RequestApproval(q)
    <2>1. approvals' = [approvals EXCEPT ![q] = Append(@, "pending")] /\ UNCHANGED request
      BY <1>7 DEF RequestApproval
    <2> DEFINE A == {"pending", "approved", "rejected", "lapsed", "expired"}
    <2>a. approvals \in [Requests -> Seq(A)]
      BY DEF TypeOK
    <2>b. \A r \in Requests \ {q} : approvals'[r] = approvals[r]
      BY <2>1, <2>a
    <2>c. approvals[q] \in Seq(A) /\ approvals'[q] = Append(approvals[q], "pending")
      BY <2>1, <2>a
    <2>d. /\ \A k \in DOMAIN approvals[q] : /\ k \in DOMAIN approvals'[q]
                                            /\ approvals'[q][k] = approvals[q][k]
          /\ \A k \in DOMAIN approvals'[q] : \/ k \in DOMAIN approvals[q]
                                             \/ approvals'[q][k] = "pending"
      BY <2>c
    <2>e. Granted(q)' <=> Granted(q)
      BY <2>d DEF Granted
    <2>2. \A r \in Requests : Granted(r)' <=> Granted(r)
      BY <2>b, <2>e DEF Granted
    <2> QED
      BY <1>3, <1>5, <2>1, <2>2 DEF GrantedOf
  <1>8. ASSUME NEW i \in DOMAIN approvals[q], NEW s \in {"approved", "rejected"},
               approvals[q][i] = "pending",
               approvals' = [approvals EXCEPT ![q][i] = s],
               request' \in {request, [request EXCEPT ![q].status = s]}
        PROVE  ChainStep
    <2>1. UNCHANGED BasisOf
      BY <1>5, <1>8
    <2>2. CASE s = "rejected"
      BY <1>3, <1>8, <2>1, <2>2, GrantedShape
    <2>3. CASE s = "approved"
      <3>1. BasisOf[q] # NoPromotion
        BY <1>8, NothingAssumption DEF RunInv, RequestInv, RequestOnReady, BasisOf, TypeOK
      <3>2. GrantedOf' = GrantedOf \cup {q}
        BY <1>8, <2>3, GrantedShape
      <3>3. Models!Grant(q)
        BY <1>2, <2>1, <3>1, <3>2
           DEF Models!Grant, BuiltOf, BasisOf, GrantedOf, CauseOf, StagesOf, StagedOf
      <3> QED
        BY <3>3 DEF ChainStep, Models!ModelNext
    <2> QED
      BY <2>2, <2>3
  <1>9. ASSUME NEW i \in DOMAIN approvals[q],
               ApprovalLapses(q, i) \/ RefuseLapsedApproval(q, i)
        PROVE  ChainStep
    <2>1. PICK s \in {"lapsed", "expired"} : approvals' = [approvals EXCEPT ![q][i] = s]
      BY <1>9 DEF ApprovalLapses, RefuseLapsedApproval
    <2>2. q \in GrantedOf /\ UNCHANGED request
      BY <1>9 DEF ApprovalLapses, RefuseLapsedApproval, GrantedOf, Granted
    <2>3. UNCHANGED GrantedOf
      BY <2>1, <2>2, GrantedShape
    <2> QED
      BY <1>3, <1>5, <2>2, <2>3
  <1> QED
    BY <1>4, <1>6, <1>7, <1>8, <1>9 DEF Decide

(* The run is started when its row is written, and never for a request     *)
(* nobody granted.                                                         *)
LEMMA StartSteps ==
  ASSUME TypeOK, RunInv, DecisionInv, Blank,
         NEW q \in Requests, NEW i \in DOMAIN approvals[q], NEW j \in Jobs,
         StartRun(q, i, j)
  PROVE  ChainStep
  <1>1. UNCHANGED <<promotion, approvals, ckpt>>
    BY DEF StartRun, data
  <1>2. UNCHANGED <<BuiltOf, GrantedOf, StagedOf>>
    BY <1>1 DEF BuiltOf, GrantedOf, Granted, StagedOf
  <1>3. UNCHANGED BasisOf
    <2>1. CASE UNCHANGED request
      BY <2>1 DEF BasisOf
    <2>2. CASE request' = [request EXCEPT ![q].status = "started"]
      <3>1. request[q] \in Request /\ request'[q] = [request[q] EXCEPT !.status = "started"]
        BY <2>2 DEF TypeOK
      <3>2. request'[q].promotion = request[q].promotion
        BY <3>1, Zenon DEF Request
      <3>3. \A r \in Requests \ {q} : request'[r] = request[r]
        BY <2>2 DEF TypeOK
      <3> QED
        BY <3>2, <3>3 DEF BasisOf
    <2> QED
      BY <2>1, <2>2 DEF StartRun
  <1>4. CASE UNCHANGED run
    <2>1. UNCHANGED <<CauseOf, StagesOf>>
      BY <1>1, <1>4 DEF CauseOf, StagesOf, StageOf
    <2> QED
      BY <1>2, <1>3, <2>1
         DEF ChainStep, Models!modelVars, BuiltOf, BasisOf, GrantedOf, CauseOf, StagesOf,
             StagedOf
  <1>5. CASE run' = [run EXCEPT ![j] = [request |-> q, status |-> "queued"]]
    <2>1. run[j].status = "absent" /\ ckpt[j].status = "absent"
      BY DEF StartRun, NextId, Blank, DecisionInv, FreshCheckpoint
    <2>2. run'[j] = [request |-> q, status |-> "queued"]
          /\ \A r \in Jobs \ {j} : run'[r] = run[r]
      BY <1>5 DEF TypeOK
    <2>3. CauseOf' = [CauseOf EXCEPT ![j] = q]
      <3>1. run'[j].request = q
        BY <2>2
      <3>2. \A r \in Jobs : run'[r].request = IF r = j THEN q ELSE run[r].request
        BY <2>2, <3>1
      <3> QED
        BY <3>2, Zenon DEF CauseOf
    <2>4a. run'[j].status = "queued" /\ ckpt'[j].status = "absent"
      BY <1>1, <2>1, <2>2
    <2>4. StageOf(j) = "none" /\ StageOf(j)' = "started"
      BY <2>1, <2>4a DEF StageOf
    <2>5. \A r \in Jobs \ {j} : StageOf(r)' = StageOf(r)
      BY <1>1, <2>2 DEF StageOf
    <2>6. StagesOf' = [StagesOf EXCEPT ![j] = "started"] /\ StagesOf[j] = "none"
      BY <2>4, <2>5 DEF StagesOf
    <2>7. q \in GrantedOf
      BY DEF StartRun, GrantedOf, Granted
    <2>8. Models!Start(j, q)
      BY <1>2, <1>3, <2>3, <2>6, <2>7
         DEF Models!Start, BuiltOf, BasisOf, GrantedOf, CauseOf, StagesOf, StagedOf
    <2> QED
      BY <2>8 DEF ChainStep, Models!ModelNext
  <1> QED
    BY <1>4, <1>5 DEF StartRun

(* A run's result is recorded once, while the server executes it.          *)
LEMMA ExecutionSteps ==
  ASSUME TypeOK, RunInv, DecisionInv, WorkerRuns \/ RunOne \/ \E j \in Jobs : QueueJob(j)
  PROVE  ChainStep
  <1>1. UNCHANGED <<promotion, request, approvals>>
    BY DEF WorkerRuns, RunOne, QueueJob, data
  <1>2. UNCHANGED <<BuiltOf, BasisOf, GrantedOf>>
    BY <1>1 DEF BuiltOf, BasisOf, GrantedOf, Granted
  <1>3. CASE UNCHANGED <<run, ckpt>>
    <2>1. UNCHANGED <<CauseOf, StagesOf, StagedOf>>
      BY <1>3 DEF CauseOf, StagesOf, StageOf, StagedOf
    <2> QED
      BY <1>2, <2>1
         DEF ChainStep, Models!modelVars, BuiltOf, BasisOf, GrantedOf, CauseOf, StagesOf,
             StagedOf
  <1>4. CASE RunOne /\ ~UNCHANGED <<run, ckpt>>
    <2>1. /\ serving \in Jobs
          /\ run[serving].status # "absent" /\ ckpt[serving].status = "absent"
          /\ run[serving] \in Run /\ ckpt[serving] \in Checkpoint
      BY <1>4 DEF RunOne, RunInv, ServingInv, DecisionInv, FreshCheckpoint, TypeOK
    <2>2. PICK s \in {"completed", "failed", "cancelled"} :
            run' = [run EXCEPT ![serving].status = s]
      BY <1>4 DEF RunOne, Recorded
    <2>3. /\ run'[serving] = [run[serving] EXCEPT !.status = s]
          /\ \A r \in Jobs \ {serving} : run'[r] = run[r]
      BY <2>1, <2>2 DEF TypeOK
    <2>4. run'[serving].status = s /\ run'[serving].request = run[serving].request
      BY <2>1, <2>3, Zenon DEF Run
    <2>5. UNCHANGED CauseOf
      <3>1. \A r \in Jobs : run'[r].request = run[r].request
        BY <2>3, <2>4
      <3> QED
        BY <3>1, Zenon DEF CauseOf
    <2>6. StageOf(serving) = "started"
      BY <2>1 DEF StageOf
    <2>7. CASE UNCHANGED ckpt
      <3>1. \A r \in Jobs : /\ run'[r].status = "absent" <=> run[r].status = "absent"
                            /\ ckpt'[r].status = ckpt[r].status
        BY <2>1, <2>3, <2>4, <2>7
      <3>2. \A r \in Jobs : StageOf(r)' = StageOf(r)
        BY <3>1 DEF StageOf
      <3>3. UNCHANGED StagesOf
        BY <3>2, Zenon DEF StagesOf
      <3>4. UNCHANGED StagedOf
        BY <2>7 DEF StagedOf
      <3> QED
        BY <1>2, <2>5, <3>3, <3>4
           DEF ChainStep, Models!modelVars, BuiltOf, BasisOf, GrantedOf, CauseOf, StagesOf,
               StagedOf
    <2>8. CASE ~UNCHANGED ckpt
      <3>1. PICK j \in Jobs : ckpt' = [ckpt EXCEPT ![serving].status = "created",
                                                   ![serving].job = j]
        BY <1>4, <2>8, TakeTyped DEF RunOne
      <3>2. /\ ckpt'[serving] = [[ckpt[serving] EXCEPT !.status = "created"] EXCEPT !.job = j]
            /\ \A r \in Jobs \ {serving} : ckpt'[r] = ckpt[r]
        BY <2>1, <3>1 DEF TypeOK
      <3>3. ckpt'[serving].status = "created" /\ ckpt'[serving].model = ckpt[serving].model
        <4> DEFINE c == [ckpt[serving] EXCEPT !.status = "created"]
        <4>1. c \in Checkpoint
          BY <2>1, ChangedCheckpoint
        <4>2. c.status = "created" /\ c.model = ckpt[serving].model
          BY <2>1, Zenon DEF Checkpoint
        <4> HIDE DEF c
        <4>3. [c EXCEPT !.job = j].status = c.status /\ [c EXCEPT !.job = j].model = c.model
          BY <4>1, Zenon DEF Checkpoint
        <4> QED
          BY <3>2, <4>2, <4>3 DEF c
      <3>4. PICK n \in Jobs : n = serving
        BY <2>1
      <3>5. StageOf(n) = "started" /\ StageOf(n)' = "trained"
        BY <2>6, <3>3, <3>4 DEF StageOf
      <3>5o. \A r \in Jobs \ {n} : StageOf(r)' = StageOf(r)
        BY <2>3, <3>2, <3>4 DEF StageOf
      <3>6. StagesOf' = [StagesOf EXCEPT ![n] = "trained"] /\ StagesOf[n] = "started"
        BY <3>5, <3>5o, Zenon DEF StagesOf
      <3>7. UNCHANGED StagedOf
        BY <2>1, <3>2, <3>3 DEF StagedOf
      <3>8. Models!Advance(n, "trained")
        BY <1>2, <2>5, <3>6, <3>7
           DEF Models!Advance, Models!Follows, BuiltOf, BasisOf, GrantedOf, CauseOf, StagesOf,
               StagedOf
      <3> QED
        BY <3>8 DEF ChainStep, Models!ModelNext
    <2> QED
      BY <2>7, <2>8
  <1> QED
    BY <1>3, <1>4 DEF WorkerRuns, QueueJob

(* One checkpoint's row is rewritten. *)
LEMMA RowSteps ==
  ASSUME TypeOK, UNCHANGED <<data, runs>>, NEW r \in Jobs, NEW c \in Checkpoint,
         ckpt' = [ckpt EXCEPT ![r] = c],
         \/ c.status = ckpt[r].status /\ (c.model <=> ckpt[r].model)
         \/ /\ ckpt[r].status \in {"created", "verified"}
            /\ c.status \in {"verified", "corrupt", "evaluation_pending", "evaluated"}
            /\ c.model <=> ckpt[r].model
         \/ /\ ckpt[r].status = "evaluated"
            /\ c.status \in {"evaluated", "accepted_candidate"} /\ c.model
         \/ /\ ckpt[r].status = "evaluated" /\ c.status = "rejected"
            /\ c.model <=> ckpt[r].model
  PROVE  ChainStep
  <1>1. UNCHANGED <<promotion, request, approvals, run>>
    BY DEF data, runs
  <1>2. UNCHANGED <<BuiltOf, BasisOf, GrantedOf, CauseOf>>
    BY <1>1 DEF BuiltOf, BasisOf, GrantedOf, Granted, CauseOf
  <1>3. ckpt'[r] = c /\ \A s \in Jobs \ {r} : ckpt'[s] = ckpt[s]
    BY DEF TypeOK
  <1>4. \A s \in Jobs \ {r} : StageOf(s)' = StageOf(s)
    BY <1>1, <1>3 DEF StageOf
  <1>5. StagesOf' = [StagesOf EXCEPT ![r] = StageOf(r)'] /\ StagesOf[r] = StageOf(r)
    BY <1>4, Zenon DEF StagesOf
  <1>6. StageOf(r)' = StageOf(r) => UNCHANGED StagesOf
    BY <1>4, Zenon DEF StagesOf
  <1>7. /\ (c.model <=> ckpt[r].model) => UNCHANGED StagedOf
        /\ c.model => StagedOf' = StagedOf \cup {r}
    BY <1>3 DEF StagedOf
  <1>8. CASE c.status = ckpt[r].status /\ (c.model <=> ckpt[r].model)
    <2>1. StageOf(r)' = StageOf(r)
      BY <1>1, <1>3, <1>8 DEF StageOf
    <2> QED
      BY <1>2, <1>6, <1>7, <1>8, <2>1
         DEF ChainStep, Models!modelVars, BuiltOf, BasisOf, GrantedOf, CauseOf, StagesOf,
             StagedOf
  <1>9. ASSUME NEW next \in {"trained", "lost", "tested", "accepted", "rejected"},
               <<StageOf(r), next>> \in Models!Follows, StageOf(r)' = next,
               IF next = "accepted" THEN c.model ELSE c.model <=> ckpt[r].model
        PROVE  ChainStep
    <2>1. Models!Advance(r, next)
      BY <1>2, <1>5, <1>7, <1>9
         DEF Models!Advance, BuiltOf, BasisOf, GrantedOf, CauseOf, StagesOf, StagedOf
    <2> QED
      BY <2>1 DEF ChainStep, Models!ModelNext
  <1>10. CASE /\ ckpt[r].status \in {"created", "verified"}
              /\ c.status \in {"verified", "corrupt", "evaluation_pending", "evaluated"}
              /\ c.model <=> ckpt[r].model
    <2>1. StageOf(r) = "trained"
      BY <1>10 DEF StageOf
    <2>2. CASE c.status = "verified"
      <3>1. StageOf(r)' = StageOf(r)
        BY <1>3, <2>1, <2>2 DEF StageOf
      <3> QED
        BY <1>2, <1>6, <1>7, <1>10, <3>1
           DEF ChainStep, Models!modelVars, BuiltOf, BasisOf, GrantedOf, CauseOf, StagesOf,
               StagedOf
    <2>3. CASE c.status \in {"corrupt", "evaluation_pending"}
      <3>1. StageOf(r)' = "lost"
        BY <1>3, <2>3 DEF StageOf
      <3> QED
        BY <1>9, <1>10, <2>1, <3>1 DEF Models!Follows
    <2>4. CASE c.status = "evaluated"
      <3>1. StageOf(r)' = "tested"
        BY <1>3, <2>4 DEF StageOf
      <3> QED
        BY <1>9, <1>10, <2>1, <3>1 DEF Models!Follows
    <2> QED
      BY <1>10, <2>2, <2>3, <2>4
  <1>11. CASE /\ ckpt[r].status = "evaluated"
              /\ c.status \in {"evaluated", "accepted_candidate"} /\ c.model
    <2>1. StageOf(r) = "tested"
      BY <1>11 DEF StageOf
    <2>2. CASE c.status = "evaluated"
      <3>1. StageOf(r)' = StageOf(r)
        BY <1>3, <2>1, <2>2 DEF StageOf
      <3>2. Models!Stage(r)
        BY <1>2, <1>5, <1>6, <1>7, <1>11, <2>1, <3>1
           DEF Models!Stage, BuiltOf, BasisOf, GrantedOf, CauseOf, StagesOf, StagedOf
      <3> QED
        BY <3>2 DEF ChainStep, Models!ModelNext
    <2>3. CASE c.status = "accepted_candidate"
      <3>1. StageOf(r)' = "accepted"
        BY <1>3, <2>3 DEF StageOf
      <3> QED
        BY <1>9, <1>11, <2>1, <3>1 DEF Models!Follows
    <2> QED
      BY <1>11, <2>2, <2>3
  <1>12. CASE /\ ckpt[r].status = "evaluated" /\ c.status = "rejected"
              /\ (c.model <=> ckpt[r].model)
    <2>1. StageOf(r) = "tested" /\ StageOf(r)' = "rejected"
      BY <1>3, <1>12 DEF StageOf
    <2> QED
      BY <1>9, <1>12, <2>1 DEF Models!Follows
  <1> QED
    BY <1>8, <1>10, <1>11, <1>12

(* The operations on a run's checkpoint. *)
LEMMA OperationSteps ==
  ASSUME TypeOK, NEW r \in Jobs, UNCHANGED <<data, runs>>,
         Verify(r) \/ Evaluate(r) \/ CompareRegressed(r) \/ FinalizeReport(r)
           \/ Accept(r) \/ Reject(r) \/ AskForMore(r)
  PROVE  ChainStep
  <1> DEFINE c == ckpt[r]
  <1>1. c \in Checkpoint /\ ckpt \in [Jobs -> Checkpoint]
    BY DEF TypeOK
  <1> HIDE DEF c
  <1>2. ASSUME NEW s \in {"verified", "corrupt", "evaluation_pending", "evaluated", "rejected",
                          "accepted_candidate"},
               NEW d \in {"none", "accepted", "rejected", "needs_more_testing"}
        PROVE  /\ [c EXCEPT !.status = s] \in Checkpoint
               /\ [c EXCEPT !.status = s].status = s
               /\ [c EXCEPT !.status = s].model = c.model
               /\ [c EXCEPT !.decision = d] \in Checkpoint
               /\ [c EXCEPT !.decision = d].status = c.status
               /\ [c EXCEPT !.decision = d].model = c.model
               /\ [c EXCEPT !.model = TRUE] \in Checkpoint
               /\ [c EXCEPT !.model = TRUE].status = c.status
               /\ [c EXCEPT !.model = TRUE].model = TRUE
    BY <1>1, Zenon DEF Checkpoint
  <1>3. ASSUME NEW s \in {"verified", "corrupt", "evaluation_pending", "evaluated"},
               c.status \in {"created", "verified"},
               ckpt' = [ckpt EXCEPT ![r].status = s]
        PROVE  ChainStep
    <2>1. ckpt' = [ckpt EXCEPT ![r] = [c EXCEPT !.status = s]]
      BY <1>3 DEF c
    <2>2. /\ [c EXCEPT !.status = s] \in Checkpoint
          /\ [c EXCEPT !.status = s].status = s
          /\ [c EXCEPT !.status = s].model = c.model
      BY <1>2
    <2> DEFINE new == [c EXCEPT !.status = s]
    <2> HIDE DEF new
    <2> QED
      BY <1>3, <2>1, <2>2, RowSteps DEF c, new
  <1>4. CASE Verify(r) \/ Evaluate(r)
    BY <1>3, <1>4 DEF Verify, Evaluate, c
  <1>5. CASE CompareRegressed(r)
    <2> DEFINE new == [c EXCEPT !.regressed = TRUE]
    <2>1. ckpt' = [ckpt EXCEPT ![r] = new]
      BY <1>5 DEF CompareRegressed, c
    <2>2. new \in Checkpoint /\ new.status = c.status /\ new.model = c.model
      BY <1>1, Zenon DEF Checkpoint
    <2> HIDE DEF new
    <2> QED
      BY <2>1, <2>2, RowSteps DEF c
  <1>6. CASE FinalizeReport(r)
    <2> DEFINE new == [c EXCEPT !.reported = TRUE]
    <2>1. ckpt' = [ckpt EXCEPT ![r] = new]
      BY <1>6 DEF FinalizeReport, c
    <2>2. new \in Checkpoint /\ new.status = c.status /\ new.model = c.model
      BY <1>1, Zenon DEF Checkpoint
    <2> HIDE DEF new
    <2> QED
      BY <2>1, <2>2, RowSteps DEF c
  <1>7. ASSUME NEW d \in {"rejected", "needs_more_testing"},
               ckpt' = [ckpt EXCEPT ![r].decision = d]
        PROVE  ChainStep
    <2> DEFINE new == [c EXCEPT !.decision = d]
    <2>1. ckpt' = [ckpt EXCEPT ![r] = new]
      BY <1>7 DEF c
    <2>2. new \in Checkpoint /\ new.status = c.status /\ new.model = c.model
      BY <1>2
    <2> HIDE DEF new
    <2> QED
      BY <2>1, <2>2, RowSteps DEF c
  <1>8. CASE AskForMore(r)
    BY <1>7, <1>8 DEF AskForMore
  <1>9. CASE Reject(r)
    <2>1. c.status = "evaluated"
      BY <1>9 DEF Reject, Decidable, c
    <2>2. CASE ckpt' = [ckpt EXCEPT ![r].decision = "rejected", ![r].status = "rejected"]
      <3> DEFINE mid == [c EXCEPT !.decision = "rejected"]
                 new == [mid EXCEPT !.status = "rejected"]
      <3>1. ckpt' = [ckpt EXCEPT ![r] = new]
        BY <2>2 DEF c
      <3>2. mid \in Checkpoint /\ mid.model = c.model
        BY <1>2
      <3> HIDE DEF mid
      <3>3. new \in Checkpoint /\ new.status = "rejected" /\ new.model = mid.model
        BY <3>2, Zenon DEF Checkpoint
      <3> HIDE DEF new
      <3> QED
        BY <2>1, <3>1, <3>2, <3>3, RowSteps DEF c
    <2> QED
      BY <1>7, <1>9, <2>2 DEF Reject
  <1>10. CASE Accept(r)
    <2> DEFINE made     == [c EXCEPT !.model = TRUE]
               decided  == [made EXCEPT !.decision = "accepted"]
               accepted == [decided EXCEPT !.status = "accepted_candidate"]
    <2>1. c.status = "evaluated"
      BY <1>10 DEF Accept, Decidable, c
    <2>2. \E new \in {made, decided, accepted} : ckpt' = [ckpt EXCEPT ![r] = new]
      BY <1>10 DEF Accept, c
    <2>3. made \in Checkpoint /\ made.status = c.status /\ made.model = TRUE
      BY <1>2
    <2> HIDE DEF made
    <2>4. decided \in Checkpoint /\ decided.status = made.status /\ decided.model = made.model
      BY <2>3, Zenon DEF Checkpoint
    <2> HIDE DEF decided
    <2>5. /\ accepted \in Checkpoint /\ accepted.status = "accepted_candidate"
          /\ accepted.model = decided.model
      BY <2>4, Zenon DEF Checkpoint
    <2> HIDE DEF accepted
    <2> QED
      BY <2>1, <2>2, <2>3, <2>4, <2>5, RowSteps DEF c
  <1> QED
    BY <1>4, <1>5, <1>6, <1>8, <1>9, <1>10

(* Models in staging come out of the chain ReviewedModels describes,       *)
(* wherever the operations are cut, whichever jobs the server runs for a   *)
(* run, and however approvals lapse and requests are decided again.        *)
THEOREM ReviewedChain == Spec => ModelsAreReviewed
  <1>1. Init => Models!ModelInit
    BY DEF Init, Models!ModelInit, Granted, StageOf, NoCheckpoint
  <1>2. TypeOK /\ RunInv /\ DecisionInv /\ Blank /\ [Next]_vars => ChainStep
    <2> SUFFICES ASSUME TypeOK, RunInv, DecisionInv, Blank, [Next]_vars PROVE ChainStep
      OBVIOUS
    <2>1. CASE UNCHANGED vars
      BY <2>1 DEF ChainStep, Models!modelVars, vars, data, runs, Granted, StageOf
    <2>2. ASSUME NEW r \in Jobs,
                 Verify(r) \/ Evaluate(r) \/ CompareRegressed(r) \/ FinalizeReport(r)
                   \/ Accept(r) \/ Reject(r) \/ AskForMore(r)
          PROVE ChainStep
      <3>1. UNCHANGED <<data, runs>>
        BY <2>2 DEF Verify, Evaluate, CompareRegressed, FinalizeReport, Accept, Reject,
                    AskForMore, CheckpointStep
      <3> QED
        BY <2>2, <3>1, OperationSteps
    <2>3. CASE Next
      BY <2>2, <2>3, DataSteps, RequestSteps, StartSteps, ExecutionSteps
         DEF Next, DataNext, RecordStep, StatusStep
    <2> QED
      BY <2>1, <2>3
  <1> QED
    BY InitTyped, StepTyped, InitRun, StepRun, InitDecision, StepDecision, InitBlank, StepBlank,
       <1>1, <1>2, PTL DEF Spec, ModelsAreReviewed, Models!ModelSpec, ChainStep
=============================================================================
