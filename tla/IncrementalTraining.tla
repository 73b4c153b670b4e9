------------------------ MODULE IncrementalTraining ------------------------
(***************************************************************************)
(* From a reviewed example to a model in staging: examples are reviewed    *)
(* and promoted into a dataset version, a run request on that version is   *)
(* approved and started, the run queues a training job and records its     *)
(* result, and the checkpoint is verified, evaluated and decided on.       *)
(*                                                                         *)
(*   backend/services/training_example_transformation_service.py           *)
(*   backend/services/training_dataset_promotion_service.py                *)
(*   backend/services/dataset_service.py and dataset_versioning.py         *)
(*   backend/services/pretraining_bridge.py                                *)
(*   backend/services/incremental_training_*_service.py                    *)
(*   backend/database/repositories/training_incremental.py                 *)
(*                                                                         *)
(* Each operation is a chain of short transactions that a crash may cut;   *)
(* it is one action whose disjuncts say how far it came.  The server does  *)
(* one at a time, and training workers run beside it.                      *)
(***************************************************************************)
EXTENDS Naturals, Sequences, Functions

CONSTANTS
    Examples,     \* rows of training_example_candidates
    Records,      \* rows of dataset_records, made or not
    Segments,     \* texts of corpus releases
    Promotions,   \* rows of training_dataset_promotion_requests
    Requests,     \* rows of incremental_training_run_requests whose strategy trains
    VersionOf,    \* the version a model made from a job's result would get
    NoPromotion,  \* the promotion of a request not made yet
    NoRequest,    \* the request of a run not started yet
    MaxTexts,     \* bound: revisions of an example's text
    MaxApprovals, \* bound: approvals asked for, of each request
    MaxJobs       \* bound: training jobs queued

Texts == Examples \X (0 .. MaxTexts) \* no two have the same content_hash
Jobs  == 1 .. MaxJobs                \* row ids; the run a job was made for goes by the same id

ASSUME BoundsAssumption == MaxTexts \in Nat /\ MaxApprovals \in Nat /\ MaxJobs \in Nat
ASSUME SegmentsAssumption == Segments \cap Texts = {} \* they are hashed in another way
ASSUME NothingAssumption == NoPromotion \notin Promotions /\ NoRequest \notin Requests

VARIABLES
    example,   \* each example: its text, its review
    record,    \* dataset records: their text, whether approved
    promotion, \* each promotion: what it selects, the items of its dataset version
    request,   \* each run request
    approvals, \* its approvals, oldest first
    job,       \* training jobs; "stopped": paused, cancelled, or left by a dead worker
    queue,     \* the queued ones, next first
    serving,   \* the run the server is executing, 0 for none
    run,       \* rows of incremental_training_runs
    ckpt,      \* the checkpoint recorded for each run
    orderly    \* history: no review was cut or came after its example was selected

data == <<example, record, promotion>>
runs == <<request, approvals, job, queue, serving, run>>
vars == <<data, runs, ckpt, orderly>>

(* endorsed: the last decision on the present text was to approve it.      *)
(* 'needs_revision' counts as rejected.                                    *)
Example   == [text: 0 .. MaxTexts, status: {"pending_review", "approved", "rejected"},
              endorsed: BOOLEAN]

(* "review" is draft, pending review, rejected and archived: each can be   *)
(* made of each other with no effect on the text, which can be edited on   *)
(* the way.                                                                *)
Record    == [status: {"absent", "review", "approved"}, text: Texts \cup Segments \cup {<<>>}]

(* replay: the records of its replay plan.  A dataset version keeps rows,  *)
(* not texts.                                                              *)
Promotion == [status: {"absent", "draft", "awaiting_approval", "approved", "lapsed",
                       "expired", "ready"},
              selected: SUBSET Examples, replay: SUBSET Records, items: SUBSET Records]
Request   == [promotion: Promotions \cup {NoPromotion},
              status: {"absent", "draft", "awaiting_approval", "approved", "rejected", "started"}]

Run       == [request: Requests \cup {NoRequest},
              status: {"absent", "queued", "completed", "failed", "cancelled"}]

(* job: the job the checkpoint was made by.  regressed: a comparison says  *)
(* major_regression.  reported: the run has a report.  decision: the       *)
(* latest acceptance row, with or without conditions.  model: it was       *)
(* promoted to staging.                                                    *)
Checkpoint == [status: {"absent", "created", "verified", "corrupt", "evaluation_pending",
                        "evaluated", "accepted_candidate", "rejected"},
               job: Jobs \cup {0}, regressed: BOOLEAN, reported: BOOLEAN,
               decision: {"none", "accepted", "rejected", "needs_more_testing"},
               model: BOOLEAN]

TypeOK ==
    /\ example \in [Examples -> Example]
    /\ record \in [Records -> Record]
    /\ promotion \in [Promotions -> Promotion]
    /\ request \in [Requests -> Request]
    /\ approvals \in [Requests -> Seq({"pending", "approved", "rejected", "lapsed", "expired"})]
    /\ job \in [Jobs -> {"absent", "queued", "completed", "failed", "stopped"}]
    /\ queue \in Seq(Jobs)
    /\ serving \in Jobs \cup {0}
    /\ run \in [Jobs -> Run]
    /\ ckpt \in [Jobs -> Checkpoint]
    /\ orderly \in BOOLEAN

NoCheckpoint == [status |-> "absent", job |-> 0, regressed |-> FALSE, reported |-> FALSE,
                 decision |-> "none", model |-> FALSE]

Init ==
    /\ example = [e \in Examples |-> [text |-> 0, status |-> "pending_review", endorsed |-> FALSE]]
    /\ record = [r \in Records |-> [status |-> "absent", text |-> <<>>]]
    /\ promotion = [p \in Promotions |-> [status |-> "absent", selected |-> {},
                                          replay |-> {}, items |-> {}]]
    /\ request = [q \in Requests |-> [promotion |-> NoPromotion, status |-> "absent"]]
    /\ approvals = [q \in Requests |-> <<>>]
    /\ job = [j \in Jobs |-> "absent"]
    /\ queue = <<>>
    /\ serving = 0
    /\ run = [r \in Jobs |-> [request |-> NoRequest, status |-> "absent"]]
    /\ ckpt = [r \in Jobs |-> NoCheckpoint]
    /\ orderly = TRUE

-----------------------------------------------------------------------------
(* Examples, dataset records, and the dataset version made of them. *)

Selected(e) == \E p \in Promotions : e \in promotion[p].selected
TextOf(e)   == <<e, example[e].text>>
Endorsed    == {TextOf(e) : e \in {f \in Examples : example[f].endorsed}}

Made(r) == record[r].status # "absent"
Rows    == {r \in Records : Made(r)}

(* No record has the text, whatever its status. *)
Free(text) == \A r \in Rows : record[r].text # text

(* Cut before the status is written: a revised text has taken the place of *)
(* the old one and the old status stands.                                  *)
Review(e) ==
    /\ serving = 0
    /\ \E ok \in BOOLEAN, t \in {example[e].text, example[e].text + 1} :
          /\ t <= MaxTexts
          /\ \/ /\ example' = [example EXCEPT ![e] = [text |-> t, endorsed |-> ok,
                                  status |-> IF ok THEN "approved" ELSE "rejected"]]
                /\ orderly' = (orderly /\ ~Selected(e))
             \/ /\ t # example[e].text
                /\ example' = [example EXCEPT ![e].text = t, ![e].endorsed = ok]
                /\ orderly' = FALSE
    /\ UNCHANGED <<record, promotion, runs, ckpt>>

(* A record made by hand, from a document, or by an import. *)
AddRecord(r, text) ==
    /\ serving = 0
    /\ ~Made(r)
    /\ Free(text)
    /\ record' = [record EXCEPT ![r] = [status |-> "review", text |-> text]]
    /\ UNCHANGED <<example, promotion, runs, ckpt, orderly>>

(* A record made of a corpus release, approved and looked up nowhere.      *)
BridgeRecord(r, text) ==
    /\ serving = 0
    /\ ~Made(r)
    /\ record' = [record EXCEPT ![r] = [status |-> "approved", text |-> text]]
    /\ UNCHANGED <<example, promotion, runs, ckpt, orderly>>

EditRecord(r, text) ==
    /\ serving = 0
    /\ record[r].status = "review"
    /\ Free(text)
    /\ record' = [record EXCEPT ![r].text = text]
    /\ UNCHANGED <<example, promotion, runs, ckpt, orderly>>

(* Approved, or archived and restored. *)
ReviewRecord(r) ==
    /\ serving = 0
    /\ Made(r)
    /\ record' = [record EXCEPT ![r].status = IF @ = "review" THEN "approved" ELSE "review"]
    /\ UNCHANGED <<example, promotion, runs, ckpt, orderly>>

(* Mutant: only a rejected example is refused. *)
CreateOfUnrejected(p, S, R) ==
    /\ serving = 0
    /\ promotion[p].status = "absent"
    /\ S # {}
    /\ \A e \in S : example[e].status # "rejected"
    /\ promotion' = [promotion EXCEPT ![p].status = "draft", ![p].selected = S, ![p].replay = R]
    /\ UNCHANGED <<example, record, runs, ckpt, orderly>>

(* The contamination recheck may refuse it.  The replay plan is older: the *)
(* records it names were approved, and in the train split of some version, *)
(* when it was made.                                                       *)
CreatePromotion(p, S, R) ==
    /\ serving = 0
    /\ promotion[p].status = "absent"
    /\ S # {}
    /\ \A e \in S : example[e].status = "approved"
    /\ promotion' = [promotion EXCEPT ![p].status = "draft", ![p].selected = S, ![p].replay = R]
    /\ UNCHANGED <<example, record, runs, ckpt, orderly>>

SubmitPromotion(p) ==
    /\ serving = 0
    /\ promotion[p].status = "draft"
    /\ promotion' = [promotion EXCEPT ![p].status = "awaiting_approval"]
    /\ UNCHANGED <<example, record, runs, ckpt, orderly>>

ApprovePromotion(p) ==
    /\ serving = 0
    /\ promotion[p].status \in {"draft", "awaiting_approval"}
    /\ promotion' = [promotion EXCEPT ![p].status = "approved"]
    /\ UNCHANGED <<example, record, runs, ckpt, orderly>>

PromotionLapses(p) ==
    /\ promotion[p].status = "approved"
    /\ promotion' = [promotion EXCEPT ![p].status = "lapsed"]
    /\ UNCHANGED <<example, record, runs, ckpt, orderly>>

RefuseLapsedPromotion(p) ==
    /\ serving = 0
    /\ promotion[p].status = "lapsed"
    /\ promotion' = [promotion EXCEPT ![p].status = "expired"]
    /\ UNCHANGED <<example, record, runs, ckpt, orderly>>

(* The rows N are made of the examples of, all approved but those left.    *)
MakeRecords(N, of, left) ==
    record' = [r \in Records |->
                  IF r \in N THEN [status |-> IF r \in left THEN "review" ELSE "approved",
                                  text |-> TextOf(of[r])]
                  ELSE record[r]]

(* The build takes the records that are approved by now, within its limits *)
(* on licences and number.                                                 *)
Build(p, N) ==
    \E items \in SUBSET (N \cup promotion[p].replay) :
        /\ items # {}
        /\ \A r \in items : record'[r].status = "approved"
        /\ promotion' = [promotion EXCEPT ![p].status = "ready", ![p].items = items]

(* Mutant: that a record with the text exists is not looked at. *)
MaterializeAgain(p) ==
    /\ serving = 0
    /\ promotion[p].status = "approved"
    /\ \E N \in SUBSET (Records \ Rows) : \E of \in Injection(N, promotion[p].selected) :
          /\ MakeRecords(N, of, {})
          /\ {of[r] : r \in N} = promotion[p].selected
          /\ Build(p, N)
    /\ UNCHANGED <<example, runs, ckpt, orderly>>

(* One record after another, each made and then approved, then the build   *)
(* and the request.  It stops at a text that is a record already, when the *)
(* build is refused, or when it is cut; the records made so far stay.      *)
Materialize(p) ==
    /\ serving = 0
    /\ promotion[p].status = "approved"
    /\ \E N \in SUBSET (Records \ Rows) : \E of \in Injection(N, promotion[p].selected) :
          /\ \A r \in N : Free(TextOf(of[r]))
          /\ \/ /\ MakeRecords(N, of, {})
                /\ {of[r] : r \in N} = promotion[p].selected
                /\ Build(p, N)
             \/ /\ \E left \in {{}} \cup {{r} : r \in N} : MakeRecords(N, of, left)
                /\ UNCHANGED promotion
    /\ UNCHANGED <<example, runs, ckpt, orderly>>

-----------------------------------------------------------------------------
(* Run requests and their approvals. *)

(* Mutant: an approved promotion is enough. *)
CreateRequestEarly(q, p) ==
    /\ serving = 0
    /\ request[q].status = "absent"
    /\ promotion[p].status \in {"approved", "ready"}
    /\ request' = [request EXCEPT ![q] = [promotion |-> p, status |-> "draft"]]
    /\ UNCHANGED <<data, approvals, job, queue, serving, run, ckpt, orderly>>

CreateRunRequest(q, p) ==
    /\ serving = 0
    /\ request[q].status = "absent"
    /\ promotion[p].status = "ready"
    /\ request' = [request EXCEPT ![q] = [promotion |-> p, status |-> "draft"]]
    /\ UNCHANGED <<data, approvals, job, queue, serving, run, ckpt, orderly>>

SubmitRunRequest(q) ==
    /\ serving = 0
    /\ request[q].status = "draft"
    /\ request' = [request EXCEPT ![q].status = "awaiting_approval"]
    /\ UNCHANGED <<data, approvals, job, queue, serving, run, ckpt, orderly>>

RequestApproval(q) ==
    /\ serving = 0
    /\ request[q].status \in {"draft", "awaiting_approval"}
    /\ Len(approvals[q]) < MaxApprovals
    /\ approvals' = [approvals EXCEPT ![q] = Append(@, "pending")]
    /\ UNCHANGED <<data, request, job, queue, serving, run, ckpt, orderly>>

(* The approval, then the request, whatever has become of it since. *)
Decide(q, i) ==
    /\ serving = 0
    /\ approvals[q][i] = "pending"
    /\ \E s \in {"approved", "rejected"} :
          /\ approvals' = [approvals EXCEPT ![q][i] = s]
          /\ request' \in {request, [request EXCEPT ![q].status = s]}
    /\ UNCHANGED <<data, job, queue, serving, run, ckpt, orderly>>

ApprovalLapses(q, i) ==
    /\ approvals[q][i] = "approved"
    /\ approvals' = [approvals EXCEPT ![q][i] = "lapsed"]
    /\ UNCHANGED <<data, request, job, queue, serving, run, ckpt, orderly>>

RefuseLapsedApproval(q, i) ==
    /\ serving = 0
    /\ approvals[q][i] = "lapsed"
    /\ approvals' = [approvals EXCEPT ![q][i] = "expired"]
    /\ UNCHANGED <<data, request, job, queue, serving, run, ckpt, orderly>>

-----------------------------------------------------------------------------
(* Execution. *)

NextId(j) == job[j] = "absent" /\ \A k \in 1 .. j - 1 : job[k] # "absent"

Enqueue(j) ==
    /\ job' = [job EXCEPT ![j] = "queued"]
    /\ queue' = Append(queue, j)

(* The job, the run, the request's status; then the server works the       *)
(* queue.  Cut after the job or after the run.                             *)
StartRun(q, i, j) ==
    /\ serving = 0
    /\ approvals[q][i] = "approved"
    /\ NextId(j)
    /\ Enqueue(j)
    /\ \/ UNCHANGED <<request, serving, run>>
       \/ /\ run' = [run EXCEPT ![j] = [request |-> q, status |-> "queued"]]
          /\ \/ UNCHANGED <<request, serving>>
             \/ /\ request' = [request EXCEPT ![q].status = "started"]
                /\ serving' = j
    /\ UNCHANGED <<data, approvals, ckpt, orderly>>

(* Jobs of the same kind that an admin queues, or validates and queues     *)
(* again, whatever came of them.                                           *)
QueueJob(j) ==
    /\ serving = 0
    /\ NextId(j) \/ job[j] \in {"completed", "failed", "stopped"}
    /\ Enqueue(j)
    /\ UNCHANGED <<data, request, approvals, serving, run, ckpt, orderly>>

Take(status) ==
    /\ queue # <<>>
    /\ job' = [job EXCEPT ![Head(queue)] = status]
    /\ queue' = Tail(queue)

WorkerRuns ==
    /\ \E s \in {"completed", "failed", "stopped"} : Take(s)
    /\ UNCHANGED <<data, request, approvals, serving, run, ckpt, orderly>>

Recorded(status) == run' = [run EXCEPT ![serving].status = status]

(* run_one takes the job that was queued first, and the run records what   *)
(* came of it: its status, then its checkpoint.  The run's row has no      *)
(* status for a job that paused or lost its lease, and nothing is recorded *)
(* then, nor when there is no job left, nor when the server dies.          *)
RunOne ==
    /\ serving # 0
    /\ serving' = 0
    /\ \/ /\ UNCHANGED <<job, queue, run, ckpt>>
       \/ /\ \E s \in {"completed", "failed", "stopped"} : Take(s)
          /\ UNCHANGED <<run, ckpt>>
       \/ Take("failed") /\ Recorded("failed") /\ UNCHANGED ckpt
       \/ /\ \/ Take("completed") /\ Recorded("completed")
             \/ Take("stopped") /\ Recorded("cancelled")
          /\ ckpt' \in {ckpt, [ckpt EXCEPT ![serving].status = "created",
                                           ![serving].job = Head(queue)]}
    /\ UNCHANGED <<data, request, approvals, orderly>>

-----------------------------------------------------------------------------
(* The checkpoint of a run. *)

CheckpointStep(r) ==
    /\ serving = 0
    /\ UNCHANGED <<data, runs, orderly>>

Verify(r) ==
    /\ CheckpointStep(r)
    /\ ckpt[r].status \in {"created", "verified"}
    /\ \E s \in {"verified", "corrupt"} : ckpt' = [ckpt EXCEPT ![r].status = s]

(* Cut, or raising, in the evaluation it stays pending for good. *)
Evaluate(r) ==
    /\ CheckpointStep(r)
    /\ ckpt[r].status = "verified"
    /\ \E s \in {"evaluation_pending", "evaluated"} : ckpt' = [ckpt EXCEPT ![r].status = s]

(* The other results of a comparison decide nothing. *)
CompareRegressed(r) ==
    /\ CheckpointStep(r)
    /\ ckpt[r].status \in {"evaluated", "accepted_candidate"}
    /\ ckpt' = [ckpt EXCEPT ![r].regressed = TRUE]

FinalizeReport(r) ==
    /\ CheckpointStep(r)
    /\ ckpt[r].status \in {"evaluated", "accepted_candidate", "rejected"}
    /\ ckpt' = [ckpt EXCEPT ![r].reported = TRUE]

Decidable(r) == ckpt[r].status = "evaluated" /\ ckpt[r].reported

(* UNIQUE(core_model_family_id, version): one model for each base version  *)
(* and step.                                                               *)
MayPromote(r) ==
    /\ job[ckpt[r].job] = "completed"
    /\ \A s \in Jobs : ckpt[s].model => VersionOf[ckpt[s].job] # VersionOf[ckpt[r].job]

(* Mutant: the checkpoint before the acceptance. *)
AcceptOutOfOrder(r) ==
    /\ CheckpointStep(r)
    /\ Decidable(r)
    /\ ~ckpt[r].regressed
    /\ MayPromote(r)
    /\ \/ ckpt' = [ckpt EXCEPT ![r].model = TRUE]
       \/ ckpt' = [ckpt EXCEPT ![r].model = TRUE, ![r].status = "accepted_candidate"]
       \/ ckpt' = [ckpt EXCEPT ![r].model = TRUE, ![r].decision = "accepted",
                               ![r].status = "accepted_candidate"]

(* The model, the acceptance, the checkpoint. *)
Accept(r) ==
    /\ CheckpointStep(r)
    /\ Decidable(r)
    /\ ~ckpt[r].regressed
    /\ MayPromote(r)
    /\ \/ ckpt' = [ckpt EXCEPT ![r].model = TRUE]
       \/ ckpt' = [ckpt EXCEPT ![r].model = TRUE, ![r].decision = "accepted"]
       \/ ckpt' = [ckpt EXCEPT ![r].model = TRUE, ![r].decision = "accepted",
                               ![r].status = "accepted_candidate"]

Reject(r) ==
    /\ CheckpointStep(r)
    /\ Decidable(r)
    /\ \/ ckpt' = [ckpt EXCEPT ![r].decision = "rejected"]
       \/ ckpt' = [ckpt EXCEPT ![r].decision = "rejected", ![r].status = "rejected"]

(* Mutant: also after an acceptance. *)
AskForMoreLater(r) ==
    /\ CheckpointStep(r)
    /\ ckpt[r].status \in {"evaluated", "accepted_candidate"} /\ ckpt[r].reported
    /\ ckpt' = [ckpt EXCEPT ![r].decision = "needs_more_testing"]

(* The row is written; that the status stays 'evaluated' is refused. *)
AskForMore(r) ==
    /\ CheckpointStep(r)
    /\ Decidable(r)
    /\ ckpt' = [ckpt EXCEPT ![r].decision = "needs_more_testing"]

-----------------------------------------------------------------------------
Next ==
    \/ \E e \in Examples : Review(e)
    \/ \E r \in Records :
          \/ \E text \in Texts : AddRecord(r, text) \/ EditRecord(r, text)
          \/ \E text \in Segments : BridgeRecord(r, text)
          \/ ReviewRecord(r)
    \/ \E p \in Promotions :
          \/ \E S \in SUBSET Examples, R \in SUBSET Rows : CreatePromotion(p, S, R)
          \/ SubmitPromotion(p) \/ ApprovePromotion(p)
          \/ PromotionLapses(p) \/ RefuseLapsedPromotion(p) \/ Materialize(p)
    \/ \E q \in Requests :
          \/ \E p \in Promotions : CreateRunRequest(q, p)
          \/ SubmitRunRequest(q) \/ RequestApproval(q)
          \/ \E i \in DOMAIN approvals[q] :
                \/ Decide(q, i) \/ ApprovalLapses(q, i) \/ RefuseLapsedApproval(q, i)
                \/ \E j \in Jobs : StartRun(q, i, j)
    \/ WorkerRuns \/ RunOne
    \/ \E j \in Jobs :
          \/ QueueJob(j)
          \/ Verify(j) \/ Evaluate(j) \/ CompareRegressed(j) \/ FinalizeReport(j)
          \/ Accept(j) \/ Reject(j) \/ AskForMore(j)

Spec == Init /\ [][Next]_vars

-----------------------------------------------------------------------------
(* What a dataset version holds was, when it was built, approved in the    *)
(* very words it has: what it replays as a record, and what is new as an   *)
(* example, though the approval of the promotion speaks of examples and    *)
(* not of texts.                                                           *)
BuildsReviewedTexts ==
    [][\A p \in Promotions :
          orderly /\ promotion'[p].items # promotion[p].items
             => \A r \in promotion'[p].items :
                   /\ record'[r].status = "approved"
                   /\ r \in promotion[p].replay \/ record'[r].text \in Endorsed]_vars

(* Two dataset versions have a text in common only where one replays the   *)
(* other's record of it, or both replay records of a corpus, however many  *)
(* promotions select its example, however often one that was cut is tried  *)
(* again, and however records are archived, restored and edited meanwhile. *)
SharedOnlyByReplay ==
    \A p, q \in Promotions : p # q =>
        \A r \in promotion[p].items, s \in promotion[q].items :
            record[r].text = record[s].text
                => \/ r = s /\ r \in promotion[p].replay \cup promotion[q].replay
                   \/ r \in promotion[p].replay /\ s \in promotion[q].replay

(* A checkpoint that is accepted has a model in staging and a recorded     *)
(* decision to accept it.                                                  *)
AcceptedHasModel ==
    \A r \in Jobs : ckpt[r].status = "accepted_candidate"
                       => ckpt[r].model /\ ckpt[r].decision = "accepted"

(* A decision that was carried out is final: later comparisons, reports,   *)
(* runs and repeated calls change neither it nor the model.                *)
DecisionsAreFinal ==
    [][\A r \in Jobs :
          ckpt[r].status \in {"accepted_candidate", "rejected"}
             => /\ ckpt'[r].status = ckpt[r].status
                /\ ckpt'[r].decision = ckpt[r].decision
                /\ ckpt'[r].model = ckpt[r].model]_vars

(* Every run was started for a request on a dataset version that had been  *)
(* built, under an approval that somebody gave.                            *)
RunsAreApproved ==
    \A r \in Jobs : run[r].status # "absent" =>
        LET q == run[r].request IN
            /\ q \in Requests
            /\ \E p \in Promotions : request[q].promotion = p /\ promotion[p].status = "ready"
            /\ \E i \in DOMAIN approvals[q] :
                  approvals[q][i] \in {"approved", "lapsed", "expired"}

(* To whoever uses a model in staging the chain is what ReviewedModels says:  *)
(* behind the model a tested result, behind that a granted request, behind    *)
(* that a dataset version, and no link is ever taken back.                    *)
Granted(q) == \E i \in DOMAIN approvals[q] :
                 approvals[q][i] \in {"approved", "lapsed", "expired"}

StageOf(r) ==
    CASE ckpt[r].status = "absent" -> IF run[r].status = "absent" THEN "none" ELSE "started"
      [] ckpt[r].status \in {"created", "verified"} -> "trained"
      [] ckpt[r].status \in {"corrupt", "evaluation_pending"} -> "lost"
      [] ckpt[r].status = "evaluated" -> "tested"
      [] ckpt[r].status = "accepted_candidate" -> "accepted"
      [] ckpt[r].status = "rejected" -> "rejected"

Models == INSTANCE ReviewedModels WITH
    Runs    <- Jobs,
    built   <- {p \in Promotions : promotion[p].status = "ready"},
    basis   <- [q \in Requests |-> request[q].promotion],
    granted <- {q \in Requests : Granted(q)},
    cause   <- [r \in Jobs |-> run[r].request],
    stage   <- [r \in Jobs |-> StageOf(r)],
    staged  <- {r \in Jobs : ckpt[r].model}

ModelsAreReviewed == Models!ModelSpec

(* "only human-approved candidates may be promoted"                        *)
(* (training_dataset_promotion_service.py:139), also when one is revised   *)
(* or rejected after it was selected.                                      *)
OnlyReviewedTexts ==
    [][\A p \in Promotions :
          promotion'[p].items # promotion[p].items
             => \A r \in promotion'[p].items \ promotion[p].replay :
                   record'[r].text \in Endorsed]_vars

(* "one immutable dataset version"                                         *)
(* (training_dataset_promotion_service.py:14): what it holds stays as it   *)
(* was built, also when a record is archived, restored and edited.         *)
VersionsStayAsBuilt ==
    [][\A p \in Promotions :
          promotion[p].status = "ready"
             => \A r \in promotion[p].items : record'[r].text = record[r].text]_vars

(* "Every produced checkpoint is mirrored"                                 *)
(* (incremental_training_execution_service.py:12): a run's is its own.     *)
RunsReportTheirOwnJob ==
    \A r \in Jobs : ckpt[r].status # "absent" => ckpt[r].job = r

(* "Only on an accepting decision does it call the existing promote"       *)
(* (docs/training/phase14_incremental_language_training.md:188).           *)
RejectedHasNoModel ==
    \A r \in Jobs : ckpt[r].status = "rejected" => ~ckpt[r].model

(* An approved promotion can be built: no attempt that was cut has made    *)
(* its texts records, which every later one takes for duplicates.          *)
ApprovedCanBeBuilt ==
    \A p \in Promotions : promotion[p].status = "approved"
                              => \A e \in promotion[p].selected : Free(TextOf(e))
=============================================================================
