# Brud AI Core: TLA+ models and proofs

This directory holds TLA+ models of the parts of Brud AI Core where state outlives a single call and
more than one actor touches it, the TLC runs that check them on small instances, and TLAPS proofs of
their most important properties for every value of the constants. `PROJECT.json` is the index: it
maps each definition to the source lines it stands for, and lists runs, mutants, hazards and
theorems.

Paths below are relative to `src/`.

## 1. The system

Brud AI Core is a FastAPI server (`backend/`) over one SQLite database, a set of worker processes and
command-line tools over the same database, and a library of policies and numerics (`core_model/`).
The dashboards under `apps/` are clients and keep nothing the server relies on.

Three facts about how the program runs decide what can interleave with what:

* **Transactions.** A service works in `with repository.transaction()` blocks. An exception inside a
  block undoes what the block wrote to rows; it undoes nothing written elsewhere, such as to the
  process memory or to files. The pretraining repository opens `BEGIN IMMEDIATE` blocks; the others
  are deferred and may fail with "database is locked" at their first write
  (`backend/database/repositories/base.py:35-44`).
* **The server.** Its endpoints are coroutines that call the services without ever awaiting, so one
  process handles one request at a time and an operation made of one transaction is atomic.
* **Other processes.** Training workers (`backend/training_worker.py`) run for hours, in many
  transactions. Command-line tools such as `backend/inference_runtime_cli.py` call the same services
  from a process of their own: the same rows, a different memory.

### Components

| Component | State | Operations | Hard part | What makes it correct | Module |
|---|---|---|---|---|---|
| Pretraining jobs, worker leases, recovery | `pretraining_jobs`, `pretraining_checkpoints`, the locals of each worker | create, patch, validate, queue, pause, cancel, recover, verify; claim and sweep, load, train, metric, checkpoint, finish, summarise | superseded workers, crashes between transactions, damaged files | one worker per job, no training step lost or skipped, completion is truthful, every job comes to rest | `PretrainingJobs`, `DurableTraining` |
| Inference runtime | `inference_runtime_instances` and the server's `_LOADED_MODELS` | create, start, stop, load, unload, health check | two copies of the same fact, only one of them transactional | a model in memory is the one its row names; the limit is kept | `InferenceRuntime` |
| Model assignments, diagnostics, chat lab, canary | `inference_model_assignments`, versions, approvals, sessions, canary runs | create, patch, validate, approve, reject, activate, pause, resume, roll back; ask, open, post, close; start, execute, stop | edits under open sessions, rollback from any status, an instance shared by assignments | what serves was approved; an answer comes from the release its assignment names | `ModelAssignments`, `AssignedReleases` |
| Model release registry | candidates with their evidence, approvals, releases, rollback plans | collect, verify, assess, approve, release, deprecate, retire; plan, validate, approve and execute a rollback | evidence collected again around an approval; a plan found sound and executed later | what is released was reviewed as it is; what is withdrawn stays so | `ModelReleases`, `ReleaseCatalog` |
| Admin assistant proposals | `admin_approvals`, the targets they act on | propose, read, approve, reject, cancel, execute, record | expiry, a target that moves, a crash between the effect and its record | only what was approved acts, and reports are true | `AdminProposals`, `ApprovedActions` |
| Sample imports and quarantine | the import, its files on disk, scans, records, issues, report, deletion | approve, download, validate, scan, parse, check, review, finalize, delete | files and rows change in separate steps that a crash separates | bytes within the approval, nothing unsafe parsed, eligible means screened | `SampleImports` |
| Production RAG | promotion requests, approvals, candidates, retrieval profiles | approve, build, validate, activate, roll back, resolve; profiles by hand | activation is several transactions, and a retry repeats some of them | public chat is served what was activated last | `RagPromotion` |
| Incremental training | examples, dataset records, promotions, run requests, approvals, runs, checkpoints | review, edit records, promote and replay, request, approve, start, run, verify, evaluate, compare, report, decide | a run reads the result of a job another worker may have taken | each stage rests on what the one before it recorded, up to a model in staging | `IncrementalTraining`, `ReviewedModels` |
| Instruction tuning, base training | experiments linked to a pretraining job | queue, claim, run, evaluate | a second worker on the same jobs, no handler around its run | as for jobs | not modelled |
| Checkpoint retention and quality | checkpoint rows and directories | archive, compare | deletes files that a job or a recovery may need | the latest and the best checkpoint survive | `Damage` of `PretrainingJobs` stands for it |
| Conversations and memory, authentication, rate limiter | sessions, turns, consent, windows | chat, remember, forget; log in; admit | one row or one window, in one call each | - | not modelled |
| RAG ingestion and retrieval, feedback, corpus, datasets, knowledge gaps, tokenizers, evaluation | review rows and content | single-call lifecycles and batch processing | mostly text and numeric work inside one transaction | - | not modelled |
| Transformer, tokenizer and optimizer numerics | tensors | - | floating point | - | out of reach of a state model |

Every component, with its sources and the reason it is not modelled, is in `components` of
`PROJECT.json`; section 6 gives the reasons together.

**How they interact.** A worker and the server meet only in the rows of a job: the server sets a
status or a flag, the worker polls it. Recovery reads the checkpoint directories a worker wrote. A
completed checkpoint becomes a candidate, then a release (`ModelReleases`); an assignment names a
release and a profile; loading resolves the newest instance of the profile, so assignments with the
same profile *share* an instance and replace each other's model (`ModelAssignments` over
`InferenceRuntime`). Chat and RAG reach a model through `ensure_instance_loaded` of the assignment
service. An incremental run puts a job into the queue of the pretraining workers and executes *the
next one queued* in the server, whichever that is (`IncrementalTraining`). Public chat asks the
resolver, and the resolver reads candidates and profiles (`RagPromotion`).

## 2. The plan

Order: what a failure would cost most comes first.

1. `PretrainingJobs`, with the abstract `DurableTraining`; types, fencing and, under the assumptions
   of `JobsDisciplined`, every property of that run and the refinement proved. *Done.*
2. `InferenceRuntime`; types, limit, and agreement of memory and rows proved. *Done.*
3. `ModelAssignments`, composed with 2, with the abstract `AssignedReleases`; types, approval,
   refinement and answers proved. *Done.*
4. `ModelReleases`: candidate to release and rollback, with the abstract `ReleaseCatalog`, which is
   what the free `RegistryChanges` of module 2 assumes of the registry; types, every property and the
   refinement proved. *Done.*
5. `AdminProposals`, `SampleImports`, `RagPromotion`, `IncrementalTraining`: protocols that are
   chains of transactions, the first and the last with an abstract specification
   (`ApprovedActions`, `ReviewedModels`); types, their properties and the refinements proved. *Done.*
6. `RegistryChanges` of module 2 replaced by the actions of `ReleaseCatalog`, so that
   `ServesOnlyApproved` and `ReleasedAsReviewed` become one chain from evidence to answer. *Left.*

## 3. The modules

Each module is a state machine: `VARIABLES`, one action per handler or per transaction of a handler,
`Next`, `Spec`. Limits of the model are constants whose comment starts with *bound*.

An operation of the server that is several transactions is a chain. Where other processes read what
it writes half-way, each transaction is an action and a variable says where the operation is
(`PretrainingJobs`, `AdminProposals`). Where nothing else runs between two of them, the only states
in the middle that anybody sees are those left by a request that died there; then the operation is
one action whose disjuncts say how far it came (`SampleImports`, `RagPromotion`,
`IncrementalTraining`).

### PretrainingJobs

`job` holds the columns of `pretraining_jobs` that control anything, `ckpts` the checkpoint rows of a
job in id order (the last one is `is_latest`), `wk` where each process is inside
`PretrainingService.run_one` with its locals. A `BEGIN IMMEDIATE` block is one action, so `run_one`
is a chain of actions with a program counter, and any other process may act, or this one die, between
two of them.

| Action | Code |
|---|---|
| `CreateJob` ... `VerifyCheckpoint` | the admin calls of `pretraining_service.py` |
| `Recover` | `WorkerRecoveryService.recover` with `recovery_validator.py` |
| `Claim`, `SweepOnly` | `_claim`: the stale sweep and the claim of the oldest queued job |
| `Load` | reading the latest checkpoint and the start of `run_pretraining` |
| `StopRequested`, `TrainStep`, `LoopEnds` | the loop of `core_model/training/trainer.py` |
| `Metric`, `MetricStale` | the metric callback, which also renews the lease |
| `CheckFence`, `CheckFenceStale`, `RegisterPeriodic`, `RegisterFinal` | the two halves of a checkpoint save |
| `Finish`, `SelectBest`, `Summarise`, `HandleFailure` | the transactions after the loop |
| `Raises`, `Crash`, `Restart`, `Expire`, `Damage` | the environment: an exception, a dead process, its restart, time, a damaged directory |

Abstracted: a step of training is one increment of two counters, `step` (what is claimed) and
`weights` (what the weights went through); time is the flag `lease_expired`; the six checks of the
recovery validator are `intact`. `DurableTraining` is what the admin was promised: registered
progress never shrinks, and a job is called completed only when its goal is registered.

### InferenceRuntime

`inst` holds the rows, `slot` what the server's `_LOADED_MODELS` holds for each instance id. An
operation writes the rows in one transaction; when it raises, the rows are undone and the slots are
not, which gives two failures of a load: `LoadRejected` (`_fail_load` empties the slot and raises)
and `LoadLost` (the request fails when the slot is filled already, and an instance created for it is
undone). `Restart` empties every slot and touches no row. `RegistryChanges` is what the release
registry may do meanwhile. `Callers` says which processes run operations: what a command-line tool
loads is in its own memory and never in `slot`.

### ModelAssignments

`EXTENDS InferenceRuntime`: the operations on assignments use `EnsureLoaded`, `LoadInto` and `Target`
of that module, so that sharing an instance, creating one, and failing to load one are the same steps
as for the admin's own calls. `asg` is the row, `versions` the releases approved, `approval` the
latest decision per role, `session` and `canary` the uses, `answer` the last recorded text: the
assignment it was recorded for, the release that assignment named, and the model that generated it.

Three details of the code that the actions keep, because properties turn on them:

* `Activate` of a `public_chat` assignment needs `PublicGate`. A refused activation commits an event,
  returns `activated: False` and leaves the status alone (`model_assignment_service.py:421-435`), where
  `docs/model_assignment_lifecycle.md:51` says it becomes `rejected`. The `rollback_failed` event for
  an ineligible target, and the `expired` status of a session out of turns, are written before an
  exception and undone by it.
* `Rollback` is accepted in every status, loads unconditionally, and catches a rejected load: there
  alone the `failed` row survives, and the assignment is left paused.
* `PostMessage` looks at the session and at the release in the assignment's row, not at the
  assignment's status.

`AssignedReleases` is the promise to whoever asks an assignment: behind it is a release approved for
it, or none, and approving another one takes the assignment out of service first.

Not in these two modules: the scope switches and the runtime manifest (no other operation reads
them), compatibility assessments and the numbers of the memory guard (any load may be rejected), the
text generated, the events and the audit log.

### ModelReleases

One action per operation of `model_release_service.py`, each of which is one transaction. A
candidate's evidence is four variables (`evaluation`, `artifacts`, `card`, `issues`), its assessment
`elig` the verdict together with the evidence it was made from, `manifest` and each approval the
assessment (and, for an approval, the manifest) they were made against. A checksum is the thing it is
of, so that *stale* is a comparison. Three details the properties turn on:

* `AssessEligibility` sets the candidate's status whatever it was, so an approved candidate that is
  assessed again loses its approval (unless it is released).
* `CreateRelease` compares *every* approval with the present evidence, the superseded ones too.
* A rollback target is assessed when the plan is made and not when it is executed; the execution
  changes the source and the family's pointer and not the target's status.

`ReleaseCatalog` is the registry as those see it who load and assign its releases: a release is
published once, from a candidate of its family that was cleared at that moment, it keeps that
candidate, and withdrawing it is final. `RegistryChanges` of `InferenceRuntime` takes that for granted;
`CatalogIsKept` says that `ModelReleases` provides it. A candidate is *cleared* when every required
role has decided on it and the latest decision of each role approves its present assessment, which
allows a release.

### AdminProposals

`row` is a row of `admin_approvals`, `target` the fingerprint of what it acts on, `request` the
review or execution under way and where it is in its chain. `StartApproval` reads and compares,
`Approve` writes; `StartExecution` reads, `Executor` is the call of another service (some ninety of
them: it may change its target, and it may raise before or after), `RecordOutcome` writes what came of
it. `Crash` ends a request between any two. Expiry is written by whoever notices it, except where the
same transaction then raises. An execution compares no fingerprint.

`ApprovedActions` is the promise to the admin: a proposal is decided once, acts only after it was
approved, and is reported on once, as a success only if it acted. Several actions of one proposal are
allowed: that is what a crash before the report brings about.

### SampleImports

The rows of one import, and the files in its quarantine directory: `disk` by name, `part` for what
downloads that died left. A file is its size and whether the scan would block it; parsing reads the
file as it is then. Each pass over the files stops at any of them, and marks a file after recording
its result. `case` is the verification case the import belongs to, which is worked on elsewhere.
`Finalize` locks the import; some operations refuse after that (`Moved`), others do not look.

### RagPromotion

`candidate` and `profile` are the rows, `Served` what `PublicRagScopeResolver` returns. An approval is
`pending`, `approved`, `lapsed` (its date has passed and nobody has noticed) or `expired`. `Activate`
is snapshot, `activate_profile`, archiving the previous profile, the candidate and the request; a
failing check puts the profile back to `validated` and never restores the previous one, which is still
active then. `Rollback` looks at nobody's status. The history variable `orderly` is FALSE once a chain
was cut after it changed a profile, a candidate was activated or rolled back out of turn, or a profile
was set by hand in a space with an active one: `OneActivePerSpace` and `NewestIsServed` say what holds
until then, `OneBuildPerApproval` and `FailureChangesNothing` hold always. That a profile is
validated by hand while active is one of the turns left open by the code, not a fault of it.

### IncrementalTraining

The data half: `example` (the text and its review), `record` (the rows of `dataset_records`: text and
whether approved), `promotion` (examples, not texts, are selected and approved; the records of its
replay plan; the items of the dataset version it became). A version keeps rows and not texts, so it
changes when a record in it is archived, restored and edited (`ReviewRecord`, `EditRecord`), and the
text the record had is free for another: `content_hash` is compared with that of every other record
and of no version. Every way of making a record compares it, but that of a corpus release
(`BridgeRecord`, `pretraining_bridge.py`), which hashes the bare text and compares it with nothing.
`Materialize` makes a record of each selected example, approves it, and builds a version of the new
records and those of the replay plan, as far as they are approved by then. A text is so in two versions
by design where one replays the other, and `SharedOnlyByReplay` says that it is nowhere else.
A *text* is what `content_hash` covers: the same words under another record type or language, or
in a corpus record, are another text, to the code as here.

The run half: `request`, `approvals`, `job` and `queue` (the pretraining jobs of the same
kind, of which `PretrainingJobs` models each), `serving` the run the server is executing in its
`run_one`, which takes the job queued first. Last `ckpt`, one record per run, because acceptance is
per run. Workers and admins act on jobs while the server executes, nothing else does. `orderly` is
FALSE once a review was cut between text and status or came after its example was selected.

`ReviewedModels` is the chain behind a model in staging: a result that was tested, of a run started for
a request that was granted, on a dataset version that was built; and no link is taken back, though
approvals lapse and requests change their status after a run was started. It says nothing of which job
the result came from, because the code does not (`RunsReportTheirOwnJob` in section 4).

Abstracted: the assessment of an example is an input; a comparison is its verdict; the contamination
recheck may refuse any promotion; a replay plan may name any rows, which covers the sample of
approved records in train splits that the code takes when the plan is made, whatever became of them
since; a build may leave out any record (a licence, the limit on their number), as long as it is not
empty; drafts, and records pending, rejected and archived, are one status, because the code lets
each become the others with its text as it is or edited. Left out: dataset versions that no
promotion made (`DatasetVersioningService` by hand), which may hold any approved records;
`acknowledge_no_execution_strategy`, for requests whose strategy trains nothing (it starts no run),
and the advisory records.

## 4. The runs

| Run | Instance | What it shows |
|---|---|---|
| `JobsDisciplined` | 1 job, 2 workers, 3 steps (2 after a patch), 2 crashes, 1 damaged checkpoint; jobs validated as drafts, otherwise queued, cancelled and recovered from any status the code allows; exceptions anywhere before completion | when leases outlive their worker: the lease holds, checkpoints are honest, claimable jobs can be resumed, only damaged checkpoints are rejected, completion is truthful and final, and `PretrainingJobs` implements `DurableTraining` |
| `JobsAnyOrder` | 1 job, 2 workers, 2 steps (3 after a patch), 1 crash, every admin call in every status the code accepts, exceptions anywhere, leases that expire under a live worker | tokens are unique, flagged jobs do not run |
| `JobsCrashLiveness` | 1 job, 2 workers, 2 crashes, recovery | a lost run is flagged and every queued job comes to rest |
| `JobsCalmLiveness` | the same with no crash, with pauses, cancellations and exceptions | every job comes to rest, every accepted request is served |
| `RuntimeLimits` | 3 instances, 2 profiles with limits 1 and 2, rejected and lost loads, a restart | the models in memory stay within the limit |
| `AssignServer` | a diagnostic and a chat-lab assignment on one instance, 2 releases, a session, a restart; one server, no late failure | memory and rows agree; every answer comes from the release assigned |
| `AssignAnyOrder` | an assignment with canary runs, 2 releases, 2 versions; a command line beside the server, late failures, withdrawn releases | what serves was approved; `ModelAssignments` implements `AssignedReleases` |
| `Releases` | 1 family, 1 candidate, 2 versions, 2 rollback plans, 7 operations on the evidence, 2 approvals | a release is made of what was reviewed, a candidate's status follows its latest assessment, rollbacks stay in the family, and `ModelReleases` implements `ReleaseCatalog` |
| `Proposals` | 2 proposals, 2 targets, 2 effects each, expiry and crashes at every link, the server alone | reports are true, what is approved is what was proposed, and `AdminProposals` implements `ApprovedActions` |
| `SampleImport` | 1 file name downloaded up to twice, 1 record, 1 issue of a severity, sizes 1 and 2 under a limit of 2, every operation cut anywhere | bytes within the approval, nothing unsafe parsed, deleted means empty, the last report stands, eligible means screened |
| `RagPromotion` | 2 spaces (one with a profile made by hand), 2 requests, 2 candidates, 3 approvals, every chain cut anywhere | public chat is served what was activated last, a failed activation changes nothing, an approval builds once |
| `IncrementalTraining` | 2 examples of 2 texts each, 2 records, 2 promotions, 1 request, 1 approval, 2 jobs, another worker, every chain cut anywhere | two dataset versions share a text only by replay, they are built of reviewed texts, decisions are final, and `IncrementalTraining` implements `ReviewedModels` |

**Why these bounds are enough.** Two workers are what a lease separates: a third one is a second
superseded worker, and tokens are compared pairwise. Jobs share nothing except the choice of the next
one to claim, so one job shows what happens to a job. Two or three steps with a checkpoint every
second one give a metric between checkpoints, a periodic and a final checkpoint, and an end that
coincides with a periodic one. Two crashes allow a crash during the recovery from a crash. Generation
and checkpoint bounds are high enough in the liveness runs never to be reached, so no liveness result
is due to a bound. For the runtime, three instances over limits 1 and 2 reach and exceed every limit
that a wrong guard would exceed, and for assignments two releases on one shared instance are what it
takes to answer with the wrong one; two versions are what a rollback needs.

In `Releases` two versions and two plans let a plan be executed after another has moved its target,
and seven operations on the evidence are enough to assess, approve, assess again on other evidence and
approve once more. In `Proposals` two effects are a first execution and a repeated one. In
`SampleImport` a file of size 2 fills the limit and one of size 1 leaves room for a leftover, and two
rows of the same name are what a second download, and a row about an older file, need. In
`RagPromotion` two candidates in a space supersede each other, and the second space is there because
the resolver looks at all spaces. In `IncrementalTraining` two promotions that select the same example
can collide on its text, and the second job is the one that a run executes by mistake. Two records
are what two promotions need to share one by replay, to make a text again that an edit set free, or
for one to replay a record of a corpus.

`IncrementalTraining.cfg` has an action constraint, `Explored`, of three parts. `ReplaysItems`:
replay plans name records that are in the other version or came from a corpus, because a record in
no version can be replayed only if an admin built one of it. `CorpusAlone`: beside a record of a
corpus there is one promotion, and no text is revised, because with two records no second promotion
could be built; two versions that both replay such records are left to the theorem. `DataFirst`: the
two halves of the module share one fact, that a promotion is `ready`; once true it stays true, no
step of the run half changes a variable of the data half, and no step of the data half needs one of
the run half but `serving = 0`. Steps of the two therefore commute, and it is enough to explore
every order of the data half without runs, and every order of the run half beside one promotion. No
property relates both halves except through that fact. The theorems of section 5 hold without the
constraint.

`CHECK_DEADLOCK FALSE` is set because these systems do stop: once bounds are spent and every job, plan
or proposal has ended, nothing is left to do.

**Fairness.** Only the liveness runs assume any. `FairSpec`: a worker process takes its next step when
it has one (the worker polls in a loop and SQLite transactions commit), a dead one is started
again in the end (an assumption about the operator: the repository starts `training_worker.py` by hand
or script and has no supervisor of its own), and time passes. All are weak: each of these steps stays
enabled until it is taken. `OperatedSpec` adds that the operator recovers a flagged job, which the
documents require. Neither assumes that an admin calls anything else, or that training succeeds. The
modules of section 3 without a liveness run have nothing that must happen: each of their steps is a
call that an admin makes or does not make.

### Where the code and the documents part

The modules state these as properties as well; no run lists them. Each trace comes within seconds from
an existing configuration with the property, and the constant where one is named, given here. Read
with the runs they show where a guarantee ends: `AssignServer` holds with one process and no late
failure, and two rows of the table drop one of those assumptions each.

| Property | Configuration | What happens | Where |
|---|---|---|---|
| `StaleWorkersNeverWrite` | `JobsDisciplined`, `SlowWorkers = TRUE` | a worker that lost its lease after its fence check still writes the checkpoint, the status and the worker id | `pretraining_service.py:1171`, against `docs/training_worker_leases.md` |
| `CheckpointsAreHonest` | `JobsDisciplined`, `ValidateFrom <- AnyStatus` | `validate_job` has no guard: a failed job is queued again with counters ahead of its weights | `pretraining_service.py:197` |
| `OutcomesAreFinal` | `JobsDisciplined`, `RaisesIn <- Anywhere` | an exception in best-checkpoint selection or the summary marks the completed job failed | `pretraining_service.py:266` |
| `LostJobsAreFlagged` | `JobsCrashLiveness`, `CancelFrom = {"running"}` | a job whose worker dies while being paused is never detected | `pretraining_service.py:660`, against `docs/training_worker_leases.md` |
| `ResumesAreValidated` | `JobsAnyOrder` | `queue_job` resumes a paused job without validating its checkpoint | `pretraining_service.py:218`, against `docs/training_crash_recovery.md:8` |
| `RecoveryNeverRewinds` | `JobsDisciplined` | recovery sets `completed_steps` back to the checkpoint's | `worker_recovery_service.py:252`, against `docs/training_crash_recovery.md:60` |
| `ClaimableCanRun` | `JobsDisciplined` | a job recovered at its last step has no step to run and can never complete | `trainer.py:167`, against `docs/training_crash_recovery.md:6` |
| `RequestsAreServed` | `JobsCalmLiveness`, `CancelFrom = {"queued"}` | a job cancelled while queued stays `cancel_requested` | `pretraining_service.py:1365`, against `docs/pretraining_recovery.md:9` |
| `ReadyMeansLoaded` | `RuntimeLimits` | a rejected load leaves its instance `ready` with nothing in memory; so does a restart | `inference_runtime_service.py:590`, against `docs/inference_model_loading.md:39` |
| `ModelsHaveInstances` | `RuntimeLimits` | a failed request that created its instance leaves a model that nothing can unload and that fills the limit | `inference_runtime_service.py:509` |
| `AnswersComeFromTheAssignment` | `AssignServer`, `Callers = {"server", "cli"}` | after a rollback from the command line the server answers with the old release | `inference_runtime_service.py:533`, against `docs/admin_chat_lab.md:36` |
| `AnswersComeFromTheAssignment` | `AssignServer`, `LateFailures = TRUE` | a load whose transaction fails at its end leaves its model behind the old row; the next request for the old release is answered by it | the same |
| `PublicActivationsPassTheGate` | `AssignAnyOrder`, `ScopeOf <- OnlyPublic` | a rollback activates a public assignment without its gate | `model_assignment_service.py:1024`, against `docs/inference_runtime_architecture.md` |
| `ServedReleasesAreApproved` | `AssignServer` | an open session answers with a release that was patched in and never validated | `model_assignment_service.py:737`, against `docs/admin_chat_lab.md:37` |
| `VersionsAreFreshlyApproved` | `AssignAnyOrder`, a second role | an approval given for an earlier release completes the policy for the present one | `model_assignment_service.py:368`, against `core_model/release/approval_policy.py:6` |
| `CanariesKeepTheirBudget` | `AssignAnyOrder`, `CanaryMax = 2`, `Prompts = 2` | a canary executed twice exceeds its maximum number of requests | `model_assignment_service.py:858`, against `docs/inference_canary.md:18` |
| `FreshApprovalsSuffice` | `Releases` | once an approval is stale no fresh one helps: the stale row stays and is compared for ever | `model_release_service.py:1150`, against `docs/model_release_approvals.md:51` |
| `RollsBackToSoundReleases` | `Releases` | a plan is executed whose target was retired, or rolled back, since | `model_release_service.py:1551`, against `core_model/release/rollback.py:6` |
| `ExecutedAtMostOnce` | `Proposals` | a server that dies between the effect and its record executes the proposal again | `admin_assistant_service.py:3220`, against `docs/admin_assistant/phase8_floating_context_aware_admin_assistant_plan.md:35` |
| `ExecutedAsApproved` | `Proposals` | an execution does not compare the fingerprint again | `admin_assistant_service.py:3209`, against `docs/sample_import/phase12_sample_import_quarantine_plan.md:23` |
| `ApprovedAsProposed` | `Proposals`, `OtherProcesses = TRUE` | a target changes between the comparison and the approval | `admin_assistant_service.py:3140-3154` |
| `LockedIsOnlyDeleted` | `SampleImport` | a decision on an approval that was requested before the lock moves the status of the locked import | `database/repositories/dataset_sample_import.py:596-659`, against its own line 1446 |
| `UnsafeIsNeverParsed` | `SampleImport`, `Reopen = TRUE` | an import used again after its deletion downloads a new file under a name whose old row is validated | the rows survive `execute_deletion` |
| `FailureRestoresPrevious` | `RagPromotion` | a failing activation puts its own profile back and does not activate the previous one | `docs/production/phase15_text_nlp_production_readiness.md:134` |
| `RollbackLeavesOneActive` | `RagPromotion` | a rollback leaves a third profile active beside the restored one | `production_rag_activation_service.py:200` |
| `OnlyReviewedTexts` | `IncrementalTraining` | an example rejected after it was selected is promoted all the same | `training_dataset_promotion_service.py:246`, against its line 139 |
| `VersionsStayAsBuilt` | `IncrementalTraining` | a record that a finished version holds is archived, restored and edited, and the version with it | `dataset_service.py:16-22` and `207-245`, against `training_dataset_promotion_service.py:14` |
| `ApprovedCanBeBuilt` | `IncrementalTraining` | a materialization that was cut leaves records that every later one takes for duplicates | `training_dataset_promotion_service.py:248` |
| `RunsReportTheirOwnJob` | `IncrementalTraining` | a run executes, and reports, the job queued first, which need not be its own | `incremental_training_execution_service.py:285`, against its line 12 |
| `RejectedHasNoModel` | `IncrementalTraining` | an acceptance cut after the promotion, then a rejection: the model stays in staging | `incremental_training_checkpoint_acceptance_service.py:127`, against `docs/training/phase14_incremental_language_training.md:188` |

Facts of the code that modelling brought out and that are no sentence's opposite: a decision
`needs_more_testing` writes its row, and then the schema's trigger refuses the status; one approval of
a run request starts any number of runs; a run whose job pauses or loses its lease stays `queued`,
because its table has no status for that; two checkpoints with the same base and step cannot both be
accepted; an evaluation that dies leaves its checkpoint `evaluation_pending` for good; a
`stale_write_rejected` event is undone by the exception that reports it; recovery never falls back to
an older checkpoint; whether a sandbox experiment is eligible is looked at once, when promotion is
requested; the family of a retired release goes on pointing at it.

### Mutants

Each property of a run has a mutant in `PROJECT.json`: a plausible bug in one mapped definition (a
fence not compared, a flag not cleared, a guard off by one, a slot not emptied, two transactions
swapped) under which TLC finds that property violated. The mutant's operator stands right before the
definition it replaces, and its comment starts with *Mutant*.

## 5. The proofs

`PretrainingJobs_proofs`, for any jobs, workers, intervals, admin behaviour and bounds:

* `TypeCorrect`: `Spec => []TypeOK`. `TypeOK` is not inductive: a worker past its loop writes its
  `outcome` as a status, so the proof strengthens it with `OutcomeDecided` (past the loop the outcome
  is no longer `none`).
* `FlagSafe`: `FlaggedNeverRuns`. Every action that puts a job into a running status is a claim, and a
  claim requires the flag to be down; every action that raises it queues the job.
* `GenerationGrows`: `GenerationNeverDecreases`, one step per writer of the column.
* `TokensUnique`: `TokensAreUnique`, strengthened with `TokenBound`: no live process holds a token
  above the generation of its job, so the token a claim hands out is new.

The other theorems of that module assume `Fenced`: a lease does not expire under a process that
holds it (`~SlowWorkers`), and `validate_job` is called on drafts only. Jobs may still be queued,
paused, cancelled and recovered whenever the code lets them, and crash or raise anywhere. Neither
part can be dropped: the first two rows of the table in section 4 show what breaks without each. Two
theorems, `FinalOutcomes` and `DurableProgress`, assume `QuietEnd` besides: nothing raises after a
job is completed. An exception there turns a completed job into a failed one (third row), and leaves
every other property intact. The inductive invariant, `Sound`, has two halves. `JobOK` relates a
job's row to its registry: a queued or paused job that is not flagged has the counters of its latest
checkpoint, no checkpoint is ahead of the latest or past the goal, and one is rejected only if
damaged. `WorkOK` relates a process to the row it works on: it holds the lease, its weights went
through its steps, and it is between the latest checkpoint and the goal. Both halves need the other:
a claim takes its counters from `JobOK`, and a registration keeps `JobOK` because of `WorkOK`. Since
a row names one worker, `OneAtWork` says two processes never work on one job, so a step has to be
looked at for one process and one job only (`WorkerSteps`, `JobRewritten`).

* `SoundAlways`: the invariant itself. From it `LeaseKept` (`WorkersKeepTheirLease`),
  `HonestCheckpoints` (`CheckpointsAreHonest`), `ResumableClaims` (`ClaimableIsResumable`),
  `OnlyDamagedRejected` (`RejectedMeansDamaged`) and `TrainedWhenCompleted` (`CompletedMeansTrained`).
* `DurableProgress`: `PretrainingJobs` implements `DurableTraining` (`ProgressIsDurable`). `StepMoves`
  says that a step leaves every job but one as `DurableTraining` sees it, and moves that one in one of
  five ways; `JobsMoveImplements` maps these to `Configure`, `Submit`, `Save`, `Complete`, `Abandon`
  or a stutter. `FinalOutcomes` (`OutcomesAreFinal`) is a consequence of the same lemma.

`InferenceRuntime_proofs`, for any releases, profiles, limits and bounds. Its lemma
`EveryCallWritesOne` classifies the calls once: each writes at most one row and one slot, of the same
instance. The inductive invariant `TypedInv` adds to the type that ids not given out have no row,
because a new instance must find its slot empty.

* `RuntimeTyped`: `RuntimeTypeOK`.
* `LimitHeld`: `LoadLimitRespected`, assuming there is a profile. A slot is filled only after the
  guard counted the others; every other step empties slots or leaves them.
* `SlotsRecorded`: `LoadedModelsAreRecorded`, assuming no request fails after its load.

`ModelAssignments_proofs`, for any assignments, scopes, roles, sessions and bounds:

* `ApprovedWhileAssigned`: `ActiveIsApproved`, inductive together with the types of the two variables
  it speaks of. Every operation but an approval writes one honest row and no version
  (`LifecycleWritesHonestRows`); an approval writes both (`ApprovalWritesBoth`).
* `ServesApproved`: `ModelAssignments` implements `AssignedReleases`. The same two lemmas map a step
  to `Serve`, `Withdraw`, `ApproveRelease` or a stutter.
* `AssignmentsTyped`: `TypeOK` of the composed system. `TypeOK` is not inductive: a message loads into
  the session's instance, so the invariant adds that this instance exists.
* `AnswersAreRight`: `AnswersComeFromTheAssignment`, assuming the server is the only process and no
  request fails after its load. A model in memory is the one its row names, and a request that skips
  the load read that row.

`ModelReleases_proofs`, for any families, candidates, roles, plans and bounds:

* `RegistryTyped`: `TypeOK`. `EvidenceFollowed`: `StatusFollowsEvidence`, from the facts that only an
  assessment makes a candidate eligible and that each operation on the evidence of a released
  candidate is refused or changes no assessment.
* `ReviewedReleases`: `ReleasedAsReviewed`. `Releasable` compares every approval with the present
  evidence, therefore also the latest one of each role.
* `KeepsCatalog`: `ModelReleases` implements `ReleaseCatalog` (`CatalogIsKept`). A step on the evidence
  is a `Review` of one candidate, `CreateRelease` a `Publish`, because `Releasable` implies cleared;
  deprecating or retiring what is offered is a `Withdraw`, an executed plan a `RollBack`.
* `WithdrawnStays`: `WithdrawnForGood`. `RollbackInFamily`: `RollbackStaysInFamily`, strengthened with
  what a plan that is not executed yet promises: both of its releases exist and share a family.

`AdminProposals_proofs`, for any proposals, targets, fingerprints and bounds: `ProposalsTyped`;
`ApprovalBeforeEffect` (`OnlyApprovedActs`) and `TrueReports` (`ReportsAreTrue`), whose invariant says
what a request under way has found: its proposal is approved, and has had its effect once it is
succeeding; `FinalDecisions` (`DecisionsStay`); `ApprovesWhatWasProposed` (`ApprovedAsProposed`),
assuming the server is the only process. `DecidesThenActs`: `AdminProposals` implements
`ApprovedActions` (`ActsAsDecided`), with the same invariant. `RowImplements` looks at the five ways a
transaction rewrites one row, each a `Decide`, a `Report` or nothing the promise is about; an effect
falls between two transactions and is an `Act`.

`SampleImports_proofs`, for any names, sizes, limits and bounds: `ImportsTyped`; `ReportBehindLock`
(`FinalReportStands`); `EmptyWhenDeleted` (`DeletedIsEmpty`); `ScreenedBeforeUse`
(`UnsafeIsNeverParsed`), assuming no import is used again after its deletion: a validated row is then
about the file that now has its name, because a file is replaced only after it was deleted;
`EligibleIsScreened` (`EligibleWasScreened`), under the same assumption, from an accepted record back
to the scan of its file. `GrowthApproved` (`BytesWithinApproval`) and `QuarantineSmall`
(`QuarantineIsBounded`) are about the bytes stored, counted as the elements of the set `StoredBytes`
so that the theorems on cardinality apply: a download that completes adds the bytes of one file to it
and no other step adds any. Their invariant, `FiniteStore`, says that the set is finite.

`RagPromotion_proofs`, for any spaces, requests and bounds: `PromotionTyped`; `OneActive`
(`OneActivePerSpace`) and `NewestServed` (`NewestIsServed`) from one invariant, `Order`: while
`orderly`, the active profile of a space is that of its newest activated candidate, or one made by
hand when there is none, and each snapshot is an older profile of the same space; `BuildsApproved`
(`OneBuildPerApproval`) from a count: candidates past building, plus one if the request is `approved`,
are at most the approvals given; `HarmlessFailure` (`FailureChangesNothing`).

`IncrementalTraining_proofs`, for any examples, records, promotions, requests and bounds:
`TrainingTyped`; `TextsShared` (`SharedOnlyByReplay`) from an invariant of four parts: no two
records have the same text but those of corpora (`Distinct`), what versions hold and plans replay
are records (`ItemsMade`), what is new in a version is no text of a corpus (`NewAreTexts`), and two
versions have a record in common only where one replays it (`SharedRows`), for which it is needed
that only a finished promotion holds anything; `ReviewedTextsBuilt` (`BuildsReviewedTexts`), because
while `orderly` a selected example stays approved in its present text; `ApprovedRuns`
(`RunsAreApproved`), with what holds of every request and of the run being executed;
`ModelOfAccepted` (`AcceptedHasModel`) and `FinalDecision` (`DecisionsAreFinal`), from the fact that
a checkpoint not yet decided has not been accepted, and that a run's checkpoint is recorded once.
`ReviewedChain`: `IncrementalTraining` implements `ReviewedModels` (`ModelsAreReviewed`), from the
invariants of the theorems before it and `Blank`: a request or run not made yet has an empty row.
The data half maps to `Build`, a request to `Ask` and `Grant`, the writing of a run's row to
`Start`, the record of its result and the operations on its checkpoint to `Advance`, and an
acceptance that was cut to `Stage`.

Assumptions of the proofs are the named `ASSUME`s of the modules, which every run evaluates, and the
hypotheses stated in the theorem itself.

### Only model-checked

Liveness under fairness (`LostRunsAreFlagged`, `JobsSurviveCrashes`, `JobsComeToRest`,
`RequestsAreServed`) is out of the prover's reach and stays with TLC. Every other property that a run
checks is a theorem.

Some properties are stated and proved, and in no run: `GenerationNeverDecreases`, `DecisionsStay`,
`OnlyApprovedActs`, `WithdrawnForGood`, `QuarantineIsBounded` and `RunsAreApproved`.
The types of the modules other than `PretrainingJobs` are proved and in no run either.
`CompletedAreSummarised` is stated only; it holds in `JobsCalmLiveness`.

## 6. Not modelled

* **Instruction tuning** drives a linked pretraining job with the claim, the fence and the sweep of
  `PretrainingJobs`; a module of its own would repeat it. Two things differ, and are faults that need
  no model to see: a raise in its run has no handler and leaves the job running
  (`instruction_tuning_service.py:489`), and after a recovery it starts at `completed_steps` with
  freshly initialised weights (`:490`). **Base training** is a status row around such a job.
* **Checkpoint retention** deletes the weights of old checkpoints and marks their rows. To recovery
  that is a checkpoint whose directory is damaged, which `Damage` does to any checkpoint at any time.
  Quality gates and training evaluation compare numbers and write rows of their own.
* **Conversations, memory, authentication, the rate limiter, routing**: the server handles one
  request at a time, so a turn, a login or an admission is one step on one row or one window, and
  deletion and consent are conditions in that step. A model would restate them.
* **Corpus, datasets, documents, feedback, knowledge gaps, tokenizers, evaluation, RAG ingestion and
  retrieval, the RAG sandbox, dataset discovery and verification**: text and numeric work inside one
  call, with a review status around it. What the modelled parts need of them is an input: the case in
  `SampleImports`, the request in `RagPromotion`, the example in `IncrementalTraining`, which also has
  the dataset records and what is done to them.
* **Production readiness, the model track**: its requests drive the registry and the assignments,
  which have modules; checks and reports only read.
* **Scope switches and the runtime manifest** of assignments, **archive extraction, duplicate and
  contamination findings** of sample imports, **texts of families and candidates, comparisons and
  bundles** of the registry: no modelled operation reads them.
* **The admin assistant's tools and registries** read and format, or are tables.
* **The database layer** is modelled as what it guarantees: a transaction is a step, the CHECK
  constraints bound the statuses, a unique index refuses a second row.
* **Transformer, tokenizer and optimizer numerics** are floating point.

## 7. Running it

    tlc -workers 2 -config JobsDisciplined.cfg MCPretrainingJobs.tla
    tlc -workers 2 -config AssignServer.cfg MCModelAssignments.tla
    tlc -workers 2 -config Proposals.cfg AdminProposals.tla
    tlapm ModelAssignments_proofs.tla

The module of each run is in `runs` of `PROJECT.json`. The `MC` modules give the constants that a
`.cfg` cannot write, the symmetry sets, and the action constraint of `MCIncrementalTraining`;
`AdminProposals` needs none. Symmetry is used in no run with a liveness property; the refinement
checked with it, `ModelsAreReviewed`, is a safety property whose mapping treats all examples, records
and promotions alike.
