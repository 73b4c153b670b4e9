-------------------------- MODULE PretrainingJobs --------------------------
(***************************************************************************)
(* Base pretraining jobs, the worker processes that run them, the lease    *)
(* generation that fences a worker off its job, the checkpoint registry    *)
(* and crash recovery.                                                     *)
(*                                                                         *)
(*   backend/services/pretraining_service.py        admin calls, run_one   *)
(*   backend/services/worker_recovery_service.py    recover                *)
(*   core_model/training/trainer.py                 the training loop      *)
(*   core_model/checkpoints/recovery_validator.py   what recovery accepts  *)
(*                                                                         *)
(* Every "with repository.transaction()" block of the code is a BEGIN      *)
(* IMMEDIATE transaction of SQLite, so it is one atomic step here; an      *)
(* operation made of several transactions is several actions, and any      *)
(* other process may act, or this one die, between them.                   *)
(***************************************************************************)
EXTENDS Naturals, Sequences

CONSTANTS
    Jobs,           \* rows of pretraining_jobs
    Workers,        \* worker ids (training_worker.py --worker-name)
    NoWorker,       \* SQL NULL in pretraining_jobs.worker_id
    NoJob,          \* a worker process that runs nothing
    TotalSteps,     \* column total_steps, written once by create_job
    PatchedTotals,  \* total_steps values patch_job may put in configuration_json
    MetricEvery,    \* metric_interval_steps
    CheckpointEvery,\* checkpoint_interval_steps
    ValidateFrom,   \* statuses in which admins call validate_job
    QueueFrom,      \* statuses in which admins call queue_job
    CancelFrom,     \* statuses in which admins call cancel
    RaisesIn,       \* where run_one may raise something else than StaleWorkerError
    RecoveriesUsed, \* recovery types operators ask for
    SlowWorkers,    \* TRUE: a lease may expire while its worker still runs
    MaxCrashes,     \* bound: worker processes that die
    MaxDamage,      \* bound: checkpoint directories damaged on disk
    MaxGeneration,  \* bound: lease_generation at which operators stop recovering
    MaxCheckpoints  \* bound: checkpoint rows per job

Statuses == {"absent", "draft", "validating", "queued", "running",
             "pause_requested", "paused", "completed", "failed",
             "cancel_requested", "cancelled"}

Pcs == {"idle", "load", "loop", "metric", "checkpoint", "register",
        "final", "registerFinal", "finish", "best", "summary", "failing", "dead"}

RecoveryTypes == {"pause_resume", "stale_lease", "manual_resume"}

QueueAllowed  == {"draft", "validating", "paused"}
CancelAllowed == {"draft", "validating", "queued", "running", "paused"}

ASSUME NoWorkerAssumption == NoWorker \notin Workers
ASSUME NoJobAssumption    == NoJob \notin Jobs
ASSUME StepsAssumption    == /\ TotalSteps \in Nat \ {0}
                             /\ PatchedTotals \subseteq Nat \ {0}
                             /\ MetricEvery \in Nat \ {0}
                             /\ CheckpointEvery \in Nat \ {0}
ASSUME AdminAssumption    == /\ ValidateFrom \subseteq Statuses \ {"absent"}
                             /\ QueueFrom \subseteq QueueAllowed
                             /\ CancelFrom \subseteq CancelAllowed
                             /\ RecoveriesUsed \subseteq RecoveryTypes
ASSUME RaisesAssumption   == RaisesIn \subseteq Pcs \ {"idle", "failing", "dead"}
ASSUME ClockAssumption    == SlowWorkers \in BOOLEAN
ASSUME BoundsAssumption   == /\ MaxCrashes \in Nat
                             /\ MaxDamage \in Nat
                             /\ MaxGeneration \in Nat
                             /\ MaxCheckpoints \in Nat

VARIABLES
    job,     \* the rows of pretraining_jobs
    ckpts,   \* per job its pretraining_checkpoints in id order; the last is is_latest
    wk,      \* the worker processes: where each is in run_one, and its locals
    crashes, \* processes that died so far
    damage   \* checkpoint directories damaged so far

vars == <<job, ckpts, wk, crashes, damage>>

(***************************************************************************)
(* total is total_steps inside configuration_json, the one the trainer     *)
(* obeys; the column total_steps keeps the value given at creation.  best  *)
(* is the position of best_checkpoint_public_id, 0 for NULL; summarised    *)
(* says a run summary row exists.                                          *)
(***************************************************************************)
Totals == {TotalSteps} \cup PatchedTotals

JobRow == [status: Statuses, worker_id: Workers \cup {NoWorker},
           lease_generation: Nat, lease_expired: BOOLEAN,
           recovery_required: BOOLEAN, pause_requested: BOOLEAN,
           cancel_requested: BOOLEAN, completed_steps: Nat,
           total: Totals, best: Nat, summarised: BOOLEAN]

(***************************************************************************)
(* weights counts the optimizer steps the saved weights went through; step *)
(* is what the row claims.  good: status is completed or verified, not     *)
(* corrupt.  intact: the directory still passes checks 2-6 of recovery.    *)
(***************************************************************************)
CheckpointRow == [step: Nat, weights: Nat, good: BOOLEAN, intact: BOOLEAN]

Process == [pc: Pcs, job: Jobs \cup {NoJob}, token: Nat, start: Nat,
            step: Nat, weights: Nat,
            outcome: {"none", "completed", "paused", "cancelled"}]

Idle == [pc |-> "idle", job |-> NoJob, token |-> 0, start |-> 0, step |-> 0,
         weights |-> 0, outcome |-> "none"]

Working(w) == wk[w].pc \notin {"idle", "dead"}

TypeOK ==
    /\ job \in [Jobs -> JobRow]
    /\ ckpts \in [Jobs -> Seq(CheckpointRow)]
    /\ wk \in [Workers -> Process]
    /\ \A w \in Workers : Working(w) <=> wk[w].job # NoJob
    /\ crashes \in Nat
    /\ damage \in Nat

Init ==
    /\ job = [j \in Jobs |->
                [status |-> "absent", worker_id |-> NoWorker,
                 lease_generation |-> 0, lease_expired |-> FALSE,
                 recovery_required |-> FALSE, pause_requested |-> FALSE,
                 cancel_requested |-> FALSE, completed_steps |-> 0,
                 total |-> TotalSteps, best |-> 0, summarised |-> FALSE]]
    /\ ckpts = [j \in Jobs |-> << >>]
    /\ wk = [w \in Workers |-> Idle]
    /\ crashes = 0
    /\ damage = 0

-----------------------------------------------------------------------------
(* The admin's calls.                                                      *)

CreateJob(j) ==
    /\ job[j].status = "absent"
    /\ job' = [job EXCEPT ![j].status = "draft"]
    /\ UNCHANGED <<ckpts, wk, crashes, damage>>

(* patch_job rewrites configuration_json and leaves the total_steps column. *)
PatchJob(j, t) ==
    /\ job[j].status = "draft"
    /\ job' = [job EXCEPT ![j].total = t]
    /\ UNCHANGED <<ckpts, wk, crashes, damage>>

(* validate_job has no guard on the status: ValidateFrom says when it is called. *)
ValidateJob(j) ==
    /\ job[j].status \in ValidateFrom
    /\ job' = [job EXCEPT ![j].status = "validating"]
    /\ UNCHANGED <<ckpts, wk, crashes, damage>>

QueueJob(j) ==
    /\ job[j].status \in QueueAllowed \cap QueueFrom
    /\ job' = [job EXCEPT ![j].status = "queued"]
    /\ UNCHANGED <<ckpts, wk, crashes, damage>>

Pause(j) ==
    /\ job[j].status = "running"
    /\ job' = [job EXCEPT ![j] = [@ EXCEPT
                 !.status = "pause_requested",
                 !.pause_requested = TRUE]]
    /\ UNCHANGED <<ckpts, wk, crashes, damage>>

Cancel(j) ==
    /\ job[j].status \in CancelAllowed \cap CancelFrom
    /\ job' = [job EXCEPT ![j] = [@ EXCEPT
                 !.status = "cancel_requested",
                 !.cancel_requested = TRUE]]
    /\ UNCHANGED <<ckpts, wk, crashes, damage>>

(* verify_checkpoint rewrites the status from what the files say, whatever it was. *)
VerifyCheckpoint(j, i) ==
    /\ ckpts' = [ckpts EXCEPT ![j][i].good = ckpts[j][i].intact]
    /\ UNCHANGED <<job, wk, crashes, damage>>

-----------------------------------------------------------------------------
(* Recovery.                                                               *)

HasCheckpoint(j) == ckpts[j] # << >>
Latest(j) == ckpts[j][Len(ckpts[j])]

(* Mutant: an earlier row must claim a strictly smaller step. *)
StepStrictlyMonotonic(j) ==
    \A i \in 1 .. Len(ckpts[j]) - 1 : ckpts[j][i].step < Latest(j).step

(* Check 7: no earlier row of the job claims a later step. *)
StepMonotonic(j) ==
    \A i \in 1 .. Len(ckpts[j]) : ckpts[j][i].step <= Latest(j).step

LatestIsRecoverable(j) ==
    HasCheckpoint(j) => /\ Latest(j).good
                        /\ Latest(j).intact
                        /\ StepMonotonic(j)

(* Mutant: manual_resume forgets its status check. *)
RecoveryAlwaysAllowed(j, type) ==
    CASE type = "pause_resume"  -> job[j].status = "paused"
      [] type = "stale_lease"   -> job[j].recovery_required
      [] type = "manual_resume" -> TRUE

RecoveryAllowed(j, type) ==
    CASE type = "pause_resume"  -> job[j].status = "paused"
      [] type = "stale_lease"   -> job[j].recovery_required
      [] type = "manual_resume" -> job[j].status \in {"failed", "paused", "queued"}

(* Mutant: recovery leaves the counters where the crash left them. *)
RecoveryKeepsCounters(j) ==
    /\ LatestIsRecoverable(j)
    /\ job' = [job EXCEPT ![j] = [@ EXCEPT
                 !.status = "queued",
                 !.recovery_required = FALSE,
                 !.pause_requested = FALSE,
                 !.cancel_requested = FALSE,
                 !.lease_generation = job[j].lease_generation + 1,
                 !.worker_id = NoWorker,
                 !.lease_expired = FALSE]]
    /\ UNCHANGED ckpts

(* Mutant: recovery ends in resume_requested, which nothing else handles. *)
RecoveryRequestsResume(j) ==
    /\ LatestIsRecoverable(j)
    /\ job' = [job EXCEPT ![j] = [@ EXCEPT
                 !.status = "resume_requested",
                 !.recovery_required = FALSE]]
    /\ UNCHANGED ckpts

RecoverySucceeds(j) ==
    /\ LatestIsRecoverable(j)
    /\ job' = [job EXCEPT ![j] = [@ EXCEPT
                 !.status = "queued",
                 !.recovery_required = FALSE,
                 !.pause_requested = FALSE,
                 !.cancel_requested = FALSE,
                 !.completed_steps = IF HasCheckpoint(j) THEN Latest(j).step ELSE 0,
                 !.lease_generation = job[j].lease_generation + 1,
                 !.worker_id = NoWorker,
                 !.lease_expired = FALSE]]
    /\ UNCHANGED ckpts

RecoveryFails(j) ==
    /\ ~LatestIsRecoverable(j)
    /\ job' = [job EXCEPT ![j] = [@ EXCEPT
                 !.status = "failed",
                 !.lease_generation = job[j].lease_generation + 1]]
    /\ ckpts' = [ckpts EXCEPT ![j][Len(ckpts[j])].good = FALSE]

Recover(j, type) ==
    /\ job[j].status # "absent"
    /\ RecoveryAllowed(j, type)
    /\ job[j].lease_generation < MaxGeneration
    /\ RecoverySucceeds(j) \/ RecoveryFails(j)
    /\ UNCHANGED <<wk, crashes, damage>>

-----------------------------------------------------------------------------
(* One worker process: run_one, one action per transaction.                *)

(* What the fence compares: the row still names this worker and its token. *)
HoldsLease(w) ==
    /\ wk[w].job \in Jobs
    /\ job[wk[w].job].worker_id = w
    /\ job[wk[w].job].lease_generation = wk[w].token

(* Mutant: the sweep does not look at the expiry. *)
AllRunning == {j \in Jobs : job[j].status = "running"}

(* Mutant: the sweep looks at the wrong status. *)
ExpiredPauses == {j \in Jobs : job[j].status = "pause_requested" /\ job[j].lease_expired}

StaleJobs == {j \in Jobs : job[j].status = "running" /\ job[j].lease_expired}

(* Mutant: a flagged job can be claimed. *)
AnyQueued == {j \in Jobs : job[j].status = "queued"}

Claimable == {j \in Jobs : job[j].status = "queued" /\ ~job[j].recovery_required}

(* The sweep at the start of every _claim. *)
Swept == [j \in Jobs |->
            IF j \in StaleJobs
            THEN [job[j] EXCEPT !.status = "queued", !.recovery_required = TRUE,
                                !.lease_generation = job[j].lease_generation + 1]
            ELSE job[j]]

(* Bound: after the last recovery a job can still be claimed and swept once.  *)
RoomFor(j) == job[j].lease_generation < MaxGeneration + 2
RoomToSweep == \A j \in StaleJobs : RoomFor(j)

(* What _claim hands to _run_claimed: the token and the counters of the row.  *)
Started(j, token) ==
    [pc |-> "load", job |-> j, token |-> token, start |-> job[j].completed_steps,
     step |-> job[j].completed_steps, weights |-> 0, outcome |-> "none"]

(* Mutant: a claim does not bump the generation. *)
ClaimKeepsGeneration(w, j) ==
    /\ wk[w].pc = "idle"
    /\ j \in Claimable
    /\ RoomToSweep
    /\ RoomFor(j)
    /\ job' = [Swept EXCEPT ![j] = [@ EXCEPT
                 !.status = "running",
                 !.worker_id = w,
                 !.lease_expired = FALSE]]
    /\ wk' = [wk EXCEPT ![w] = Started(j, job[j].lease_generation)]
    /\ UNCHANGED <<ckpts, crashes, damage>>

Claim(w, j) ==
    /\ wk[w].pc = "idle"
    /\ j \in Claimable
    /\ RoomToSweep
    /\ RoomFor(j)
    /\ job' = [Swept EXCEPT ![j] = [@ EXCEPT
                 !.status = "running",
                 !.worker_id = w,
                 !.lease_generation = job[j].lease_generation + 1,
                 !.lease_expired = FALSE]]
    /\ wk' = [wk EXCEPT ![w] = Started(j, job[j].lease_generation + 1)]
    /\ UNCHANGED <<ckpts, crashes, damage>>

(* A poll that finds nothing to claim still commits its sweep. *)
SweepOnly(w) ==
    /\ wk[w].pc = "idle"
    /\ Claimable = {}
    /\ StaleJobs # {}
    /\ RoomToSweep
    /\ job' = Swept
    /\ UNCHANGED <<ckpts, wk, crashes, damage>>

(* Mutant: the checkpoint is not loaded, only its counters are used. *)
LoadFresh(w) ==
    /\ wk[w].pc = "load"
    /\ wk' = [wk EXCEPT ![w] = [@ EXCEPT
                 !.pc = "loop",
                 !.weights = 0]]
    /\ UNCHANGED <<job, ckpts, crashes, damage>>

(* Mutant: the resumed loop counts from 0 again. *)
LoadFromZero(w) ==
    LET j == wk[w].job IN
    /\ wk[w].pc = "load"
    /\ wk' = [wk EXCEPT ![w] = [@ EXCEPT
                 !.pc = "loop",
                 !.start = 0,
                 !.step = 0,
                 !.weights = IF HasCheckpoint(j) THEN Latest(j).weights ELSE 0]]
    /\ UNCHANGED <<job, ckpts, crashes, damage>>

(* A job claimed at step 0 starts from fresh weights; otherwise the latest    *)
(* checkpoint of this moment is loaded, or none if none is registered.        *)
Load(w) ==
    LET j == wk[w].job IN
    /\ wk[w].pc = "load"
    /\ wk' = [wk EXCEPT ![w] = [@ EXCEPT
                 !.pc = IF wk[w].start > 0 /\ HasCheckpoint(j) /\ ~Latest(j).intact
                        THEN "failing" ELSE "loop",
                 !.weights = IF wk[w].start > 0 /\ HasCheckpoint(j)
                             THEN Latest(j).weights ELSE 0]]
    /\ UNCHANGED <<job, ckpts, crashes, damage>>

(* Mutant: a stop request is seen and not acted upon. *)
FlagsIgnored(w) ==
    /\ wk[w].pc = "nowhere"
    /\ UNCHANGED vars

(* The flags are polled before each optimizer step, cancel before pause.      *)
StopRequested(w) ==
    LET j == wk[w].job IN
    /\ wk[w].pc = "loop"
    /\ wk[w].step < job[j].total
    /\ job[j].cancel_requested \/ job[j].pause_requested
    /\ wk' = [wk EXCEPT ![w] = [@ EXCEPT
                 !.pc = "final",
                 !.outcome = IF job[j].cancel_requested THEN "cancelled" ELSE "paused"]]
    /\ UNCHANGED <<job, ckpts, crashes, damage>>

AfterStep(n) == IF n % MetricEvery = 0 THEN "metric"
                ELSE IF n % CheckpointEvery = 0 THEN "checkpoint" ELSE "loop"

TrainStep(w) ==
    LET j == wk[w].job IN
    /\ wk[w].pc = "loop"
    /\ wk[w].step < job[j].total
    /\ ~job[j].cancel_requested
    /\ ~job[j].pause_requested
    /\ wk' = [wk EXCEPT ![w] = [@ EXCEPT
                 !.step = wk[w].step + 1,
                 !.weights = wk[w].weights + 1,
                 !.pc = AfterStep(wk[w].step + 1)]]
    /\ UNCHANGED <<job, ckpts, crashes, damage>>

(* A non-finite loss or gradient, a checkpoint over the size limit, a database *)
(* that stays locked, ...                                                      *)
Raises(w) ==
    /\ wk[w].pc \in RaisesIn
    /\ wk' = [wk EXCEPT ![w].pc = "failing"]
    /\ UNCHANGED <<job, ckpts, crashes, damage>>

(* Mutant: the loop ends one step early. *)
LoopEndsEarly(w) ==
    /\ wk[w].pc = "loop"
    /\ wk[w].step + 1 >= job[wk[w].job].total
    /\ wk' = [wk EXCEPT ![w] = [@ EXCEPT
                 !.pc = "final",
                 !.outcome = "completed"]]
    /\ UNCHANGED <<job, ckpts, crashes, damage>>

(* The loop is over. losses[0] raises if it ran no step at all.               *)
LoopEnds(w) ==
    /\ wk[w].pc = "loop"
    /\ wk[w].step >= job[wk[w].job].total
    /\ wk' = [wk EXCEPT ![w] = [@ EXCEPT
                 !.pc = IF wk[w].step = wk[w].start THEN "failing" ELSE "final",
                 !.outcome = IF wk[w].step = wk[w].start THEN "none" ELSE "completed"]]
    /\ UNCHANGED <<job, ckpts, crashes, damage>>

(* StaleWorkerError: run_one gives the job up without touching its row.       *)
GiveUp(w) ==
    /\ ~HoldsLease(w)
    /\ wk' = [wk EXCEPT ![w] = Idle]
    /\ UNCHANGED <<job, ckpts, crashes, damage>>

(* _metric: the fence, the renewal and the counters are one transaction.      *)
(* progress = step / total_steps must be at most 1 (a CHECK of the table).    *)
Metric(w) ==
    LET j == wk[w].job
        n == wk[w].step IN
    /\ wk[w].pc = "metric"
    /\ HoldsLease(w)
    /\ IF n <= TotalSteps
       THEN /\ job' = [job EXCEPT ![j] = [@ EXCEPT
                 !.completed_steps = n,
                 !.lease_expired = FALSE]]
            /\ wk' = [wk EXCEPT ![w].pc = IF n % CheckpointEvery = 0
                                          THEN "checkpoint" ELSE "loop"]
       ELSE /\ wk' = [wk EXCEPT ![w].pc = "failing"]
            /\ UNCHANGED job
    /\ UNCHANGED <<ckpts, crashes, damage>>

MetricStale(w) == wk[w].pc = "metric" /\ GiveUp(w)

(* Both checkpoint paths: the first transaction checks the fence, ...         *)
CheckFence(w) ==
    /\ wk[w].pc \in {"checkpoint", "final"}
    /\ HoldsLease(w)
    /\ wk' = [wk EXCEPT ![w].pc = IF wk[w].pc = "final" THEN "registerFinal"
                                                        ELSE "register"]
    /\ UNCHANGED <<job, ckpts, crashes, damage>>

CheckFenceStale(w) == wk[w].pc \in {"checkpoint", "final"} /\ GiveUp(w)

RowOf(w) == [step |-> wk[w].step, weights |-> wk[w].weights,
             good |-> TRUE, intact |-> TRUE]

(* ... the files are written, and a later transaction registers the row       *)
(* without looking at the fence again.                                        *)
RegisterPeriodic(w) ==
    LET j == wk[w].job IN
    /\ wk[w].pc = "register"
    /\ Len(ckpts[j]) < MaxCheckpoints
    /\ ckpts' = [ckpts EXCEPT ![j] = Append(ckpts[j], RowOf(w))]
    /\ job' = [job EXCEPT ![j].completed_steps = wk[w].step]
    /\ wk' = [wk EXCEPT ![w].pc = "loop"]
    /\ UNCHANGED <<crashes, damage>>

RegisterFinal(w) ==
    LET j == wk[w].job IN
    /\ wk[w].pc = "registerFinal"
    /\ Len(ckpts[j]) < MaxCheckpoints
    /\ ckpts' = [ckpts EXCEPT ![j] = Append(ckpts[j], RowOf(w))]
    /\ wk' = [wk EXCEPT ![w].pc = "finish"]
    /\ UNCHANGED <<job, crashes, damage>>

(* Mutant: the status is left as it was. *)
FinishForgetsStatus(w) ==
    /\ wk[w].pc = "finish"
    /\ job' = [job EXCEPT ![wk[w].job].completed_steps = wk[w].step]
    /\ wk' = [wk EXCEPT ![w] = IF wk[w].outcome = "completed"
                               THEN [wk[w] EXCEPT !.pc = "best"] ELSE Idle]
    /\ UNCHANGED <<ckpts, crashes, damage>>

(* The last transaction of _run_claimed: the status, unfenced.                *)
Finish(w) ==
    LET j == wk[w].job IN
    /\ wk[w].pc = "finish"
    /\ job' = [job EXCEPT ![j] = [@ EXCEPT
                 !.status = wk[w].outcome,
                 !.completed_steps = wk[w].step,
                 !.worker_id = w]]
    /\ wk' = [wk EXCEPT ![w] = IF wk[w].outcome = "completed"
                               THEN [wk[w] EXCEPT !.pc = "best"] ELSE Idle]
    /\ UNCHANGED <<ckpts, crashes, damage>>

(* Losses are not modelled: any usable row may be the best one.               *)
SelectBest(w) ==
    LET j == wk[w].job
        usable == {i \in 1 .. Len(ckpts[j]) : ckpts[j][i].good} IN
    /\ wk[w].pc = "best"
    /\ \/ /\ usable = {}
          /\ UNCHANGED job
       \/ \E i \in usable : job' = [job EXCEPT ![j].best = i]
    /\ wk' = [wk EXCEPT ![w].pc = "summary"]
    /\ UNCHANGED <<ckpts, crashes, damage>>

Summarise(w) ==
    /\ wk[w].pc = "summary"
    /\ job' = [job EXCEPT ![wk[w].job].summarised = TRUE]
    /\ wk' = [wk EXCEPT ![w] = Idle]
    /\ UNCHANGED <<ckpts, crashes, damage>>

(* The handler of run_one: 'failed' is written under the fence.               *)
HandleFailure(w) ==
    /\ wk[w].pc = "failing"
    /\ job' = IF HoldsLease(w) THEN [job EXCEPT ![wk[w].job].status = "failed"]
                               ELSE job
    /\ wk' = [wk EXCEPT ![w] = Idle]
    /\ UNCHANGED <<ckpts, crashes, damage>>

-----------------------------------------------------------------------------
(* The environment.                                                        *)

Crash(w) ==
    /\ wk[w].pc # "dead"
    /\ crashes < MaxCrashes
    /\ wk' = [wk EXCEPT ![w] = [Idle EXCEPT !.pc = "dead"]]
    /\ crashes' = crashes + 1
    /\ UNCHANGED <<job, ckpts, damage>>

Restart(w) ==
    /\ wk[w].pc = "dead"
    /\ wk' = [wk EXCEPT ![w] = Idle]
    /\ UNCHANGED <<job, ckpts, crashes, damage>>

(* Time passes lease_expires_at.  It only matters to a running job: no other  *)
(* status becomes running without a claim, and a claim renews the lease.      *)
Expire(j) ==
    /\ job[j].status = "running"
    /\ ~job[j].lease_expired
    /\ SlowWorkers \/ \A w \in Workers : ~(wk[w].job = j /\ HoldsLease(w))
    /\ job' = [job EXCEPT ![j].lease_expired = TRUE]
    /\ UNCHANGED <<ckpts, wk, crashes, damage>>

Damage(j, i) ==
    /\ damage < MaxDamage
    /\ ckpts[j][i].intact
    /\ ckpts' = [ckpts EXCEPT ![j][i].intact = FALSE]
    /\ damage' = damage + 1
    /\ UNCHANGED <<job, wk, crashes>>

-----------------------------------------------------------------------------
Admin ==
    \E j \in Jobs :
      \/ CreateJob(j)
      \/ \E t \in PatchedTotals : PatchJob(j, t)
      \/ ValidateJob(j)
      \/ QueueJob(j)
      \/ Pause(j)
      \/ Cancel(j)
      \/ \E i \in 1 .. Len(ckpts[j]) : VerifyCheckpoint(j, i)
      \/ \E type \in RecoveriesUsed : Recover(j, type)

Run(w) ==
    \/ \E j \in Jobs : Claim(w, j)
    \/ SweepOnly(w)
    \/ Load(w)
    \/ StopRequested(w)
    \/ TrainStep(w)
    \/ LoopEnds(w)
    \/ Metric(w)
    \/ MetricStale(w)
    \/ CheckFence(w)
    \/ CheckFenceStale(w)
    \/ RegisterPeriodic(w)
    \/ RegisterFinal(w)
    \/ Finish(w)
    \/ SelectBest(w)
    \/ Summarise(w)
    \/ HandleFailure(w)

Environment ==
    \/ \E w \in Workers : Raises(w) \/ Crash(w) \/ Restart(w)
    \/ \E j \in Jobs : Expire(j) \/ \E i \in 1 .. Len(ckpts[j]) : Damage(j, i)

Next == Admin \/ (\E w \in Workers : Run(w)) \/ Environment

Spec == Init /\ [][Next]_vars

(* A worker process polls in a loop and its transactions commit; somebody     *)
(* restarts a process that died; and time passes.                             *)
FairSpec == /\ Spec
            /\ \A w \in Workers : WF_vars(Run(w)) /\ WF_vars(Restart(w))
            /\ \A j \in Jobs : WF_vars(Expire(j))

(* Further, the operator recovers every job flagged for recovery.             *)
OperatedSpec == FairSpec /\ \A j \in Jobs : WF_vars(Recover(j, "stale_lease"))

-----------------------------------------------------------------------------
(* What the component promises.                                            *)

(* A lease token (job, generation) is given to one process, ever: two live *)
(* processes never hold the same one, so a fence tells them apart.         *)
TokensAreUnique ==
    \A v, w \in Workers :
        v # w /\ Working(v) /\ Working(w) /\ wk[v].job = wk[w].job
            => wk[v].token # wk[w].token

(* A job flagged for recovery is never run: only recover clears the flag.  *)
FlaggedNeverRuns ==
    \A j \in Jobs : job[j].recovery_required =>
        job[j].status \notin {"running", "pause_requested"}

(* A process at work is not taken over: its fence holds until it is done.  *)
WorkersKeepTheirLease ==
    \A w \in Workers : Working(w) => HoldsLease(w)

(* No step is skipped or counted twice: the weights in a checkpoint went   *)
(* through exactly the steps its row claims.                               *)
CheckpointsAreHonest ==
    \A j \in Jobs : \A i \in 1 .. Len(ckpts[j]) :
        ckpts[j][i].step = ckpts[j][i].weights

(* A job that can be claimed restarts from the checkpoint its counter names. *)
ClaimableIsResumable ==
    \A j \in Claimable :
        job[j].completed_steps = IF HasCheckpoint(j) THEN Latest(j).step ELSE 0

(* Recovery only ever rejects a checkpoint whose files were damaged.       *)
RejectedMeansDamaged ==
    \A j \in Jobs : \A i \in 1 .. Len(ckpts[j]) :
        ~ckpts[j][i].good => ~ckpts[j][i].intact

(* A completed job ran all its steps, and its latest checkpoint has them.  *)
CompletedMeansTrained ==
    \A j \in Jobs : job[j].status = "completed" =>
        /\ job[j].completed_steps = job[j].total
        /\ HasCheckpoint(j)
        /\ Latest(j).weights = job[j].total

(* The fencing token of a job never goes back.                             *)
GenerationNeverDecreases ==
    [][\A j \in Jobs : job'[j].lease_generation >= job[j].lease_generation]_vars

(* Completed and cancelled are final.                                      *)
OutcomesAreFinal ==
    [][\A j \in Jobs : job[j].status \in {"completed", "cancelled"} =>
          job'[j].status = job[j].status]_vars

(* Registered progress is durable and completion is truthful (DurableTraining). *)
Phase(j) == CASE job[j].status \in {"absent", "draft", "validating"} -> "new"
              [] job[j].status = "completed" -> "completed"
              [] job[j].status = "cancelled" -> "cancelled"
              [] OTHER -> "open"

Durable == INSTANCE DurableTraining WITH
    Goals <- Totals,
    phase <- [j \in Jobs |-> Phase(j)],
    goal  <- [j \in Jobs |-> job[j].total],
    saved <- [j \in Jobs |-> IF HasCheckpoint(j) THEN Latest(j).step ELSE 0]

ProgressIsDurable == Durable!DurableSpec

(* A running job whose process is gone is found by the sweep and flagged, or  *)
(* somebody has paused or cancelled it meanwhile.                             *)
Lost(j) == \A w \in Workers : ~(wk[w].job = j /\ HoldsLease(w))

LostRunsAreFlagged ==
    \A j \in Jobs : (job[j].status = "running" /\ Lost(j)) ~> (job[j].status # "running")

(* Once it is queued a job comes to rest, as long as no process dies.         *)
AtRest(j) == job[j].status \in {"completed", "cancelled", "paused", "failed"}

JobsComeToRest ==
    \A j \in Jobs : (job[j].status = "queued") ~> AtRest(j)

(* And across crashes, if the operator recovers what is flagged - unless it   *)
(* was being paused, which a crash can strand (LostJobsAreFlagged).           *)
JobsSurviveCrashes ==
    \A j \in Jobs :
        (job[j].status = "queued") ~> (AtRest(j) \/ job[j].status = "pause_requested")

(* A pause or a cancellation that was accepted comes to rest as well, or the  *)
(* job completes first.                                                       *)
RequestsAreServed ==
    \A j \in Jobs :
        (job[j].status \in {"pause_requested", "cancel_requested"}) ~> AtRest(j)

(* Every completed job ends up with a best checkpoint and a run summary.      *)
CompletedAreSummarised ==
    \A j \in Jobs :
        (job[j].status = "completed") ~> (job[j].summarised /\ job[j].best > 0)

-----------------------------------------------------------------------------
(* What the documents say and the code does not do.                           *)

(* docs/training_worker_leases.md: a worker whose lease is gone is stopped    *)
(* "immediately - no further writes happen".                                  *)
StaleWorkersNeverWrite ==
    [][\A w \in Workers :
         LET j == wk[w].job IN
         Working(w) /\ ~HoldsLease(w) /\ wk'[w] # wk[w]
             => job'[j] = job[j] /\ ckpts'[j] = ckpts[j]]_vars

(* docs/training_crash_recovery.md: "A job is never resumed without first     *)
(* validating its latest checkpoint" - a job that has been run is queued      *)
(* again only by recover, which clears its worker, or flagged by the sweep.   *)
ResumesAreValidated ==
    [][\A j \in Jobs :
         /\ job[j].worker_id # NoWorker
         /\ job[j].status # "queued"
         /\ job'[j].status = "queued"
         => job'[j].recovery_required \/ job'[j].worker_id = NoWorker]_vars

(* docs/training_crash_recovery.md: recovery "never rewinds" completed_steps. *)
RecoveryNeverRewinds ==
    [][\A j \in Jobs : job'[j].completed_steps >= job[j].completed_steps]_vars

(* docs/training_crash_recovery.md: recovery brings a job back into a         *)
(* runnable state - there is a step left to run when it is claimed.           *)
ClaimableCanRun ==
    \A j \in Claimable : job[j].completed_steps < job[j].total

(* docs/training_worker_leases.md: a frozen heartbeat and an expired lease    *)
(* are what the sweep needs to detect a killed worker.                        *)
LostJobsAreFlagged ==
    \A j \in Jobs :
        (Lost(j) /\ job[j].status \in {"running", "pause_requested", "cancel_requested"})
            ~> (job[j].recovery_required \/ AtRest(j))

=============================================================================
