----------------------- MODULE PretrainingJobs_proofs -----------------------
(***************************************************************************)
(* Proofs about PretrainingJobs, for any jobs, workers, intervals, admin   *)
(* behaviour and bounds.                                                   *)
(***************************************************************************)
EXTENDS PretrainingJobs, SequenceTheorems, TLAPS

USE NoWorkerAssumption, NoJobAssumption

(* A registry row can be rewritten, and a row appended, without leaving the type. *)
LEMMA RowUpdate ==
    ASSUME NEW s \in Seq(CheckpointRow), NEW i \in 1 .. Len(s),
           NEW r \in CheckpointRow
    PROVE  [s EXCEPT ![i] = r] \in Seq(CheckpointRow)
OBVIOUS

LEMMA RowAppend ==
    ASSUME NEW s \in Seq(CheckpointRow), NEW r \in CheckpointRow
    PROVE  /\ Append(s, r) \in Seq(CheckpointRow)
           /\ Len(Append(s, r)) = Len(s) + 1
OBVIOUS

LEMMA TotalsType == Totals \subseteq Nat \ {0}
BY StepsAssumption DEF Totals

LEMMA RowOfSeq ==
    ASSUME NEW s \in Seq(CheckpointRow), NEW i \in 1 .. Len(s)
    PROVE  s[i] \in CheckpointRow /\ s[i].step \in Nat /\ s[i].weights \in Nat
<1>1. s[i] \in CheckpointRow
  OBVIOUS
<1> QED
  BY <1>1, Zenon DEF CheckpointRow

(* What a row of either table holds; facts the steps below need one by one. *)
LEMMA JobFields ==
    ASSUME NEW r \in JobRow
    PROVE  /\ r.lease_generation \in Nat
           /\ r.lease_generation + 1 \in Nat
           /\ r.completed_steps \in Nat
           /\ r.total \in Nat
           /\ r.lease_generation + 1 >= r.lease_generation
<1>1. r.lease_generation \in Nat /\ r.completed_steps \in Nat /\ r.total \in Totals
  BY Zenon DEF JobRow
<1>2. r.total \in Nat
  BY <1>1, TotalsType
<1> QED
  BY <1>1, <1>2

LEMMA SweptRow ==
    ASSUME NEW r \in JobRow
    PROVE  [r EXCEPT !.status = "queued", !.recovery_required = TRUE,
                     !.lease_generation = r.lease_generation + 1] \in JobRow
<1>1. r.lease_generation + 1 \in Nat
  BY JobFields
<1> QED
  BY <1>1, Zenon DEF JobRow, Statuses

LEMMA RecoveredRow ==
    ASSUME NEW r \in JobRow, NEW c \in Nat, NEW g \in Nat
    PROVE  [r EXCEPT !.status = "queued",
                     !.recovery_required = FALSE,
                     !.pause_requested = FALSE,
                     !.cancel_requested = FALSE,
                     !.completed_steps = c,
                     !.lease_generation = g,
                     !.worker_id = NoWorker,
                     !.lease_expired = FALSE] \in JobRow
BY Zenon DEF JobRow, Statuses

LEMMA SweptType ==
    ASSUME job \in [Jobs -> JobRow]
    PROVE  Swept \in [Jobs -> JobRow]
BY SweptRow DEF Swept

LEMMA InitType == Init => TypeOK
<1> SUFFICES ASSUME Init PROVE TypeOK
  OBVIOUS
<1>1. job \in [Jobs -> JobRow]
  BY DEF Init, JobRow, Statuses, Totals
<1>2. ckpts \in [Jobs -> Seq(CheckpointRow)]
  BY DEF Init
<1>3. wk \in [Workers -> Process]
  BY DEF Init, Idle, Process, Pcs
<1> QED
  BY <1>1, <1>2, <1>3 DEF Init, TypeOK, Working, Idle

LEMMA IdleType == Idle \in Process
BY DEF Idle, Process, Pcs

(* Type correctness is preserved by the admin's calls, ... *)
LEMMA AdminType == TypeOK /\ Admin => TypeOK'
<1> SUFFICES ASSUME TypeOK, NEW j \in Jobs,
        \/ CreateJob(j)
        \/ \E t \in PatchedTotals : PatchJob(j, t)
        \/ ValidateJob(j)
        \/ QueueJob(j)
        \/ Pause(j)
        \/ Cancel(j)
        \/ \E i \in 1 .. Len(ckpts[j]) : VerifyCheckpoint(j, i)
        \/ \E type \in RecoveriesUsed : Recover(j, type)
      PROVE TypeOK'
  BY DEF Admin
<1> USE DEF TypeOK, Working
<1>1. CASE CreateJob(j)
  <2>1. [job[j] EXCEPT !.status = "draft"] \in JobRow
    BY Zenon DEF JobRow, Statuses
  <2> QED
    BY <1>1, <2>1 DEF CreateJob
<1>2. CASE \E t \in PatchedTotals : PatchJob(j, t)
  <2>1. PICK t \in PatchedTotals : PatchJob(j, t)
    BY <1>2
  <2>2. [job[j] EXCEPT !.total = t] \in JobRow
    BY Zenon DEF JobRow, Totals
  <2> QED
    BY <2>1, <2>2 DEF PatchJob
<1>3. CASE ValidateJob(j)
  <2>1. [job[j] EXCEPT !.status = "validating"] \in JobRow
    BY Zenon DEF JobRow, Statuses
  <2> QED
    BY <1>3, <2>1 DEF ValidateJob
<1>4. CASE QueueJob(j)
  <2>1. [job[j] EXCEPT !.status = "queued"] \in JobRow
    BY Zenon DEF JobRow, Statuses
  <2> QED
    BY <1>4, <2>1 DEF QueueJob
<1>5. CASE Pause(j)
  <2> DEFINE r == [job[j] EXCEPT !.status = "pause_requested", !.pause_requested = TRUE]
  <2>1. r \in JobRow
    BY Zenon DEF JobRow, Statuses
  <2> QED
    BY <1>5, <2>1 DEF Pause
<1>6. CASE Cancel(j)
  <2> DEFINE r == [job[j] EXCEPT !.status = "cancel_requested", !.cancel_requested = TRUE]
  <2>1. r \in JobRow
    BY Zenon DEF JobRow, Statuses
  <2> QED
    BY <1>6, <2>1 DEF Cancel
<1>7. CASE \E i \in 1 .. Len(ckpts[j]) : VerifyCheckpoint(j, i)
  <2>1. PICK i \in 1 .. Len(ckpts[j]) : VerifyCheckpoint(j, i)
    BY <1>7
  <2> DEFINE r == [ckpts[j][i] EXCEPT !.good = ckpts[j][i].intact]
  <2>a. ckpts[j][i] \in CheckpointRow
    BY RowOfSeq
  <2>2. r \in CheckpointRow
    BY <2>a, Zenon DEF CheckpointRow
  <2>3. [ckpts[j] EXCEPT ![i] = r] \in Seq(CheckpointRow)
    BY <2>2, RowUpdate
  <2>4. ckpts' = [ckpts EXCEPT ![j] = [ckpts[j] EXCEPT ![i] = r]]
    BY <2>1 DEF VerifyCheckpoint
  <2> QED
    BY <2>1, <2>3, <2>4 DEF VerifyCheckpoint
<1>8. CASE \E type \in RecoveriesUsed : Recover(j, type)
  <2>1. CASE RecoverySucceeds(j)
    <3> DEFINE c == IF HasCheckpoint(j) THEN Latest(j).step ELSE 0
               r == [job[j] EXCEPT !.status = "queued",
                                   !.recovery_required = FALSE,
                                   !.pause_requested = FALSE,
                                   !.cancel_requested = FALSE,
                                   !.completed_steps = c,
                                   !.lease_generation = job[j].lease_generation + 1,
                                   !.worker_id = NoWorker,
                                   !.lease_expired = FALSE]
    <3>1. c \in Nat
      <4>1. CASE HasCheckpoint(j)
        <5>1. Len(ckpts[j]) \in 1 .. Len(ckpts[j])
          BY <4>1 DEF HasCheckpoint
        <5> QED
          BY <5>1, RowOfSeq DEF Latest
      <4> QED
        BY <4>1
    <3>2. job[j].lease_generation + 1 \in Nat
      BY JobFields
    <3>3. r \in JobRow
      <4> HIDE DEF c
      <4> QED
        BY <3>1, <3>2, RecoveredRow
    <3> QED
      BY <1>8, <2>1, <3>3 DEF Recover, RecoverySucceeds
  <2>2. CASE RecoveryFails(j)
    <3> DEFINE n == Len(ckpts[j])
               r == [ckpts[j][n] EXCEPT !.good = FALSE]
    <3>1. n \in 1 .. Len(ckpts[j])
      BY <2>2 DEF RecoveryFails, LatestIsRecoverable, HasCheckpoint
    <3>a. ckpts[j][n] \in CheckpointRow
      BY <3>1, RowOfSeq
    <3>2. r \in CheckpointRow
      BY <3>a, Zenon DEF CheckpointRow
    <3>3. [ckpts[j] EXCEPT ![n] = r] \in Seq(CheckpointRow)
      BY <3>1, <3>2, RowUpdate
    <3>4. ckpts' = [ckpts EXCEPT ![j] = [ckpts[j] EXCEPT ![n] = r]]
      BY <2>2 DEF RecoveryFails
    <3> DEFINE q == [job[j] EXCEPT !.status = "failed",
                                   !.lease_generation = job[j].lease_generation + 1]
    <3>5. job[j].lease_generation + 1 \in Nat
      BY JobFields
    <3>6. q \in JobRow
      BY <3>5, Zenon DEF JobRow, Statuses
    <3> QED
      BY <1>8, <2>2, <3>3, <3>4, <3>6 DEF Recover, RecoveryFails
  <2> QED
    BY <1>8, <2>1, <2>2 DEF Recover
<1> QED
  BY <1>1, <1>2, <1>3, <1>4, <1>5, <1>6, <1>7, <1>8

(* ... and by the steps of a worker, each of which rewrites its own process, *)
LEMMA ProcessUpdate ==
    ASSUME TypeOK, NEW w \in Workers, NEW p \in Process,
           p.pc \in {"idle", "dead"} <=> p.job = NoJob,
           wk' = [wk EXCEPT ![w] = p],
           job' \in [Jobs -> JobRow],
           ckpts' \in [Jobs -> Seq(CheckpointRow)],
           UNCHANGED damage,
           crashes' \in Nat
    PROVE  TypeOK'
BY DEF TypeOK, Working

(* A process that is at work has a job, and counters.                        *)
LEMMA WorkerType ==
    ASSUME TypeOK, NEW w \in Workers, Working(w)
    PROVE  /\ wk[w] \in Process
           /\ wk[w].job \in Jobs
           /\ wk[w].step \in Nat
           /\ wk[w].step + 1 \in Nat
           /\ wk[w].weights \in Nat
           /\ wk[w].weights + 1 \in Nat
           /\ wk[w].token \in Nat
<1>1. wk[w] \in Process /\ wk[w].job # NoJob
  BY DEF TypeOK
<1>2. wk[w].job \in Jobs /\ wk[w].step \in Nat /\ wk[w].weights \in Nat /\ wk[w].token \in Nat
  BY <1>1, Zenon DEF Process
<1> QED
  BY <1>1, <1>2

LEMMA ClaimType ==
    ASSUME TypeOK, NEW w \in Workers, NEW j \in Jobs, Claim(w, j)
    PROVE  TypeOK'
<1> DEFINE r == [Swept[j] EXCEPT !.status = "running", !.worker_id = w,
                       !.lease_generation = job[j].lease_generation + 1,
                       !.lease_expired = FALSE]
           p == Started(j, job[j].lease_generation + 1)
<1>1. job[j] \in JobRow /\ Swept[j] \in JobRow
  BY SweptType DEF TypeOK
<1>2. job[j].lease_generation + 1 \in Nat /\ job[j].completed_steps \in Nat
  BY <1>1, JobFields
<1>3. r \in JobRow
  BY <1>1, <1>2, Zenon DEF JobRow, Statuses
<1>5. p \in Process
  BY <1>2 DEF Process, Pcs, Started
<1>6. p.pc \in {"idle", "dead"} <=> p.job = NoJob
  BY NoJobAssumption DEF Started
<1>7. job' \in [Jobs -> JobRow]
  BY <1>3, SweptType DEF Claim, TypeOK
<1>8. wk' = [wk EXCEPT ![w] = p]
  BY DEF Claim
<1> QED
  <2> HIDE DEF p
  <2> QED
    BY <1>5, <1>6, <1>7, <1>8, ProcessUpdate DEF Claim, TypeOK

LEMMA RowOfType ==
    ASSUME TypeOK, NEW w \in Workers, Working(w)
    PROVE  RowOf(w) \in CheckpointRow
BY WorkerType DEF RowOf, CheckpointRow

(* A step that moves a working process on keeps the type if its new record   *)
(* is typed, has a working pc and keeps the job.                             *)
LEMMA MovesOn ==
    ASSUME TypeOK, NEW w \in Workers, Working(w),
           NEW p \in Process, p.pc \notin {"idle", "dead"}, p.job = wk[w].job,
           wk' = [wk EXCEPT ![w] = p],
           job' \in [Jobs -> JobRow],
           ckpts' \in [Jobs -> Seq(CheckpointRow)],
           UNCHANGED <<crashes, damage>>
    PROVE  TypeOK'
BY WorkerType, ProcessUpdate, NoJobAssumption DEF TypeOK

LEMMA GiveUpType ==
    ASSUME TypeOK, NEW w \in Workers, GiveUp(w)
    PROVE  TypeOK'
BY ProcessUpdate, IdleType DEF GiveUp, Idle, TypeOK

LEMMA LoadType ==
    ASSUME TypeOK, NEW w \in Workers, Load(w)
    PROVE  TypeOK'
<1> DEFINE j == wk[w].job
           c == IF wk[w].start > 0 /\ HasCheckpoint(j) /\ ~Latest(j).intact
                THEN "failing" ELSE "loop"
           x == IF wk[w].start > 0 /\ HasCheckpoint(j) THEN Latest(j).weights ELSE 0
           p == [wk[w] EXCEPT !.pc = c, !.weights = x]
<1>1. Working(w)
  BY DEF Load, Working
<1>2. wk[w] \in Process /\ j \in Jobs
  BY <1>1, WorkerType
<1>3. x \in Nat
  <2>1. CASE HasCheckpoint(j)
    <3>1. Len(ckpts[j]) \in 1 .. Len(ckpts[j]) /\ ckpts[j] \in Seq(CheckpointRow)
      BY <1>2, <2>1 DEF HasCheckpoint, TypeOK
    <3> QED
      BY <3>1, RowOfSeq DEF Latest
  <2> QED
    BY <2>1
<1>4. c \in Pcs /\ c \notin {"idle", "dead"}
  BY DEF Pcs
<1>5. p \in Process /\ p.pc = c /\ p.job = wk[w].job
  <2> HIDE DEF c, x
  <2> QED
    BY <1>2, <1>3, <1>4, Zenon DEF Process
<1>6. wk' = [wk EXCEPT ![w] = p]
  BY <1>2 DEF Load, TypeOK
<1> QED
  <2> HIDE DEF p, c
  <2> QED
    BY <1>1, <1>4, <1>5, <1>6, MovesOn DEF Load, TypeOK

LEMMA LoopType ==
    ASSUME TypeOK, NEW w \in Workers, StopRequested(w) \/ TrainStep(w) \/ LoopEnds(w)
    PROVE  TypeOK'
<1>1. Working(w)
  BY DEF StopRequested, TrainStep, LoopEnds, Working
<1>2. wk[w] \in Process /\ wk[w].step + 1 \in Nat /\ wk[w].weights + 1 \in Nat
  BY <1>1, WorkerType
<1>3. CASE StopRequested(w)
  <2> DEFINE o == IF job[wk[w].job].cancel_requested THEN "cancelled" ELSE "paused"
             p == [wk[w] EXCEPT !.pc = "final", !.outcome = o]
  <2>1. "final" \in Pcs /\ o \in {"none", "completed", "paused", "cancelled"}
    BY DEF Pcs
  <2>2. p \in Process /\ p.pc = "final" /\ p.job = wk[w].job
    <3> HIDE DEF o
    <3> QED
      BY <1>2, <2>1, Zenon DEF Process
  <2>3. wk' = [wk EXCEPT ![w] = p]
    BY <1>3 DEF StopRequested
  <2> HIDE DEF p
  <2> QED
    BY <1>1, <1>3, <2>2, <2>3, MovesOn DEF StopRequested, TypeOK
<1>4. CASE TrainStep(w)
  <2> DEFINE n == wk[w].step + 1
             x == wk[w].weights + 1
             c == AfterStep(n)
             p == [wk[w] EXCEPT !.step = n, !.weights = x, !.pc = c]
  <2>1. c \in Pcs /\ c \notin {"idle", "dead"}
    BY DEF AfterStep, Pcs
  <2>2. n \in Nat /\ x \in Nat
    BY <1>2
  <2>3. p \in Process /\ p.pc = c /\ p.job = wk[w].job
    <3> HIDE DEF n, x, c
    <3> QED
      BY <1>2, <2>1, <2>2, Zenon DEF Process
  <2>4. wk' = [wk EXCEPT ![w] = p]
    BY <1>4 DEF TrainStep
  <2> HIDE DEF p, c
  <2> QED
    BY <1>1, <1>4, <2>1, <2>3, <2>4, MovesOn DEF TrainStep, TypeOK
<1>5. CASE LoopEnds(w)
  <2> DEFINE c == IF wk[w].step = wk[w].start THEN "failing" ELSE "final"
             o == IF wk[w].step = wk[w].start THEN "none" ELSE "completed"
             p == [wk[w] EXCEPT !.pc = c, !.outcome = o]
  <2>1. /\ c \in Pcs /\ c \notin {"idle", "dead"}
        /\ o \in {"none", "completed", "paused", "cancelled"}
    BY DEF Pcs
  <2>2. p \in Process /\ p.pc = c /\ p.job = wk[w].job
    <3> HIDE DEF c, o
    <3> QED
      BY <1>2, <2>1, Zenon DEF Process
  <2>3. wk' = [wk EXCEPT ![w] = p]
    BY <1>5 DEF LoopEnds
  <2> HIDE DEF p, c
  <2> QED
    BY <1>1, <1>5, <2>1, <2>2, <2>3, MovesOn DEF LoopEnds, TypeOK
<1> QED
  BY <1>3, <1>4, <1>5

(* The steps that only change where a working process is, with some effect on *)
(* its job's row or on the registry.                                          *)
LEMMA PcStep ==
    ASSUME TypeOK, NEW w \in Workers, Working(w), NEW c \in Pcs, c \notin {"idle", "dead"},
           wk' = [wk EXCEPT ![w].pc = c],
           job' \in [Jobs -> JobRow],
           ckpts' \in [Jobs -> Seq(CheckpointRow)],
           UNCHANGED <<crashes, damage>>
    PROVE  TypeOK'
<1> DEFINE p == [wk[w] EXCEPT !.pc = c]
<1>1. wk[w] \in Process
  BY WorkerType
<1>2. p \in Process /\ p.pc = c /\ p.job = wk[w].job
  BY <1>1, Zenon DEF Process
<1>3. wk' = [wk EXCEPT ![w] = p]
  OBVIOUS
<1> HIDE DEF p
<1> QED
  BY <1>2, <1>3, MovesOn

LEMMA FenceType ==
    ASSUME TypeOK, NEW w \in Workers, CheckFence(w)
    PROVE  TypeOK'
<1> DEFINE c == IF wk[w].pc = "final" THEN "registerFinal" ELSE "register"
<1>1. Working(w) /\ c \in Pcs /\ c \notin {"idle", "dead"}
  BY DEF CheckFence, Working, Pcs
<1>2. wk' = [wk EXCEPT ![w].pc = c]
  BY DEF CheckFence
<1> HIDE DEF c
<1> QED
  BY <1>1, <1>2, PcStep DEF CheckFence, TypeOK

LEMMA MetricType ==
    ASSUME TypeOK, NEW w \in Workers, Metric(w)
    PROVE  TypeOK'
<1> DEFINE j == wk[w].job
           n == wk[w].step
           r == [job[j] EXCEPT !.completed_steps = n, !.lease_expired = FALSE]
           c == IF n <= TotalSteps
                THEN IF n % CheckpointEvery = 0 THEN "checkpoint" ELSE "loop"
                ELSE "failing"
<1>1. Working(w) /\ c \in Pcs /\ c \notin {"idle", "dead"}
  BY DEF Metric, Working, Pcs
<1>2. j \in Jobs /\ n \in Nat /\ job[j] \in JobRow
  BY <1>1, WorkerType DEF TypeOK
<1>3. r \in JobRow
  BY <1>2, Zenon DEF JobRow
<1>4. wk' = [wk EXCEPT ![w].pc = c]
  BY DEF Metric
<1>5. job' = job \/ job' = [job EXCEPT ![j] = r]
  BY DEF Metric
<1>6. job' \in [Jobs -> JobRow]
  <2> HIDE DEF r
  <2> QED
    BY <1>3, <1>5 DEF TypeOK
<1> HIDE DEF c
<1> QED
  BY <1>1, <1>4, <1>6, PcStep DEF Metric, TypeOK

LEMMA RegisterType ==
    ASSUME TypeOK, NEW w \in Workers, RegisterPeriodic(w) \/ RegisterFinal(w)
    PROVE  TypeOK'
<1> DEFINE j == wk[w].job
           r == [job[j] EXCEPT !.completed_steps = wk[w].step]
           c == IF wk[w].pc = "register" THEN "loop" ELSE "finish"
<1>1. Working(w) /\ c \in Pcs /\ c \notin {"idle", "dead"}
  BY DEF RegisterPeriodic, RegisterFinal, Working, Pcs
<1>2. j \in Jobs /\ wk[w].step \in Nat /\ job[j] \in JobRow
  BY <1>1, WorkerType DEF TypeOK
<1>3. r \in JobRow
  BY <1>2, Zenon DEF JobRow
<1>4. wk' = [wk EXCEPT ![w].pc = c]
  BY DEF RegisterPeriodic, RegisterFinal
<1>5. job' \in [Jobs -> JobRow]
  <2>1. job' = job \/ job' = [job EXCEPT ![j] = r]
    BY DEF RegisterPeriodic, RegisterFinal
  <2> HIDE DEF r
  <2> QED
    BY <1>3, <2>1 DEF TypeOK
<1>6. ckpts' \in [Jobs -> Seq(CheckpointRow)]
  <2>1. RowOf(w) \in CheckpointRow
    BY <1>1, RowOfType
  <2>2. Append(ckpts[j], RowOf(w)) \in Seq(CheckpointRow)
    BY <1>2, <2>1, RowAppend DEF TypeOK
  <2> QED
    BY <2>2 DEF RegisterPeriodic, RegisterFinal, TypeOK
<1> HIDE DEF c
<1> QED
  BY <1>1, <1>4, <1>5, <1>6, PcStep DEF RegisterPeriodic, RegisterFinal

(* The three steps after which a process may be idle again.                   *)
LEMMA BackToIdle ==
    ASSUME TypeOK, NEW w \in Workers, wk' = [wk EXCEPT ![w] = Idle],
           job' \in [Jobs -> JobRow], UNCHANGED <<ckpts, crashes, damage>>
    PROVE  TypeOK'
BY ProcessUpdate, IdleType DEF TypeOK, Idle

(* Before its final transaction a process has decided how the job ends; the   *)
(* status that Finish writes is therefore one of the table's statuses.        *)
OutcomeDecided ==
    \A w \in Workers :
        wk[w].pc \in {"final", "registerFinal", "finish"} =>
            wk[w].outcome \in {"completed", "paused", "cancelled"}

LEMMA FinishType ==
    ASSUME TypeOK, OutcomeDecided, NEW w \in Workers, Finish(w)
    PROVE  TypeOK'
<1> DEFINE j == wk[w].job
           o == wk[w].outcome
           r == [job[j] EXCEPT !.status = o, !.completed_steps = wk[w].step, !.worker_id = w]
           p == [wk[w] EXCEPT !.pc = "best"]
<1>1. Working(w)
  BY DEF Finish, Working
<1>2. j \in Jobs /\ wk[w].step \in Nat /\ job[j] \in JobRow /\ wk[w] \in Process
  BY <1>1, WorkerType DEF TypeOK
<1>3. o \in Statuses
  BY DEF Finish, OutcomeDecided, Statuses
<1>4. r \in JobRow
  <2> HIDE DEF o
  <2> QED
    BY <1>2, <1>3, Zenon DEF JobRow
<1>5. job' \in [Jobs -> JobRow]
  <2>1. job' = [job EXCEPT ![j] = r]
    BY DEF Finish
  <2> HIDE DEF r
  <2> QED
    BY <1>4, <2>1 DEF TypeOK
<1>6. CASE o = "completed"
  <2>1. wk' = [wk EXCEPT ![w] = p]
    BY <1>6 DEF Finish
  <2>2. "best" \in Pcs /\ "best" \notin {"idle", "dead"}
    BY DEF Pcs
  <2>3. p \in Process /\ p.pc = "best" /\ p.job = wk[w].job
    BY <1>2, <2>2, Zenon DEF Process
  <2> HIDE DEF p
  <2> QED
    BY <1>1, <1>5, <2>1, <2>2, <2>3, MovesOn DEF Finish, TypeOK
<1>7. CASE o # "completed"
  <2>1. wk' = [wk EXCEPT ![w] = Idle]
    BY <1>7 DEF Finish
  <2> QED
    BY <1>5, <2>1, BackToIdle DEF Finish
<1> QED
  BY <1>6, <1>7

LEMMA CompletionType ==
    ASSUME TypeOK, NEW w \in Workers, SelectBest(w) \/ Summarise(w) \/ HandleFailure(w)
    PROVE  TypeOK'
<1>1. Working(w)
  BY DEF SelectBest, Summarise, HandleFailure, Working
<1>2. wk[w].job \in Jobs /\ job[wk[w].job] \in JobRow
  BY <1>1, WorkerType DEF TypeOK
<1>3. CASE SelectBest(w)
  <2> DEFINE j == wk[w].job
  <2>1. job' \in [Jobs -> JobRow]
    <3>1. CASE UNCHANGED job
      BY <3>1 DEF TypeOK
    <3>2. ASSUME NEW i \in 1 .. Len(ckpts[j]), job' = [job EXCEPT ![j].best = i]
          PROVE  job' \in [Jobs -> JobRow]
      <4> DEFINE r == [job[j] EXCEPT !.best = i]
      <4>1. i \in Nat
        <5>1. Len(ckpts[j]) \in Nat
          BY <1>2 DEF TypeOK
        <5> QED
          BY <5>1
      <4>2. r \in JobRow
        BY <1>2, <4>1, Zenon DEF JobRow
      <4>3. job' = [job EXCEPT ![j] = r]
        BY <3>2
      <4> HIDE DEF r
      <4> QED
        BY <4>2, <4>3 DEF TypeOK
    <3> QED
      BY <1>3, <3>1, <3>2 DEF SelectBest
  <2>2. "summary" \in Pcs /\ "summary" \notin {"idle", "dead"}
    BY DEF Pcs
  <2> QED
    BY <1>1, <1>3, <2>1, <2>2, PcStep DEF SelectBest, TypeOK
<1>4. CASE Summarise(w)
  <2> DEFINE r == [job[wk[w].job] EXCEPT !.summarised = TRUE]
  <2>1. r \in JobRow
    BY <1>2, Zenon DEF JobRow
  <2>2. job' = [job EXCEPT ![wk[w].job] = r]
    BY <1>4 DEF Summarise
  <2> HIDE DEF r
  <2>3. job' \in [Jobs -> JobRow]
    BY <2>1, <2>2 DEF TypeOK
  <2> QED
    BY <1>4, <2>3, BackToIdle DEF Summarise
<1>5. CASE HandleFailure(w)
  <2> DEFINE r == [job[wk[w].job] EXCEPT !.status = "failed"]
  <2>1. r \in JobRow
    BY <1>2, Zenon DEF JobRow, Statuses
  <2>2. job' = job \/ job' = [job EXCEPT ![wk[w].job] = r]
    BY <1>5 DEF HandleFailure
  <2> HIDE DEF r
  <2>3. job' \in [Jobs -> JobRow]
    BY <2>1, <2>2 DEF TypeOK
  <2> QED
    BY <1>5, <2>3, BackToIdle DEF HandleFailure
<1> QED
  BY <1>3, <1>4, <1>5

(* ... by a worker's whole range of steps, ...                                *)
LEMMA RunType ==
    ASSUME TypeOK, OutcomeDecided, NEW w \in Workers, Run(w)
    PROVE  TypeOK'
<1>1. CASE SweepOnly(w)
  BY <1>1, SweptType DEF SweepOnly, TypeOK, Working
<1>2. CASE MetricStale(w) \/ CheckFenceStale(w)
  BY <1>2, GiveUpType DEF MetricStale, CheckFenceStale
<1> QED
  BY <1>1, <1>2, ClaimType, LoadType, LoopType, MetricType, FenceType, RegisterType,
     FinishType, CompletionType DEF Run

(* ... and by what the environment does.                                      *)
LEMMA EnvironmentType ==
    ASSUME TypeOK, Environment
    PROVE  TypeOK'
<1>1. ASSUME NEW w \in Workers, Raises(w) PROVE TypeOK'
  <2>1. Working(w) /\ "failing" \in Pcs /\ "failing" \notin {"idle", "dead"}
    BY <1>1, RaisesAssumption DEF Raises, Working, Pcs
  <2> QED
    BY <1>1, <2>1, PcStep DEF Raises, TypeOK
<1>2. ASSUME NEW w \in Workers, Crash(w) \/ Restart(w) PROVE TypeOK'
  <2> DEFINE dead == [Idle EXCEPT !.pc = "dead"]
  <2>1. dead \in Process /\ dead.pc = "dead" /\ dead.job = NoJob
    BY DEF Idle, Process, Pcs
  <2>2. wk' = [wk EXCEPT ![w] = dead] \/ wk' = [wk EXCEPT ![w] = Idle]
    BY <1>2 DEF Crash, Restart
  <2>3. crashes' \in Nat
    BY <1>2 DEF Crash, Restart, TypeOK
  <2>4. Idle.pc = "idle" /\ Idle.job = NoJob
    BY DEF Idle
  <2> HIDE DEF dead
  <2> QED
    BY <1>2, <2>1, <2>2, <2>3, <2>4, IdleType, ProcessUpdate DEF Crash, Restart, TypeOK
<1>3. ASSUME NEW j \in Jobs, Expire(j) PROVE TypeOK'
  <2> DEFINE r == [job[j] EXCEPT !.lease_expired = TRUE]
  <2>1. r \in JobRow
    BY Zenon DEF JobRow, TypeOK
  <2>2. job' = [job EXCEPT ![j] = r]
    BY <1>3 DEF Expire
  <2> HIDE DEF r
  <2> QED
    BY <1>3, <2>1, <2>2 DEF Expire, TypeOK, Working
<1>4. ASSUME NEW j \in Jobs, NEW i \in 1 .. Len(ckpts[j]), Damage(j, i) PROVE TypeOK'
  <2> DEFINE r == [ckpts[j][i] EXCEPT !.intact = FALSE]
  <2>1. ckpts[j] \in Seq(CheckpointRow) /\ ckpts[j][i] \in CheckpointRow
    BY RowOfSeq DEF TypeOK
  <2>2. r \in CheckpointRow
    BY <2>1, Zenon DEF CheckpointRow
  <2>3. ckpts' = [ckpts EXCEPT ![j] = [ckpts[j] EXCEPT ![i] = r]]
    BY <1>4 DEF Damage
  <2>4. [ckpts[j] EXCEPT ![i] = r] \in Seq(CheckpointRow)
    BY <2>1, <2>2, RowUpdate
  <2> QED
    BY <1>4, <2>3, <2>4 DEF Damage, TypeOK, Working
<1> QED
  BY <1>1, <1>2, <1>3, <1>4 DEF Environment

(* A worker's step changes its own process only; the others are changed by    *)
(* nobody else than the environment.                                          *)
LEMMA OtherProcesses ==
    ASSUME TypeOK, NEW w \in Workers, NEW v \in Workers, v # w, Run(w)
    PROVE  wk'[v] = wk[v]
<1> wk \in [Workers -> Process]
  BY DEF TypeOK
<1>1. CASE (\E j \in Jobs : Claim(w, j)) \/ SweepOnly(w) \/ Load(w)
  BY <1>1 DEF Claim, SweepOnly, Load
<1>2. CASE StopRequested(w) \/ TrainStep(w) \/ LoopEnds(w)
  BY <1>2 DEF StopRequested, TrainStep, LoopEnds
<1>3. CASE Metric(w) \/ MetricStale(w) \/ CheckFence(w) \/ CheckFenceStale(w)
  BY <1>3 DEF Metric, MetricStale, CheckFence, CheckFenceStale, GiveUp
<1>4. CASE RegisterPeriodic(w) \/ RegisterFinal(w) \/ Finish(w)
  BY <1>4 DEF RegisterPeriodic, RegisterFinal, Finish
<1>5. CASE SelectBest(w) \/ Summarise(w) \/ HandleFailure(w)
  BY <1>5 DEF SelectBest, Summarise, HandleFailure
<1> QED
  BY <1>1, <1>2, <1>3, <1>4, <1>5 DEF Run

LEMMA OutcomeStep ==
    ASSUME TypeOK, OutcomeDecided, [Next]_vars
    PROVE  OutcomeDecided'
<1> SUFFICES ASSUME NEW v \in Workers,
                    wk'[v].pc \in {"final", "registerFinal", "finish"}
             PROVE  wk'[v].outcome \in {"completed", "paused", "cancelled"}
  BY DEF OutcomeDecided
<1>0. wk \in [Workers -> Process] /\ wk[v] \in Process
  BY DEF TypeOK
<1>1. CASE wk'[v] = wk[v]
  BY <1>1 DEF OutcomeDecided
<1>2. CASE Run(v)
  <2>1. CASE (\E j \in Jobs : Claim(v, j)) \/ SweepOnly(v)
    <3>1. ASSUME NEW j \in Jobs, Claim(v, j) PROVE wk'[v].pc = "load"
      BY <1>0, <3>1 DEF Claim, Started
    <3>2. CASE SweepOnly(v)
      BY <1>1, <3>2 DEF SweepOnly
    <3> QED
      BY <2>1, <3>1, <3>2
  <2>2. CASE Load(v) \/ TrainStep(v)
    <3>1. wk'[v].pc \in {"loop", "failing", "metric", "checkpoint"}
      <4>1. CASE Load(v)
        BY <1>0, <4>1 DEF Load, Process
      <4>2. CASE TrainStep(v)
        <5> DEFINE c == AfterStep(wk[v].step + 1)
        <5>1. c \in {"loop", "metric", "checkpoint"}
          BY DEF AfterStep
        <5>2. wk'[v].pc = c
          <6> HIDE DEF c
          <6>1. wk' = [wk EXCEPT ![v] = [wk[v] EXCEPT !.step = wk[v].step + 1,
                                   !.weights = wk[v].weights + 1, !.pc = c]]
            BY <4>2 DEF TrainStep, c
          <6> QED
            BY <1>0, <6>1, Zenon DEF Process
        <5> QED
          BY <5>1, <5>2
      <4> QED
        BY <2>2, <4>1, <4>2
    <3> QED
      BY <3>1
  <2>a. CASE StopRequested(v) \/ LoopEnds(v)
    <3> DEFINE o == IF StopRequested(v)
                    THEN IF job[wk[v].job].cancel_requested THEN "cancelled" ELSE "paused"
                    ELSE IF wk[v].step = wk[v].start THEN "none" ELSE "completed"
               c == IF StopRequested(v) THEN "final"
                    ELSE IF wk[v].step = wk[v].start THEN "failing" ELSE "final"
    <3>1. wk' = [wk EXCEPT ![v] = [wk[v] EXCEPT !.pc = c, !.outcome = o]]
      BY <2>a DEF StopRequested, LoopEnds
    <3>2. wk'[v].pc = c /\ wk'[v].outcome = o
      <4> HIDE DEF c, o
      <4> QED
        BY <1>0, <3>1, Zenon DEF Process
    <3> QED
      BY <3>2
  <2>3. CASE Metric(v) \/ MetricStale(v)
    BY <1>0, <2>3 DEF Metric, MetricStale, GiveUp, Idle, Process
  <2>4. CASE CheckFence(v) \/ CheckFenceStale(v)
    BY <1>0, <2>4 DEF CheckFence, CheckFenceStale, GiveUp, Idle, Process, OutcomeDecided
  <2>5. CASE RegisterPeriodic(v) \/ RegisterFinal(v) \/ Finish(v)
    BY <1>0, <2>5 DEF RegisterPeriodic, RegisterFinal, Finish, Idle, Process, OutcomeDecided
  <2>6. CASE SelectBest(v) \/ Summarise(v) \/ HandleFailure(v)
    BY <1>0, <2>6 DEF SelectBest, Summarise, HandleFailure, Idle, Process
  <2> QED
    BY <1>2, <2>1, <2>2, <2>a, <2>3, <2>4, <2>5, <2>6 DEF Run
<1>3. CASE Environment
  BY <1>0, <1>1, <1>3 DEF Environment, Raises, Crash, Restart, Expire, Damage, Idle, Process
<1>4. CASE Admin \/ UNCHANGED vars
  <2>1. UNCHANGED wk
    BY <1>4 DEF vars, Admin, CreateJob, PatchJob, ValidateJob, QueueJob, Pause, Cancel,
                VerifyCheckpoint, Recover
  <2> QED
    BY <1>1, <2>1
<1> QED
  BY <1>1, <1>2, <1>3, <1>4, OtherProcesses DEF Next

LEMMA TypeStep ==
    ASSUME TypeOK, OutcomeDecided, [Next]_vars
    PROVE  TypeOK'
<1>1. CASE UNCHANGED vars
  BY <1>1 DEF vars, TypeOK, Working
<1> QED
  BY <1>1, AdminType, RunType, EnvironmentType DEF Next

(* Every behaviour of the system keeps job, checkpoint and process records    *)
(* well formed: in particular no handler, in any interleaving, writes a       *)
(* status that is not in the CHECK of the table, and a process is at work     *)
(* exactly when it has a job.                                                 *)
THEOREM TypeCorrect == Spec => []TypeOK
<1>1. Init => TypeOK /\ OutcomeDecided
  BY InitType DEF Init, Idle, OutcomeDecided
<1>2. TypeOK /\ OutcomeDecided /\ [Next]_vars => (TypeOK /\ OutcomeDecided)'
  BY TypeStep, OutcomeStep
<1> QED
  BY <1>1, <1>2, PTL DEF Spec

(* The rest concerns one row of the table at a time: what a step can make of  *)
(* the status and the recovery flag of job k.                                 *)
LEMMA AdminFlag ==
    ASSUME TypeOK, Admin, NEW k \in Jobs
    PROVE  \/ job'[k] = job[k]
           \/ /\ job'[k].recovery_required = job[k].recovery_required
              /\ job'[k].status \notin {"running", "pause_requested"}
           \/ /\ job'[k].recovery_required = job[k].recovery_required
              /\ job[k].status = "running"
           \/ ~job'[k].recovery_required
<1>0. job \in [Jobs -> JobRow] /\ job[k] \in JobRow
  BY DEF TypeOK
<1>1. PICK j \in Jobs :
        \/ CreateJob(j)
        \/ \E t \in PatchedTotals : PatchJob(j, t)
        \/ ValidateJob(j)
        \/ QueueJob(j)
        \/ Pause(j)
        \/ Cancel(j)
        \/ \E i \in 1 .. Len(ckpts[j]) : VerifyCheckpoint(j, i)
        \/ \E type \in RecoveriesUsed : Recover(j, type)
  BY DEF Admin
<1>2. CASE j # k
  <2>1. job'[k] = job[k]
    BY <1>0, <1>1, <1>2 DEF CreateJob, PatchJob, ValidateJob, QueueJob, Pause, Cancel,
                VerifyCheckpoint, Recover, RecoverySucceeds, RecoveryFails
  <2> QED
    BY <2>1
<1>3. CASE j = k
  <2>1. CASE CreateJob(k)
    BY <1>0, <2>1 DEF CreateJob, JobRow
  <2>2. ASSUME NEW t \in PatchedTotals, PatchJob(k, t)
        PROVE  /\ job'[k].recovery_required = job[k].recovery_required
               /\ job'[k].status \notin {"running", "pause_requested"}
    BY <1>0, <2>2 DEF PatchJob, JobRow
  <2>3. CASE ValidateJob(k)
    BY <1>0, <2>3 DEF ValidateJob, JobRow
  <2>4. CASE QueueJob(k)
    BY <1>0, <2>4 DEF QueueJob, JobRow
  <2>5. CASE Pause(k)
    BY <1>0, <2>5 DEF Pause, JobRow
  <2>6. CASE Cancel(k)
    BY <1>0, <2>6 DEF Cancel, JobRow
  <2>7. ASSUME NEW i \in 1 .. Len(ckpts[k]), VerifyCheckpoint(k, i)
        PROVE  job'[k] = job[k]
    BY <2>7 DEF VerifyCheckpoint
  <2>8. ASSUME NEW type \in RecoveriesUsed, Recover(k, type)
        PROVE  \/ ~job'[k].recovery_required
               \/ /\ job'[k].recovery_required = job[k].recovery_required
                  /\ job'[k].status \notin {"running", "pause_requested"}
    <3>1. CASE RecoverySucceeds(k)
      BY <1>0, <3>1 DEF RecoverySucceeds, JobRow
    <3>2. CASE RecoveryFails(k)
      BY <1>0, <3>2 DEF RecoveryFails, JobRow
    <3> QED
      BY <2>8, <3>1, <3>2 DEF Recover
  <2> QED
    BY <1>1, <1>3, <2>1, <2>2, <2>3, <2>4, <2>5, <2>6, <2>7, <2>8
<1> QED
  BY <1>2, <1>3

(* What a worker's step can make of a row: it leaves the lease and the flag   *)
(* alone, or it is the sweep, or the claim.                                   *)
Written(k) ==
    /\ job'[k].lease_generation = job[k].lease_generation
    /\ job'[k].recovery_required = job[k].recovery_required
    /\ job'[k].status \in {job[k].status, "completed", "paused", "cancelled", "failed"}

SweptNow(k) ==
    /\ job'[k].lease_generation = job[k].lease_generation + 1
    /\ job'[k].status = "queued"

Claimed(w, k) ==
    /\ Claim(w, k)
    /\ job'[k].lease_generation = job[k].lease_generation + 1
    /\ ~job'[k].recovery_required

LEMMA SweepRow ==
    ASSUME TypeOK, NEW k \in Jobs
    PROVE  /\ k \notin StaleJobs => Swept[k] = job[k]
           /\ k \in StaleJobs => /\ Swept[k].lease_generation = job[k].lease_generation + 1
                                 /\ Swept[k].status = "queued"
<1>1. job[k] \in JobRow
  BY DEF TypeOK
<1>2. CASE k \in StaleJobs
  <2>1. Swept[k] = [job[k] EXCEPT !.status = "queued", !.recovery_required = TRUE,
                                  !.lease_generation = job[k].lease_generation + 1]
    BY <1>2 DEF Swept
  <2> QED
    BY <1>1, <1>2, <2>1, Zenon DEF JobRow
<1>3. CASE k \notin StaleJobs
  BY <1>3 DEF Swept
<1> QED
  BY <1>2, <1>3

LEMMA ClaimRow ==
    ASSUME TypeOK, NEW w \in Workers, NEW j \in Jobs, Claim(w, j), NEW k \in Jobs
    PROVE  job'[k] = job[k] \/ SweptNow(k) \/ (k = j /\ Claimed(w, k))
<1>1. Swept \in [Jobs -> JobRow] /\ job[k] \in JobRow
  BY SweptType DEF TypeOK
<1>2. CASE k # j
  <2>1. job'[k] = Swept[k]
    BY <1>1, <1>2 DEF Claim
  <2> QED
    BY <2>1, SweepRow DEF SweptNow
<1>3. CASE k = j
  <2>1. Swept[k] = job[k] /\ ~job[k].recovery_required
    BY <1>3, SweepRow DEF Claim, Claimable, StaleJobs
  <2> DEFINE g == job[k].lease_generation + 1
  <2>2. job'[k] = [job[k] EXCEPT !.status = "running", !.worker_id = w,
                                 !.lease_generation = g, !.lease_expired = FALSE]
    BY <1>1, <1>3, <2>1 DEF Claim
  <2>3. job'[k].lease_generation = g /\ job'[k].recovery_required = job[k].recovery_required
    <3> HIDE DEF g
    <3> QED
      BY <1>1, <2>2, Zenon DEF JobRow
  <2> QED
    BY <1>3, <2>1, <2>3 DEF Claimed
<1> QED
  BY <1>2, <1>3

LEMMA RunRow ==
    ASSUME TypeOK, OutcomeDecided, NEW w \in Workers, Run(w), NEW k \in Jobs
    PROVE  job'[k] = job[k] \/ Written(k) \/ SweptNow(k) \/ Claimed(w, k)
<1>0. job \in [Jobs -> JobRow] /\ job[k] \in JobRow
  BY DEF TypeOK
<1>1. ASSUME NEW j \in Jobs, Claim(w, j)
      PROVE  job'[k] = job[k] \/ SweptNow(k) \/ Claimed(w, k)
  BY <1>1, ClaimRow
<1>2. CASE SweepOnly(w)
  BY <1>2, SweepRow DEF SweepOnly, SweptNow
<1>3. CASE \/ Load(w) \/ StopRequested(w) \/ TrainStep(w) \/ LoopEnds(w)
           \/ MetricStale(w) \/ CheckFence(w) \/ CheckFenceStale(w) \/ RegisterFinal(w)
  BY <1>3 DEF Load, StopRequested, TrainStep, LoopEnds, MetricStale, CheckFence,
              CheckFenceStale, GiveUp, RegisterFinal
<1>4. CASE Metric(w)
  <2> DEFINE n == wk[w].step
             r == [job[k] EXCEPT !.completed_steps = n, !.lease_expired = FALSE]
  <2>1. job'[k] = job[k] \/ job'[k] = r
    BY <1>0, <1>4 DEF Metric
  <2>2. /\ r.lease_generation = job[k].lease_generation
        /\ r.recovery_required = job[k].recovery_required
        /\ r.status = job[k].status
    BY <1>0, Zenon DEF JobRow
  <2> HIDE DEF r
  <2> QED
    BY <2>1, <2>2 DEF Written
<1>5. CASE RegisterPeriodic(w)
  BY <1>0, <1>5 DEF RegisterPeriodic, Written, JobRow
<1>6. CASE Finish(w)
  <2> DEFINE o == wk[w].outcome
  <2>1. job' = [job EXCEPT ![wk[w].job] =
                  [job[wk[w].job] EXCEPT !.status = o, !.completed_steps = wk[w].step,
                                         !.worker_id = w]]
    BY <1>6 DEF Finish
  <2>2. o \in {"completed", "paused", "cancelled"}
    BY <1>6 DEF Finish, OutcomeDecided
  <2> HIDE DEF o
  <2> QED
    BY <1>0, <2>1, <2>2 DEF Written, JobRow
<1>7. CASE SelectBest(w)
  <2> DEFINE n == Len(ckpts[wk[w].job])
  <2>1. CASE job' = job
    BY <2>1
  <2>2. ASSUME NEW i \in 1 .. n, job' = [job EXCEPT ![wk[w].job].best = i]
        PROVE  job'[k] = job[k] \/ Written(k)
    <3>1. CASE k # wk[w].job
      BY <1>0, <2>2, <3>1
    <3>2. CASE k = wk[w].job
      <4>1. job'[k] = [job[k] EXCEPT !.best = i]
        BY <1>0, <2>2, <3>2
      <4>2. /\ job'[k].lease_generation = job[k].lease_generation
            /\ job'[k].recovery_required = job[k].recovery_required
            /\ job'[k].status = job[k].status
        BY <1>0, <4>1, Zenon DEF JobRow
      <4> QED
        BY <4>2 DEF Written
    <3> QED
      BY <3>1, <3>2
  <2> QED
    BY <1>7, <2>1, <2>2 DEF SelectBest
<1>8. CASE Summarise(w)
  BY <1>0, <1>8 DEF Summarise, Written, JobRow
<1>9. CASE HandleFailure(w)
  BY <1>0, <1>9 DEF HandleFailure, Written, JobRow
<1> QED
  BY <1>1, <1>2, <1>3, <1>4, <1>5, <1>6, <1>7, <1>8, <1>9 DEF Run

LEMMA EnvironmentRow ==
    ASSUME TypeOK, Environment, NEW k \in Jobs
    PROVE  job'[k] = job[k] \/ Written(k)
<1>0. job \in [Jobs -> JobRow] /\ job[k] \in JobRow
  BY DEF TypeOK
<1>1. ASSUME NEW j \in Jobs, Expire(j) PROVE job'[k] = job[k] \/ Written(k)
  BY <1>0, <1>1 DEF Expire, Written, JobRow
<1> QED
  BY <1>1 DEF Environment, Raises, Crash, Restart, Damage

LEMMA FlagStep ==
    ASSUME TypeOK, OutcomeDecided, FlaggedNeverRuns, [Next]_vars
    PROVE  FlaggedNeverRuns'
<1> SUFFICES ASSUME NEW k \in Jobs, job'[k].recovery_required
             PROVE  job'[k].status \notin {"running", "pause_requested"}
  BY DEF FlaggedNeverRuns
<1>1. CASE job'[k] = job[k]
  BY <1>1 DEF FlaggedNeverRuns
<1>2. CASE Admin
  BY <1>2, AdminFlag DEF FlaggedNeverRuns
<1>3. ASSUME NEW w \in Workers, Run(w)
      PROVE  job'[k].status \notin {"running", "pause_requested"}
  BY <1>1, <1>3, RunRow DEF FlaggedNeverRuns, Written, SweptNow, Claimed
<1>4. CASE Environment
  BY <1>1, <1>4, EnvironmentRow DEF FlaggedNeverRuns, Written
<1> QED
  BY <1>1, <1>2, <1>3, <1>4 DEF Next, vars

(* A job flagged for recovery runs again only through recover: no claim, and  *)
(* no late write of another worker, makes it running while the flag is up.    *)
THEOREM FlagSafe == Spec => []FlaggedNeverRuns
<1>1. Init => TypeOK /\ OutcomeDecided /\ FlaggedNeverRuns
  BY InitType DEF Init, Idle, OutcomeDecided, FlaggedNeverRuns
<1>2. TypeOK /\ OutcomeDecided /\ FlaggedNeverRuns /\ [Next]_vars
        => (TypeOK /\ OutcomeDecided /\ FlaggedNeverRuns)'
  BY TypeStep, OutcomeStep, FlagStep
<1> QED
  BY <1>1, <1>2, PTL DEF Spec


LEMMA AdminGeneration ==
    ASSUME TypeOK, Admin, NEW k \in Jobs
    PROVE  job'[k].lease_generation \in {job[k].lease_generation,
                                         job[k].lease_generation + 1}
<1>0. job \in [Jobs -> JobRow] /\ job[k] \in JobRow
  BY DEF TypeOK
<1>1. PICK j \in Jobs :
        \/ CreateJob(j)
        \/ \E t \in PatchedTotals : PatchJob(j, t)
        \/ ValidateJob(j)
        \/ QueueJob(j)
        \/ Pause(j)
        \/ Cancel(j)
        \/ \E i \in 1 .. Len(ckpts[j]) : VerifyCheckpoint(j, i)
        \/ \E type \in RecoveriesUsed : Recover(j, type)
  BY DEF Admin
<1>2. CASE CreateJob(j)
  BY <1>0, <1>2 DEF CreateJob, JobRow
<1>3. ASSUME NEW t \in PatchedTotals, PatchJob(j, t)
      PROVE  job'[k].lease_generation = job[k].lease_generation
  BY <1>0, <1>3 DEF PatchJob, JobRow
<1>4. CASE ValidateJob(j)
  BY <1>0, <1>4 DEF ValidateJob, JobRow
<1>5. CASE QueueJob(j)
  BY <1>0, <1>5 DEF QueueJob, JobRow
<1>6. CASE Pause(j)
  BY <1>0, <1>6 DEF Pause, JobRow
<1>7. CASE Cancel(j)
  BY <1>0, <1>7 DEF Cancel, JobRow
<1>8. ASSUME NEW i \in 1 .. Len(ckpts[j]), VerifyCheckpoint(j, i)
      PROVE  job'[k] = job[k]
  BY <1>8 DEF VerifyCheckpoint
<1>9. CASE RecoverySucceeds(j)
  BY <1>0, <1>9 DEF RecoverySucceeds, JobRow
<1>10. CASE RecoveryFails(j)
  BY <1>0, <1>10 DEF RecoveryFails, JobRow
<1> QED
  BY <1>1, <1>2, <1>3, <1>4, <1>5, <1>6, <1>7, <1>8, <1>9, <1>10 DEF Recover

(* The generation of a job grows by at most one in a step.                    *)
LEMMA GenerationStep ==
    ASSUME TypeOK, OutcomeDecided, [Next]_vars, NEW k \in Jobs
    PROVE  job'[k].lease_generation \in {job[k].lease_generation,
                                         job[k].lease_generation + 1}
<1>1. CASE Admin
  BY <1>1, AdminGeneration
<1>2. ASSUME NEW w \in Workers, Run(w)
      PROVE  job'[k].lease_generation \in {job[k].lease_generation,
                                           job[k].lease_generation + 1}
  BY <1>2, RunRow DEF Written, SweptNow, Claimed
<1>3. CASE Environment \/ UNCHANGED vars
  BY <1>3, EnvironmentRow DEF Written, vars
<1> QED
  BY <1>1, <1>2, <1>3 DEF Next

(* The fencing token of a job never goes back, whoever writes its row: this   *)
(* is what makes an old token worthless for ever.                             *)
THEOREM GenerationGrows == Spec => GenerationNeverDecreases
<1>1. Init => TypeOK /\ OutcomeDecided
  BY InitType DEF Init, Idle, OutcomeDecided
<1>2. TypeOK /\ OutcomeDecided /\ [Next]_vars => (TypeOK /\ OutcomeDecided)'
  BY TypeStep, OutcomeStep
<1>3. TypeOK /\ OutcomeDecided /\ [Next]_vars =>
        [\A j \in Jobs : job'[j].lease_generation >= job[j].lease_generation]_vars
  <2> SUFFICES ASSUME TypeOK, OutcomeDecided, [Next]_vars, NEW k \in Jobs
               PROVE  job'[k].lease_generation >= job[k].lease_generation
    OBVIOUS
  <2>1. job[k].lease_generation \in Nat
    BY JobFields DEF TypeOK
  <2> QED
    BY <2>1, GenerationStep
<1> QED
  BY <1>1, <1>2, <1>3, PTL DEF Spec, GenerationNeverDecreases

(* Uniqueness of tokens is not inductive by itself: two processes could hold  *)
(* different tokens, one of them in the future of the job.  No process does.  *)
TokenBound ==
    \A w \in Workers :
        Working(w) => wk[w].token <= job[wk[w].job].lease_generation

(* After its own step a process keeps its job and token, stops, or has just   *)
(* made a claim.                                                              *)
Keeps(v) == Working(v) /\ wk'[v].job = wk[v].job /\ wk'[v].token = wk[v].token

ClaimsNow(v) ==
    \E j \in Jobs : /\ Claim(v, j)
                    /\ wk'[v].job = j
                    /\ wk'[v].token = job[j].lease_generation + 1

LEMMA RunKeeps ==
    ASSUME TypeOK, NEW v \in Workers, Run(v), Working(v)'
    PROVE  Keeps(v) \/ ClaimsNow(v)
<1>0. wk \in [Workers -> Process] /\ wk[v] \in Process
  BY DEF TypeOK
<1>1. ASSUME NEW j \in Jobs, Claim(v, j) PROVE ClaimsNow(v)
  BY <1>0, <1>1 DEF Claim, Started, ClaimsNow
<1>2. CASE SweepOnly(v)
  BY <1>2 DEF SweepOnly, Working, Keeps
<1>3. CASE Load(v)
  <2>1. PICK c, x : wk' = [wk EXCEPT ![v] = [wk[v] EXCEPT !.pc = c, !.weights = x]]
    BY <1>3 DEF Load
  <2>2. wk'[v].job = wk[v].job /\ wk'[v].token = wk[v].token
    BY <1>0, <2>1, Zenon DEF Process
  <2> QED
    BY <1>3, <2>2 DEF Load, Working, Keeps
<1>4. CASE StopRequested(v) \/ LoopEnds(v)
  <2>1. PICK c, o : wk' = [wk EXCEPT ![v] = [wk[v] EXCEPT !.pc = c, !.outcome = o]]
    BY <1>4, Zenon DEF StopRequested, LoopEnds
  <2>2. wk'[v].job = wk[v].job /\ wk'[v].token = wk[v].token
    BY <1>0, <2>1, Zenon DEF Process
  <2> QED
    BY <1>4, <2>2 DEF StopRequested, LoopEnds, Working, Keeps
<1>5. CASE TrainStep(v)
  <2>1. PICK n, x, c : wk' = [wk EXCEPT ![v] =
                                [wk[v] EXCEPT !.step = n, !.weights = x, !.pc = c]]
    BY <1>5, Zenon DEF TrainStep
  <2>2. wk'[v].job = wk[v].job /\ wk'[v].token = wk[v].token
    BY <1>0, <2>1, Zenon DEF Process
  <2> QED
    BY <1>5, <2>2 DEF TrainStep, Working, Keeps
<1>6. CASE MetricStale(v) \/ CheckFenceStale(v) \/ Summarise(v) \/ HandleFailure(v)
  BY <1>0, <1>6 DEF MetricStale, CheckFenceStale, GiveUp, Summarise, HandleFailure,
                    Working, Idle
<1>7. CASE Metric(v) \/ CheckFence(v) \/ RegisterPeriodic(v) \/ RegisterFinal(v)
             \/ SelectBest(v)
  <2>1. \E c \in Pcs : wk' = [wk EXCEPT ![v].pc = c]
    <3>1. {"checkpoint", "loop", "failing", "registerFinal", "register", "finish",
           "summary"} \subseteq Pcs
      BY DEF Pcs
    <3> QED
      BY <1>7, <3>1 DEF Metric, CheckFence, RegisterPeriodic, RegisterFinal, SelectBest
  <2>2. wk'[v].job = wk[v].job /\ wk'[v].token = wk[v].token
    BY <1>0, <2>1 DEF Process
  <2>3. Working(v)
    BY <1>7 DEF Metric, CheckFence, RegisterPeriodic, RegisterFinal, SelectBest, Working
  <2> QED
    BY <2>2, <2>3 DEF Keeps
<1>8. CASE Finish(v)
  <2>1. \/ wk' = [wk EXCEPT ![v] = [wk[v] EXCEPT !.pc = "best"]]
        \/ wk' = [wk EXCEPT ![v] = Idle]
    BY <1>8 DEF Finish
  <2>2. wk'[v].job = wk[v].job /\ wk'[v].token = wk[v].token
    BY <1>0, <2>1 DEF Process, Working, Idle
  <2> QED
    BY <1>8, <2>2 DEF Finish, Working, Keeps
<1> QED
  BY <1>1, <1>2, <1>3, <1>4, <1>5, <1>6, <1>7, <1>8 DEF Run

LEMMA StepKeeps ==
    ASSUME TypeOK, [Next]_vars, NEW v \in Workers, Working(v)'
    PROVE  Keeps(v) \/ ClaimsNow(v)
<1>0. wk \in [Workers -> Process] /\ wk[v] \in Process
  BY DEF TypeOK
<1>1. CASE Run(v)
  BY <1>1, RunKeeps
<1>2. CASE wk'[v] = wk[v]
  BY <1>2 DEF Working, Keeps
<1>3. CASE Environment
  <2>1. ASSUME NEW w \in Workers, Raises(w) PROVE Keeps(v)
    <3>1. wk'[v].job = wk[v].job /\ wk'[v].token = wk[v].token
      BY <1>0, <2>1 DEF Raises, Process
    <3>2. CASE v # w
      BY <1>0, <1>2, <2>1, <3>2 DEF Raises, Working, Keeps
    <3>3. CASE v = w
      BY <2>1, <3>1, <3>3, RaisesAssumption DEF Raises, Working, Keeps
    <3> QED
      BY <3>2, <3>3
  <2>2. ASSUME NEW w \in Workers, Crash(w) \/ Restart(w) PROVE Keeps(v)
    <3>1. v # w
      BY <1>0, <2>2 DEF Crash, Restart, Idle, Working
    <3> QED
      BY <1>0, <2>2, <3>1 DEF Crash, Restart, Working, Keeps
  <2>3. ASSUME NEW j \in Jobs, Expire(j) PROVE UNCHANGED wk
    BY <2>3 DEF Expire
  <2>4. ASSUME NEW j \in Jobs, NEW i \in 1 .. Len(ckpts[j]), Damage(j, i) PROVE UNCHANGED wk
    BY <2>4 DEF Damage
  <2> QED
    BY <1>2, <1>3, <2>1, <2>2, <2>3, <2>4 DEF Environment
<1>4. CASE Admin \/ UNCHANGED vars
  <2>1. UNCHANGED wk
    BY <1>4 DEF vars, Admin, CreateJob, PatchJob, ValidateJob, QueueJob, Pause, Cancel,
                VerifyCheckpoint, Recover
  <2> QED
    BY <1>2, <2>1
<1> QED
  BY <1>1, <1>2, <1>3, <1>4, OtherProcesses DEF Next

LEMMA TokenBoundStep ==
    ASSUME TypeOK, OutcomeDecided, TokenBound, [Next]_vars
    PROVE  TokenBound'
<1> SUFFICES ASSUME NEW v \in Workers, Working(v)'
             PROVE  wk'[v].token <= job'[wk'[v].job].lease_generation
  BY DEF TokenBound
<1>1. CASE Keeps(v)
  <2>1. wk[v].job \in Jobs /\ wk[v].token \in Nat
    BY <1>1, WorkerType DEF Keeps
  <2>2. job[wk[v].job].lease_generation \in Nat
    BY <2>1, JobFields DEF TypeOK
  <2>3. job'[wk[v].job].lease_generation >= job[wk[v].job].lease_generation
    BY <2>1, <2>2, GenerationStep
  <2>4. job'[wk[v].job].lease_generation \in Nat
    BY <2>1, <2>2, GenerationStep
  <2> QED
    BY <1>1, <2>1, <2>2, <2>3, <2>4 DEF Keeps, TokenBound
<1>2. CASE ClaimsNow(v)
  <2>1. PICK j \in Jobs : Claim(v, j) /\ wk'[v].job = j
                          /\ wk'[v].token = job[j].lease_generation + 1
    BY <1>2 DEF ClaimsNow
  <2>2. job[j].lease_generation + 1 \in Nat /\ job[j] \in JobRow
    BY JobFields DEF TypeOK
  <2>3. job'[j].lease_generation = job[j].lease_generation + 1
    <3> DEFINE g == job[j].lease_generation + 1
    <3>1. Swept[j] = job[j] /\ Swept \in [Jobs -> JobRow]
      BY <2>1, SweepRow, SweptType DEF Claim, Claimable, StaleJobs, TypeOK
    <3>2. job'[j] = [job[j] EXCEPT !.status = "running", !.worker_id = v,
                                   !.lease_generation = g, !.lease_expired = FALSE]
      BY <2>1, <3>1 DEF Claim
    <3> HIDE DEF g
    <3>3. job'[j].lease_generation = g
      BY <2>2, <3>2, Zenon DEF JobRow
    <3> QED
      BY <3>3 DEF g
  <2> QED
    BY <2>1, <2>2, <2>3
<1> QED
  BY <1>1, <1>2, StepKeeps

LEMMA TokenStep ==
    ASSUME TypeOK, TokenBound, TokensAreUnique, [Next]_vars
    PROVE  TokensAreUnique'
<1>1. ASSUME NEW v \in Workers, NEW w \in Workers, v # w, Working(v)', Working(w)',
             wk'[v].job = wk'[w].job, ClaimsNow(v)
      PROVE  wk'[v].token # wk'[w].token
  <2>1. PICK j \in Jobs : Claim(v, j) /\ wk'[v].job = j
                          /\ wk'[v].token = job[j].lease_generation + 1
    BY <1>1 DEF ClaimsNow
  <2>2. wk'[w] = wk[w]
    BY <1>1, <2>1, OtherProcesses DEF Run
  <2>3. Working(w) /\ wk[w].job = j
    BY <1>1, <2>1, <2>2 DEF Working
  <2>4. wk[w].token \in Nat /\ job[j].lease_generation \in Nat
    BY <2>3, WorkerType, JobFields DEF TypeOK
  <2>5. wk[w].token <= job[j].lease_generation
    BY <2>3 DEF TokenBound
  <2> QED
    BY <2>1, <2>2, <2>4, <2>5
<1> SUFFICES ASSUME NEW v \in Workers, NEW w \in Workers, v # w, Working(v)', Working(w)',
                    wk'[v].job = wk'[w].job
             PROVE  wk'[v].token # wk'[w].token
  BY DEF TokensAreUnique
<1>2. CASE Keeps(v) /\ Keeps(w)
  BY <1>2 DEF Keeps, TokensAreUnique
<1>3. CASE ClaimsNow(v) \/ ClaimsNow(w)
  BY <1>1, <1>3
<1> QED
  BY <1>2, <1>3, StepKeeps

(* No two live processes ever hold the same token for a job, whatever the     *)
(* order of claims, sweeps, recoveries and crashes: of two processes that     *)
(* both believe they run a job, the fence lets at most one pass.              *)
THEOREM TokensUnique == Spec => []TokensAreUnique
<1> DEFINE Inv == TypeOK /\ OutcomeDecided /\ TokenBound /\ TokensAreUnique
<1>1. Init => Inv
  BY InitType DEF Init, Idle, OutcomeDecided, TokenBound, TokensAreUnique, Working
<1>2. Inv /\ [Next]_vars => Inv'
  BY TypeStep, OutcomeStep, TokenBoundStep, TokenStep
<1> QED
  BY <1>1, <1>2, PTL DEF Spec

-----------------------------------------------------------------------------
(* What does not hold in every behaviour, but does when a lease outlives its  *)
(* worker and admins validate only drafts; outcomes are final if, moreover,   *)
(* nothing raises after completion.                                           *)

Fenced ==
    /\ ~SlowWorkers
    /\ ValidateFrom \subseteq {"draft"}

QuietEnd == RaisesIn \cap {"best", "summary"} = {}

Disciplined == Fenced /\ QuietEnd

Busy == {"running", "pause_requested", "cancel_requested"}

SavedIn(cs) == IF cs # << >> THEN cs[Len(cs)].step ELSE 0

(* A registry: honest rows, none past the goal n, none ahead of the latest.   *)
RowsOK(cs, n) ==
    \A i \in 1 .. Len(cs) :
        /\ cs[i].step = cs[i].weights
        /\ cs[i].step <= n
        /\ ~cs[i].good => ~cs[i].intact
        /\ cs[i].step <= SavedIn(cs)

(* A job's row r agrees with its registry cs. *)
JobOK(r, cs) ==
    /\ r.status \in {"absent", "draft", "validating"}
          => r.completed_steps = 0 /\ cs = << >>
    /\ r.status \in {"queued", "paused"} /\ ~r.recovery_required
          => r.completed_steps = SavedIn(cs)
    /\ r.status \in {"completed", "cancelled"} => ~r.recovery_required
    /\ r.status = "completed"
          => r.completed_steps = r.total /\ cs # << >> /\ SavedIn(cs) = r.total
    /\ RowsOK(cs, r.total)

(* A process p of worker w at work on that job: it holds the lease, and is    *)
(* ahead of the registry and behind the goal.                                 *)
Leased(w, p, r) ==
    /\ r.worker_id = w
    /\ r.lease_generation = p.token
    /\ ~r.lease_expired
    /\ ~r.recovery_required

InLoop == {"loop", "metric", "checkpoint", "register", "final", "registerFinal", "finish"}

Ahead(p, r, cs) ==
    /\ p.pc = "load" => p.step = SavedIn(cs) /\ p.start = p.step
    /\ p.pc \in InLoop => p.step = p.weights /\ SavedIn(cs) <= p.step /\ p.step <= r.total
    /\ p.pc \in {"final", "registerFinal", "finish"} /\ p.outcome = "completed"
          => p.step = r.total
    /\ p.pc = "finish" => cs # << >> /\ SavedIn(cs) = p.step

(* What its job is called meanwhile. *)
StatusesAt(pc) ==
    CASE pc \in {"best", "summary"}     -> {"completed"}
      [] pc = "failing" /\ ~QuietEnd -> Busy \cup {"completed"}
      [] OTHER                        -> Busy

WorkOK(w, p, r, cs) ==
    /\ Leased(w, p, r)
    /\ r.status \in StatusesAt(p.pc)
    /\ Ahead(p, r, cs)

Consistent ==
    /\ \A j \in Jobs : JobOK(job[j], ckpts[j])
    /\ \A w \in Workers :
          Working(w) => WorkOK(w, wk[w], job[wk[w].job], ckpts[wk[w].job])

LEMMA SavedType ==
    ASSUME NEW cs \in Seq(CheckpointRow)
    PROVE  SavedIn(cs) \in Nat
<1>1. CASE cs = << >>
  BY <1>1 DEF SavedIn
<1>2. CASE cs # << >>
  <2>1. Len(cs) \in 1 .. Len(cs)
    BY <1>2
  <2> QED
    BY <1>2, <2>1, RowOfSeq DEF SavedIn
<1> QED
  BY <1>1, <1>2

(* A registered row becomes the latest, and keeps the registry right when it  *)
(* is honest and not behind.                                                  *)
LEMMA RowsAppend ==
    ASSUME NEW cs \in Seq(CheckpointRow), NEW r \in CheckpointRow, NEW n \in Nat,
           RowsOK(cs, n), r.step = r.weights, r.good, SavedIn(cs) <= r.step, r.step <= n
    PROVE  /\ RowsOK(Append(cs, r), n)
           /\ Append(cs, r) # << >>
           /\ SavedIn(Append(cs, r)) = r.step
<1> DEFINE d == Append(cs, r)
<1>1. d \in Seq(CheckpointRow) /\ Len(d) = Len(cs) + 1
  BY RowAppend
<1>2. d[Len(d)] = r /\ \A i \in 1 .. Len(cs) : d[i] = cs[i]
  OBVIOUS
<1>a. Len(d) \in Nat /\ Len(d) > 0
  BY <1>1
<1>b. d # << >>
  BY <1>1, <1>a
<1>3. d # << >> /\ SavedIn(d) = r.step
  <2> HIDE DEF d
  <2> QED
    BY <1>b, <1>2 DEF SavedIn
<1>4. r.step \in Nat /\ SavedIn(cs) \in Nat
  BY SavedType, Zenon DEF CheckpointRow
<1>5. ASSUME NEW i \in 1 .. Len(d)
      PROVE  /\ d[i].step = d[i].weights
             /\ d[i].step <= n
             /\ ~d[i].good => ~d[i].intact
             /\ d[i].step <= SavedIn(d)
  <2>1. CASE i = Len(d)
    <3>1. d[i] = r
      BY <2>1, <1>2
    <3> QED
      BY <3>1, <1>3, <1>4
  <2>2. CASE i # Len(d)
    <3>1. i \in 1 .. Len(cs)
      BY <1>1, <2>2
    <3>2. d[i] = cs[i] /\ cs[i].step \in Nat
      BY <3>1, <1>2, RowOfSeq
    <3>3. /\ cs[i].step = cs[i].weights
          /\ cs[i].step <= n
          /\ ~cs[i].good => ~cs[i].intact
          /\ cs[i].step <= SavedIn(cs)
      BY <3>1 DEF RowsOK
    <3> HIDE DEF d
    <3> QED
      BY <3>2, <3>3, <1>3, <1>4
  <2> QED
    BY <2>1, <2>2
<1> HIDE DEF d
<1>6. RowsOK(d, n)
  BY <1>5 DEF RowsOK
<1> QED
  BY <1>3, <1>6 DEF d

(* A row that is rewritten leaves the others where they were. *)
LEMMA RowReplaced ==
    ASSUME NEW s \in Seq(CheckpointRow), NEW i \in 1 .. Len(s), NEW r \in CheckpointRow
    PROVE  /\ [s EXCEPT ![i] = r] \in Seq(CheckpointRow)
           /\ Len([s EXCEPT ![i] = r]) = Len(s)
           /\ [s EXCEPT ![i] = r][i] = r
           /\ \A k \in 1 .. Len(s) : k # i => [s EXCEPT ![i] = r][k] = s[k]
<1>1. [s EXCEPT ![i] = r] \in Seq(CheckpointRow)
  BY RowUpdate
<1>2. Len([s EXCEPT ![i] = r]) = Len(s)
  OBVIOUS
<1>3. [s EXCEPT ![i] = r][i] = r
  OBVIOUS
<1>4. \A k \in 1 .. Len(s) : k # i => [s EXCEPT ![i] = r][k] = s[k]
  OBVIOUS
<1> QED
  BY <1>1, <1>2, <1>3, <1>4

(* Marking rows as corrupt, damaged or verified leaves the rest as it was.    *)
LEMMA RowsMarked ==
    ASSUME NEW cs \in Seq(CheckpointRow), NEW d \in Seq(CheckpointRow), NEW n \in Nat,
           RowsOK(cs, n), Len(d) = Len(cs),
           \A i \in 1 .. Len(cs) : /\ d[i].step = cs[i].step
                                   /\ d[i].weights = cs[i].weights
                                   /\ ~d[i].good => ~d[i].intact
    PROVE  /\ RowsOK(d, n)
           /\ SavedIn(d) = SavedIn(cs)
           /\ d = << >> <=> cs = << >>
<1>1. d = << >> <=> cs = << >>
  OBVIOUS
<1>2. SavedIn(d) = SavedIn(cs)
  <2>1. CASE cs = << >>
    BY <1>1, <2>1 DEF SavedIn
  <2>2. CASE cs # << >>
    <3>1. Len(cs) \in 1 .. Len(cs)
      BY <2>2
    <3> QED
      BY <1>1, <2>2, <3>1 DEF SavedIn
  <2> QED
    BY <2>1, <2>2
<1>3. RowsOK(d, n)
  BY <1>2 DEF RowsOK
<1> QED
  BY <1>1, <1>2, <1>3

(* Two processes at work on one job are one: its row names one worker.        *)
LEMMA OneAtWork ==
    ASSUME Consistent, NEW v \in Workers, NEW w \in Workers,
           Working(v), Working(w), wk[v].job = wk[w].job
    PROVE  v = w
BY DEF Consistent, WorkOK, StatusesAt, Leased

(* A call that rewrites one job keeps the invariant if it keeps that job's    *)
(* part of it, for the job and for whoever works on it.                       *)
LEMMA JobRewritten ==
    ASSUME TypeOK, Consistent, UNCHANGED wk,
           NEW j \in Jobs, NEW r, NEW cs,
           job' = [job EXCEPT ![j] = r], ckpts' = [ckpts EXCEPT ![j] = cs],
           JobOK(r, cs),
           \A w \in Workers : Working(w) /\ wk[w].job = j => WorkOK(w, wk[w], r, cs)
    PROVE  Consistent'
<1> USE DEF TypeOK
<1>1. job'[j] = r /\ ckpts'[j] = cs
  OBVIOUS
<1>2. ASSUME NEW k \in Jobs, k # j PROVE job'[k] = job[k] /\ ckpts'[k] = ckpts[k]
  BY <1>2
<1>3. ASSUME NEW k \in Jobs PROVE JobOK(job'[k], ckpts'[k])
  BY <1>1, <1>2, <1>3 DEF Consistent
<1>4. ASSUME NEW w \in Workers, Working(w)'
      PROVE  WorkOK(w, wk'[w], job'[wk'[w].job], ckpts'[wk'[w].job])
  <2>1. Working(w) /\ wk'[w] = wk[w] /\ wk[w].job \in Jobs
    BY <1>4, WorkerType DEF Working
  <2>2. CASE wk[w].job = j
    BY <2>1, <2>2, <1>1
  <2>3. CASE wk[w].job # j
    BY <2>1, <2>3, <1>2 DEF Consistent
  <2> QED
    BY <2>2, <2>3
<1> QED
  BY <1>3, <1>4 DEF Consistent

(* A step of a process keeps it if it does so for that process and its job:   *)
(* nobody else works on that job.                                             *)
LEMMA WorkerSteps ==
    ASSUME TypeOK, Consistent, NEW w \in Workers, Working(w),
           NEW r, NEW cs, NEW p,
           job' = [job EXCEPT ![wk[w].job] = r],
           ckpts' = [ckpts EXCEPT ![wk[w].job] = cs],
           wk' = [wk EXCEPT ![w] = p],
           JobOK(r, cs),
           p.pc \in {"idle", "dead"} \/ (p.job = wk[w].job /\ WorkOK(w, p, r, cs))
    PROVE  Consistent'
<1> DEFINE j == wk[w].job
<1>0. j \in Jobs /\ wk'[w] = p
  BY WorkerType DEF TypeOK
<1>1. job'[j] = r /\ ckpts'[j] = cs
  BY <1>0 DEF TypeOK
<1>2. ASSUME NEW k \in Jobs, k # j PROVE job'[k] = job[k] /\ ckpts'[k] = ckpts[k]
  BY <1>0, <1>2 DEF TypeOK
<1>3. ASSUME NEW k \in Jobs PROVE JobOK(job'[k], ckpts'[k])
  BY <1>1, <1>2, <1>3 DEF Consistent
<1>4. ASSUME NEW v \in Workers, Working(v)'
      PROVE  WorkOK(v, wk'[v], job'[wk'[v].job], ckpts'[wk'[v].job])
  <2>1. CASE v = w
    BY <1>0, <1>1, <1>4, <2>1 DEF Working
  <2>2. CASE v # w
    <3>1. wk'[v] = wk[v] /\ Working(v)
      BY <1>4, <2>2 DEF TypeOK, Working
    <3>2. wk[v].job \in Jobs /\ wk[v].job # j
      BY <2>2, <3>1, WorkerType, OneAtWork
    <3> QED
      BY <1>2, <3>1, <3>2 DEF Consistent
  <2> QED
    BY <2>1, <2>2
<1> QED
  BY <1>3, <1>4 DEF Consistent

(* What is at work on a job in one of these statuses: nothing. *)
LEMMA Unclaimed ==
    ASSUME Consistent, NEW j \in Jobs,
           \/ job[j].status \notin Busy \cup {"completed"}
           \/ job[j].recovery_required
           \/ job[j].lease_expired
    PROVE  \A w \in Workers : ~(Working(w) /\ wk[w].job = j)
BY DEF Consistent, WorkOK, StatusesAt, Leased

(* Rewriting no checkpoint is rewriting them with themselves. *)
LEMMA SameRows ==
    ASSUME TypeOK, NEW j \in Jobs
    PROVE  /\ UNCHANGED job => job' = [job EXCEPT ![j] = job[j]]
           /\ UNCHANGED ckpts => ckpts' = [ckpts EXCEPT ![j] = ckpts[j]]
           /\ job[j] \in JobRow
           /\ ckpts[j] \in Seq(CheckpointRow)
           /\ job[j].total \in Nat
           /\ SavedIn(ckpts[j]) \in Nat
BY JobFields, SavedType DEF TypeOK

LEMMA AdminConsistent ==
    ASSUME TypeOK, Consistent, Fenced, Admin
    PROVE  Consistent'
<1> PICK j \in Jobs :
        \/ CreateJob(j)
        \/ \E t \in PatchedTotals : PatchJob(j, t)
        \/ ValidateJob(j)
        \/ QueueJob(j)
        \/ Pause(j)
        \/ Cancel(j)
        \/ \E i \in 1 .. Len(ckpts[j]) : VerifyCheckpoint(j, i)
        \/ \E type \in RecoveriesUsed : Recover(j, type)
  BY DEF Admin
<1> DEFINE cs == ckpts[j]
<1>0. JobOK(job[j], cs) /\ SavedIn(cs) \in Nat
  BY SameRows DEF Consistent
<1>1. CASE CreateJob(j) \/ ValidateJob(j) \/ QueueJob(j)
  <2>1. PICK s \in {"draft", "validating", "queued"} :
            /\ job' = [job EXCEPT ![j] = [job[j] EXCEPT !.status = s]]
            /\ s = "queued" => job[j].status \in {"draft", "validating", "paused"}
            /\ s # "queued" => job[j].status \in {"absent", "draft"}
    BY <1>1 DEF CreateJob, ValidateJob, QueueJob, QueueAllowed, Fenced
  <2> DEFINE r == [job[j] EXCEPT !.status = s]
  <2>2. /\ r.status = s /\ r.completed_steps = job[j].completed_steps
        /\ r.recovery_required = job[j].recovery_required /\ r.total = job[j].total
    BY SameRows, Zenon DEF JobRow
  <2> HIDE DEF r
  <2>3. JobOK(r, cs)
    <3>1. r.status \in {"draft", "validating"} => r.completed_steps = 0 /\ cs = << >>
      BY <1>0, <2>1, <2>2 DEF JobOK
    <3>2. r.status = "queued" /\ ~r.recovery_required => r.completed_steps = SavedIn(cs)
      BY <1>0, <2>1, <2>2 DEF JobOK, SavedIn
    <3> QED
      BY <1>0, <2>1, <2>2, <3>1, <3>2 DEF JobOK
  <2>4. job[j].status \notin Busy \cup {"completed"}
    BY <2>1 DEF Busy
  <2>5. job' = [job EXCEPT ![j] = r] /\ UNCHANGED <<ckpts, wk>>
    BY <1>1, <2>1 DEF r, CreateJob, ValidateJob, QueueJob
  <2>6. \A w \in Workers : ~(Working(w) /\ wk[w].job = j)
    BY <2>4, Unclaimed
  <2> QED
    BY <2>3, <2>5, <2>6, SameRows, JobRewritten
<1>2. CASE \E t \in PatchedTotals : PatchJob(j, t)
  <2>1. PICK t \in PatchedTotals : PatchJob(j, t)
    BY <1>2
  <2> DEFINE r == [job[j] EXCEPT !.total = t]
  <2>2. /\ r.status = "draft" /\ r.completed_steps = job[j].completed_steps /\ r.total = t
    BY <2>1, SameRows, Zenon DEF JobRow, PatchJob
  <2> HIDE DEF r
  <2>3. JobOK(r, cs)
    BY <1>0, <2>1, <2>2 DEF JobOK, RowsOK, PatchJob
  <2>4. job[j].status \notin Busy \cup {"completed"}
    BY <2>1 DEF Busy, PatchJob
  <2>5. job' = [job EXCEPT ![j] = r] /\ UNCHANGED <<ckpts, wk>>
    BY <2>1 DEF r, PatchJob
  <2>6. \A w \in Workers : ~(Working(w) /\ wk[w].job = j)
    BY <2>4, Unclaimed
  <2> QED
    BY <2>3, <2>5, <2>6, SameRows, JobRewritten
<1>3. CASE Pause(j) \/ Cancel(j)
  <2>1. PICK s \in Busy, f \in {"pause_requested", "cancel_requested"}, r \in JobRow :
            /\ job' = [job EXCEPT ![j] = r]
            /\ r = [job[j] EXCEPT !.status = s, ![f] = TRUE]
            /\ s # "running"
    <3>1. CASE Pause(j)
      <4> DEFINE q == [job[j] EXCEPT !.status = "pause_requested", !.pause_requested = TRUE]
      <4>1. q \in JobRow
        BY SameRows, Zenon DEF JobRow, Statuses
      <4> QED
        BY <3>1, <4>1 DEF Pause, Busy
    <3>2. CASE Cancel(j)
      <4> DEFINE q == [job[j] EXCEPT !.status = "cancel_requested", !.cancel_requested = TRUE]
      <4>1. q \in JobRow
        BY SameRows, Zenon DEF JobRow, Statuses
      <4> QED
        BY <3>2, <4>1 DEF Cancel, Busy
    <3> QED
      BY <1>3, <3>1, <3>2
  <2>2. /\ r.status = s /\ r.completed_steps = job[j].completed_steps
        /\ r.recovery_required = job[j].recovery_required /\ r.total = job[j].total
        /\ r.worker_id = job[j].worker_id /\ r.lease_generation = job[j].lease_generation
        /\ r.lease_expired = job[j].lease_expired
    BY <2>1, SameRows, Zenon DEF JobRow
  <2>3. JobOK(r, cs)
    BY <1>0, <2>1, <2>2 DEF JobOK, Busy
  <2>4. job[j].status \notin {"completed", "failed"}
    BY <1>3 DEF Pause, Cancel, CancelAllowed
  <2>5. ASSUME NEW w \in Workers, Working(w), wk[w].job = j
        PROVE  WorkOK(w, wk[w], r, cs)
    <3>1. WorkOK(w, wk[w], job[j], cs)
      BY <2>5 DEF Consistent
    <3>2. Leased(w, wk[w], r) /\ Ahead(wk[w], r, cs)
      BY <2>2, <3>1 DEF WorkOK, StatusesAt, Leased, Ahead
    <3>3. wk[w].pc \notin {"best", "summary"}
      BY <2>4, <3>1 DEF WorkOK, StatusesAt
    <3> QED
      BY <2>2, <3>2, <3>3 DEF WorkOK, StatusesAt
  <2> QED
    BY <1>3, <2>1, <2>3, <2>5, SameRows, JobRewritten DEF Pause, Cancel
<1>4. CASE \E i \in 1 .. Len(ckpts[j]) : VerifyCheckpoint(j, i)
  <2>1. PICK i \in 1 .. Len(ckpts[j]) : VerifyCheckpoint(j, i)
    BY <1>4
  <2> DEFINE c == [cs[i] EXCEPT !.good = cs[i].intact]
             d == [cs EXCEPT ![i] = c]
  <2>a. cs \in Seq(CheckpointRow) /\ i \in 1 .. Len(cs) /\ cs[i] \in CheckpointRow
    BY SameRows, RowOfSeq
  <2>2. c \in CheckpointRow /\ c.step = cs[i].step /\ c.weights = cs[i].weights
        /\ c.good = cs[i].intact /\ c.intact = cs[i].intact
    <3> HIDE DEF cs
    <3> QED
      BY <2>a, Zenon DEF CheckpointRow
  <2>3. ckpts' = [ckpts EXCEPT ![j] = d] /\ UNCHANGED <<job, wk>>
    BY <2>1 DEF VerifyCheckpoint
  <2> HIDE DEF c
  <2>4. d \in Seq(CheckpointRow) /\ Len(d) = Len(cs) /\ d[i] = c
        /\ \A k \in 1 .. Len(cs) : k # i => d[k] = cs[k]
    <3> HIDE DEF cs
    <3> QED
      BY <2>a, <2>2, RowReplaced
  <2>5. /\ RowsOK(d, job[j].total) /\ SavedIn(d) = SavedIn(cs)
        /\ d = << >> <=> cs = << >>
    <3> HIDE DEF d
    <3>1. \A k \in 1 .. Len(cs) : ~cs[k].good => ~cs[k].intact
      BY <1>0 DEF JobOK, RowsOK
    <3> QED
      BY <1>0, <2>2, <2>4, <3>1, SameRows, RowsMarked DEF JobOK
  <2> HIDE DEF d
  <2>6. JobOK(job[j], d)
    BY <1>0, <2>5 DEF JobOK
  <2>7. ASSUME NEW w \in Workers, Working(w), wk[w].job = j
        PROVE  WorkOK(w, wk[w], job[j], d)
    BY <2>5, <2>7 DEF Consistent, WorkOK, StatusesAt, Ahead
  <2> QED
    BY <2>3, <2>6, <2>7, SameRows, JobRewritten
<1>5. CASE \E type \in RecoveriesUsed : Recover(j, type)
  <2>1. PICK type \in RecoveriesUsed : Recover(j, type)
    BY <1>5
  <2>2. job[j].recovery_required \/ job[j].status \in {"failed", "paused", "queued"}
    BY <2>1, AdminAssumption DEF Recover, RecoveryAllowed, RecoveryTypes
  <2>3. \A w \in Workers : ~(Working(w) /\ wk[w].job = j)
    BY <2>2, Unclaimed DEF Busy
  <2>4. CASE RecoverySucceeds(j)
    <3> DEFINE g == job[j].lease_generation + 1
               n == SavedIn(cs)
               r == [job[j] EXCEPT !.status = "queued",
                                   !.recovery_required = FALSE,
                                   !.pause_requested = FALSE,
                                   !.cancel_requested = FALSE,
                                   !.completed_steps = n,
                                   !.lease_generation = g,
                                   !.worker_id = NoWorker,
                                   !.lease_expired = FALSE]
    <3>1. job' = [job EXCEPT ![j] = r] /\ UNCHANGED <<ckpts, wk>>
      BY <2>1, <2>4 DEF Recover, RecoverySucceeds, HasCheckpoint, Latest, SavedIn
    <3> HIDE DEF g, n
    <3>2. r.status = "queued" /\ r.completed_steps = n /\ r.total = job[j].total
      BY SameRows, Zenon DEF JobRow
    <3> HIDE DEF r
    <3>3. JobOK(r, cs)
      BY <1>0, <3>2 DEF JobOK, n
    <3> QED
      BY <2>3, <3>1, <3>3, SameRows, JobRewritten
  <2>5. CASE RecoveryFails(j)
    <3> DEFINE k == Len(cs)
               g == job[j].lease_generation + 1
               r == [job[j] EXCEPT !.status = "failed", !.lease_generation = g]
               c == [cs[k] EXCEPT !.good = FALSE]
               d == [cs EXCEPT ![k] = c]
    <3>1. k \in 1 .. Len(cs)
      BY <2>5, SameRows DEF RecoveryFails, LatestIsRecoverable, HasCheckpoint
    <3>2. job' = [job EXCEPT ![j] = r] /\ ckpts' = [ckpts EXCEPT ![j] = d] /\ UNCHANGED wk
      BY <2>1, <2>5 DEF Recover, RecoveryFails
    <3>3. ~cs[k].good => ~cs[k].intact
      BY <1>0, <3>1 DEF JobOK, RowsOK
    <3>4. ~cs[k].intact
      <4>1. StepMonotonic(j)
        BY <1>0, <3>1 DEF JobOK, RowsOK, StepMonotonic, Latest, SavedIn
      <4> QED
        BY <2>5, <3>3, <4>1 DEF RecoveryFails, LatestIsRecoverable, Latest
    <3>a. cs[k] \in CheckpointRow
      BY <3>1, SameRows, RowOfSeq
    <3>5. c \in CheckpointRow /\ c.step = cs[k].step /\ c.weights = cs[k].weights
          /\ c.intact = cs[k].intact
      <4> HIDE DEF k
      <4> QED
        BY <3>a, Zenon DEF CheckpointRow
    <3> HIDE DEF c
    <3>6. d \in Seq(CheckpointRow) /\ Len(d) = Len(cs) /\ d[k] = c
          /\ \A i \in 1 .. Len(cs) : i # k => d[i] = cs[i]
      BY <3>1, <3>5, SameRows, RowReplaced
    <3>7. RowsOK(d, job[j].total)
      <4> HIDE DEF d
      <4>1. \A i \in 1 .. Len(cs) : ~cs[i].good => ~cs[i].intact
        BY <1>0 DEF JobOK, RowsOK
      <4> QED
        BY <1>0, <3>4, <3>5, <3>6, <4>1, SameRows, RowsMarked DEF JobOK
    <3> HIDE DEF d, g
    <3>8. r.status = "failed" /\ r.total = job[j].total
      BY SameRows, Zenon DEF JobRow
    <3> HIDE DEF r
    <3>9. JobOK(r, d)
      BY <3>7, <3>8 DEF JobOK
    <3> QED
      BY <2>3, <3>2, <3>9, JobRewritten
  <2> QED
    BY <2>1, <2>4, <2>5 DEF Recover
<1> QED
  BY <1>1, <1>2, <1>3, <1>4, <1>5

(* What is known of a process at work before its step. *)
LEMMA AtWork ==
    ASSUME TypeOK, Consistent, NEW w \in Workers, Working(w)
    PROVE  /\ wk[w].job \in Jobs
           /\ wk[w] \in Process
           /\ WorkOK(w, wk[w], job[wk[w].job], ckpts[wk[w].job])
           /\ JobOK(job[wk[w].job], ckpts[wk[w].job])
           /\ HoldsLease(w)
BY WorkerType DEF Consistent, WorkOK, StatusesAt, Leased, HoldsLease

(* A step that only rewrites the process, inside the run. *)
LEMMA ProcessAdvances ==
    ASSUME TypeOK, Consistent, NEW w \in Workers, Working(w), UNCHANGED <<job, ckpts>>,
           NEW p, wk' = [wk EXCEPT ![w] = p],
           p.job = wk[w].job, p.token = wk[w].token,
           StatusesAt(wk[w].pc) \subseteq StatusesAt(p.pc),
           Ahead(p, job[wk[w].job], ckpts[wk[w].job])
    PROVE  Consistent'
<1> DEFINE j == wk[w].job
<1>1. WorkOK(w, p, job[j], ckpts[j]) /\ JobOK(job[j], ckpts[j]) /\ j \in Jobs
  BY AtWork DEF WorkOK, Leased
<1>2. job' = [job EXCEPT ![j] = job[j]] /\ ckpts' = [ckpts EXCEPT ![j] = ckpts[j]]
  BY <1>1, SameRows
<1> QED
  BY <1>1, <1>2, WorkerSteps

(* Before the end of its work, the status it leaves is the one it found.      *)
LEMMA ProcessMoves ==
    ASSUME TypeOK, Consistent, NEW w \in Workers, Working(w), UNCHANGED <<job, ckpts>>,
           NEW p, wk' = [wk EXCEPT ![w] = p],
           p.job = wk[w].job, p.token = wk[w].token,
           wk[w].pc \notin {"best", "summary", "failing"}, p.pc \notin {"best", "summary"},
           Ahead(p, job[wk[w].job], ckpts[wk[w].job])
    PROVE  Consistent'
<1>1. StatusesAt(wk[w].pc) \subseteq StatusesAt(p.pc)
  BY DEF StatusesAt
<1> QED
  BY <1>1, ProcessAdvances

(* Any step that ends the process without touching the tables. *)
LEMMA ProcessEnds ==
    ASSUME TypeOK, Consistent, NEW w \in Workers, UNCHANGED <<job, ckpts>>,
           NEW p, wk' = [wk EXCEPT ![w] = p], p.pc \in {"idle", "dead"}
    PROVE  Consistent'
<1>1. ASSUME NEW v \in Workers, Working(v)' PROVE wk'[v] = wk[v] /\ Working(v)
  <2>1. v # w
    BY <1>1 DEF TypeOK, Working
  <2> QED
    BY <1>1, <2>1 DEF TypeOK, Working
<1> QED
  BY <1>1 DEF Consistent

LEMMA LoadConsistent ==
    ASSUME TypeOK, Consistent, NEW w \in Workers, Load(w)
    PROVE  Consistent'
<1> DEFINE j == wk[w].job
           cs == ckpts[j]
           c == IF wk[w].start > 0 /\ HasCheckpoint(j) /\ ~Latest(j).intact
                THEN "failing" ELSE "loop"
           x == IF wk[w].start > 0 /\ HasCheckpoint(j) THEN Latest(j).weights ELSE 0
           p == [wk[w] EXCEPT !.pc = c, !.weights = x]
<1>1. Working(w) /\ wk[w].pc = "load" /\ UNCHANGED <<job, ckpts>>
  BY DEF Load, Working
<1>2. wk' = [wk EXCEPT ![w] = p]
  BY DEF Load
<1>3. /\ p.pc = c /\ p.weights = x /\ p.job = j /\ p.token = wk[w].token
      /\ p.step = wk[w].step
  <2> HIDE DEF c, x
  <2> QED
    BY <1>1, AtWork, Zenon DEF Process
<1>4. /\ wk[w].step = SavedIn(cs) /\ wk[w].start = wk[w].step
      /\ JobOK(job[j], cs) /\ j \in Jobs
  BY <1>1, AtWork DEF WorkOK, StatusesAt, Ahead
<1>5. cs \in Seq(CheckpointRow) /\ SavedIn(cs) \in Nat /\ job[j].total \in Nat
  BY <1>4, SameRows
<1>6. x = SavedIn(cs) /\ SavedIn(cs) <= job[j].total
  <2>1. CASE cs = << >>
    BY <1>5, <2>1 DEF SavedIn, HasCheckpoint
  <2>2. CASE cs # << >>
    <3>1. Len(cs) \in 1 .. Len(cs)
      BY <1>5, <2>2
    <3>2. cs[Len(cs)].step = cs[Len(cs)].weights /\ cs[Len(cs)].step <= job[j].total
      BY <1>4, <3>1 DEF JobOK, RowsOK
    <3> QED
      BY <1>4, <1>5, <2>2, <3>2 DEF SavedIn, HasCheckpoint, Latest
  <2> QED
    BY <2>1, <2>2
<1>7. Ahead(p, job[j], cs)
  <2> HIDE DEF p, x
  <2> QED
    BY <1>3, <1>4, <1>5, <1>6 DEF Ahead, InLoop
<1> HIDE DEF p
<1> QED
  BY <1>1, <1>2, <1>3, <1>7, ProcessMoves

LEMMA LoopConsistent ==
    ASSUME TypeOK, Consistent, NEW w \in Workers,
           StopRequested(w) \/ TrainStep(w) \/ LoopEnds(w)
    PROVE  Consistent'
<1> DEFINE j == wk[w].job
           cs == ckpts[j]
<1>1. Working(w) /\ wk[w].pc = "loop" /\ UNCHANGED <<job, ckpts>>
  BY DEF StopRequested, TrainStep, LoopEnds, Working
<1>2. /\ wk[w].step = wk[w].weights /\ SavedIn(cs) <= wk[w].step
      /\ wk[w].step <= job[j].total /\ wk[w] \in Process /\ j \in Jobs
  BY <1>1, AtWork DEF WorkOK, StatusesAt, Ahead, InLoop
<1>3. SavedIn(cs) \in Nat /\ job[j].total \in Nat /\ wk[w].step \in Nat
  BY <1>1, <1>2, SameRows, WorkerType
<1>4. CASE StopRequested(w)
  <2> DEFINE o == IF job[j].cancel_requested THEN "cancelled" ELSE "paused"
             p == [wk[w] EXCEPT !.pc = "final", !.outcome = o]
  <2>1. wk' = [wk EXCEPT ![w] = p] /\ o # "completed"
    BY <1>4 DEF StopRequested
  <2> HIDE DEF o
  <2>2. /\ p.pc = "final" /\ p.outcome = o /\ p.step = wk[w].step
        /\ p.weights = wk[w].weights /\ p.job = j /\ p.token = wk[w].token
    BY <1>2, Zenon DEF Process
  <2> HIDE DEF p
  <2>3. Ahead(p, job[j], cs)
    BY <1>2, <1>3, <2>1, <2>2 DEF Ahead, InLoop
  <2> QED
    BY <1>1, <2>1, <2>2, <2>3, ProcessMoves
<1>5. CASE TrainStep(w)
  <2> DEFINE n == wk[w].step + 1
             x == wk[w].weights + 1
             c == AfterStep(n)
             p == [wk[w] EXCEPT !.step = n, !.weights = x, !.pc = c]
  <2>1. wk' = [wk EXCEPT ![w] = p] /\ n <= job[j].total /\ n = x /\ SavedIn(cs) <= n
    BY <1>2, <1>3, <1>5 DEF TrainStep
  <2>2. c \in {"loop", "metric", "checkpoint"}
    BY DEF AfterStep
  <2> HIDE DEF n, x, c
  <2>3. p.pc = c /\ p.step = n /\ p.weights = x /\ p.job = j /\ p.token = wk[w].token
    BY <1>2, Zenon DEF Process
  <2> HIDE DEF p
  <2>4. Ahead(p, job[j], cs)
    BY <2>1, <2>2, <2>3 DEF Ahead, InLoop
  <2> QED
    BY <1>1, <2>1, <2>2, <2>3, <2>4, ProcessMoves
<1>6. CASE LoopEnds(w)
  <2> DEFINE c == IF wk[w].step = wk[w].start THEN "failing" ELSE "final"
             o == IF wk[w].step = wk[w].start THEN "none" ELSE "completed"
             p == [wk[w] EXCEPT !.pc = c, !.outcome = o]
  <2>1. wk' = [wk EXCEPT ![w] = p] /\ wk[w].step = job[j].total /\ c \in {"failing", "final"}
    BY <1>2, <1>3, <1>6 DEF LoopEnds
  <2> HIDE DEF o, c
  <2>2. /\ p.pc = c /\ p.step = wk[w].step
        /\ p.weights = wk[w].weights /\ p.job = j /\ p.token = wk[w].token
    BY <1>2, Zenon DEF Process
  <2> HIDE DEF p
  <2>3. Ahead(p, job[j], cs)
    BY <1>2, <1>3, <2>1, <2>2 DEF Ahead, InLoop
  <2> QED
    BY <1>1, <2>1, <2>2, <2>3, ProcessMoves
<1> QED
  BY <1>4, <1>5, <1>6

LEMMA FenceConsistent ==
    ASSUME TypeOK, Consistent, NEW w \in Workers,
           CheckFence(w) \/ MetricStale(w) \/ CheckFenceStale(w)
    PROVE  Consistent'
<1> DEFINE j == wk[w].job
           cs == ckpts[j]
<1>1. Working(w) /\ UNCHANGED <<job, ckpts>>
  BY DEF CheckFence, MetricStale, CheckFenceStale, GiveUp, Working
<1>2. CheckFence(w)
  BY <1>1, AtWork DEF MetricStale, CheckFenceStale, GiveUp
<1> DEFINE c == IF wk[w].pc = "final" THEN "registerFinal" ELSE "register"
           p == [wk[w] EXCEPT !.pc = c]
<1>3. wk' = [wk EXCEPT ![w] = p] /\ wk[w].pc \in {"checkpoint", "final"}
  BY <1>2 DEF CheckFence
<1>4. Ahead(wk[w], job[j], cs) /\ wk[w] \in Process
  BY <1>1, AtWork DEF WorkOK, StatusesAt
<1>5. /\ p.pc = c /\ p.step = wk[w].step /\ p.weights = wk[w].weights
      /\ p.job = j /\ p.token = wk[w].token /\ p.outcome = wk[w].outcome
  <2> HIDE DEF c
  <2> QED
    BY <1>4, Zenon DEF Process
<1> HIDE DEF p
<1>6. Ahead(p, job[j], cs)
  BY <1>3, <1>4, <1>5 DEF Ahead, InLoop
<1> QED
  BY <1>1, <1>3, <1>5, <1>6, ProcessMoves

(* A step that rewrites the job's row too, away from its lease and outcome.   *)
LEMMA CountersMove ==
    ASSUME TypeOK, Consistent, NEW w \in Workers, Working(w),
           NEW r, NEW p, NEW cs,
           job' = [job EXCEPT ![wk[w].job] = r],
           ckpts' = [ckpts EXCEPT ![wk[w].job] = cs],
           wk' = [wk EXCEPT ![w] = p],
           wk[w].pc \notin {"best", "summary", "failing"},
           p.pc \notin {"best", "summary"},
           p.job = wk[w].job, p.token = wk[w].token,
           r.status = job[wk[w].job].status, r.worker_id = w,
           r.lease_generation = wk[w].token, ~r.lease_expired, ~r.recovery_required,
           RowsOK(cs, r.total), Ahead(p, r, cs)
    PROVE  Consistent'
<1> DEFINE j == wk[w].job
<1>1. r.status \in Busy
  BY AtWork DEF WorkOK, StatusesAt
<1>2. JobOK(r, cs)
  BY <1>1 DEF JobOK, Busy
<1>3. WorkOK(w, p, r, cs)
  BY <1>1 DEF WorkOK, StatusesAt, Leased
<1> QED
  BY <1>2, <1>3, WorkerSteps

LEMMA MetricConsistent ==
    ASSUME TypeOK, Consistent, NEW w \in Workers, Metric(w)
    PROVE  Consistent'
<1> DEFINE j == wk[w].job
           n == wk[w].step
           cs == ckpts[j]
           r == [job[j] EXCEPT !.completed_steps = n, !.lease_expired = FALSE]
           c == IF n % CheckpointEvery = 0 THEN "checkpoint" ELSE "loop"
           p == [wk[w] EXCEPT !.pc = c]
           f == [wk[w] EXCEPT !.pc = "failing"]
<1>1. Working(w) /\ wk[w].pc = "metric"
  BY DEF Metric, Working
<1>2. /\ WorkOK(w, wk[w], job[j], cs) /\ wk[w] \in Process /\ j \in Jobs
      /\ job[j] \in JobRow /\ JobOK(job[j], cs)
  BY <1>1, AtWork, SameRows
<1>3. CASE n <= TotalSteps
  <2>1. job' = [job EXCEPT ![j] = r] /\ wk' = [wk EXCEPT ![w] = p]
        /\ ckpts' = [ckpts EXCEPT ![j] = cs] /\ c \notin {"best", "summary"}
    BY <1>2, <1>3, SameRows DEF Metric
  <2> HIDE DEF c, n
  <2>2. /\ p.pc = c /\ p.step = wk[w].step /\ p.weights = wk[w].weights
        /\ p.job = j /\ p.token = wk[w].token /\ p.outcome = wk[w].outcome
    BY <1>2, Zenon DEF Process
  <2>3. /\ r.status = job[j].status /\ r.worker_id = job[j].worker_id
        /\ r.lease_generation = job[j].lease_generation /\ ~r.lease_expired
        /\ r.recovery_required = job[j].recovery_required /\ r.total = job[j].total
    BY <1>2, Zenon DEF JobRow
  <2> HIDE DEF p, r
  <2>4. Ahead(p, r, cs)
    BY <1>1, <1>2, <2>2, <2>3 DEF WorkOK, StatusesAt, Ahead, InLoop, c
  <2>5. /\ r.worker_id = w /\ r.lease_generation = wk[w].token /\ ~r.recovery_required
        /\ RowsOK(cs, r.total)
    BY <1>2, <2>3 DEF WorkOK, StatusesAt, Leased, JobOK
  <2> QED
    BY <1>1, <2>1, <2>2, <2>3, <2>4, <2>5, CountersMove
<1>4. CASE ~(n <= TotalSteps)
  <2>1. UNCHANGED <<job, ckpts>> /\ wk' = [wk EXCEPT ![w] = f]
    BY <1>4 DEF Metric
  <2>2. f.pc = "failing" /\ f.job = j /\ f.token = wk[w].token
    BY <1>2, Zenon DEF Process
  <2> HIDE DEF f
  <2>3. Ahead(f, job[j], cs)
    BY <2>2 DEF Ahead, InLoop
  <2> QED
    BY <1>1, <2>1, <2>2, <2>3, ProcessMoves
<1> QED
  BY <1>3, <1>4

LEMMA RegisterConsistent ==
    ASSUME TypeOK, Consistent, NEW w \in Workers,
           RegisterPeriodic(w) \/ RegisterFinal(w)
    PROVE  Consistent'
<1> DEFINE j == wk[w].job
           n == wk[w].step
           cs == ckpts[j]
           row == RowOf(w)
           d == Append(cs, row)
           c == IF RegisterPeriodic(w) THEN "loop" ELSE "finish"
           p == [wk[w] EXCEPT !.pc = c]
<1>1. Working(w) /\ wk[w].pc \in {"register", "registerFinal"}
      /\ (wk[w].pc = "registerFinal" <=> RegisterFinal(w))
      /\ (wk[w].pc = "register" <=> RegisterPeriodic(w))
  BY DEF RegisterPeriodic, RegisterFinal, Working
<1>2. /\ WorkOK(w, wk[w], job[j], cs) /\ wk[w] \in Process /\ j \in Jobs
      /\ job[j] \in JobRow /\ JobOK(job[j], cs)
      /\ n = wk[w].weights /\ SavedIn(cs) <= n /\ n <= job[j].total
  BY <1>1, AtWork, SameRows DEF WorkOK, StatusesAt, Ahead, InLoop
<1>3. row \in CheckpointRow /\ row.step = n /\ row.weights = wk[w].weights /\ row.good
  BY <1>1, RowOfType DEF RowOf
<1> HIDE DEF row
<1>4. RowsOK(d, job[j].total) /\ d # << >> /\ SavedIn(d) = n
  BY <1>2, <1>3, SameRows, RowsAppend DEF JobOK
<1>5. wk' = [wk EXCEPT ![w] = p] /\ ckpts' = [ckpts EXCEPT ![j] = d]
  BY <1>1 DEF RegisterPeriodic, RegisterFinal, row
<1> HIDE DEF d
<1>6. /\ p.pc = c /\ p.step = n /\ p.weights = wk[w].weights
      /\ p.job = j /\ p.token = wk[w].token /\ p.outcome = wk[w].outcome
  <2> HIDE DEF c
  <2> QED
    BY <1>2, Zenon DEF Process
<1> HIDE DEF p
<1>7. PICK r \in JobRow :
          /\ job' = [job EXCEPT ![j] = r]
          /\ r.status = job[j].status /\ r.worker_id = job[j].worker_id
          /\ r.lease_generation = job[j].lease_generation
          /\ r.lease_expired = job[j].lease_expired
          /\ r.recovery_required = job[j].recovery_required /\ r.total = job[j].total
  <2>1. CASE RegisterPeriodic(w)
    <3> DEFINE q == [job[j] EXCEPT !.completed_steps = n]
    <3>1. job' = [job EXCEPT ![j] = q] /\ n \in Nat
      BY <1>1, <2>1, WorkerType DEF RegisterPeriodic
    <3> HIDE DEF n
    <3>2. /\ q \in JobRow
          /\ q.status = job[j].status /\ q.worker_id = job[j].worker_id
          /\ q.lease_generation = job[j].lease_generation
          /\ q.lease_expired = job[j].lease_expired
          /\ q.recovery_required = job[j].recovery_required /\ q.total = job[j].total
      BY <1>2, <3>1, Zenon DEF JobRow
    <3> HIDE DEF q
    <3> QED
      BY <3>1, <3>2
  <2>2. CASE RegisterFinal(w)
    BY <1>2, <2>2, SameRows DEF RegisterFinal
  <2> QED
    BY <2>1, <2>2
<1>8. Ahead(p, r, d)
  <2>1. n \in Nat
    BY <1>1, WorkerType
  <2> HIDE DEF n
  <2> QED
    BY <1>1, <1>2, <1>4, <1>6, <1>7, <2>1 DEF WorkOK, StatusesAt, Ahead, InLoop, n
<1>9. /\ r.worker_id = w /\ r.lease_generation = wk[w].token /\ ~r.recovery_required
      /\ ~r.lease_expired /\ RowsOK(d, r.total)
  BY <1>2, <1>4, <1>7 DEF WorkOK, StatusesAt, Leased
<1> HIDE DEF n
<1> QED
  BY <1>1, <1>5, <1>6, <1>7, <1>8, <1>9, CountersMove

LEMMA FinishConsistent ==
    ASSUME TypeOK, OutcomeDecided, Consistent, NEW w \in Workers, Finish(w)
    PROVE  Consistent'
<1> DEFINE j == wk[w].job
           n == wk[w].step
           o == wk[w].outcome
           cs == ckpts[j]
           r == [job[j] EXCEPT !.status = o, !.completed_steps = n, !.worker_id = w]
           p == IF o = "completed" THEN [wk[w] EXCEPT !.pc = "best"] ELSE Idle
<1>1. Working(w) /\ wk[w].pc = "finish" /\ o \in {"completed", "paused", "cancelled"}
  BY DEF Finish, Working, OutcomeDecided
<1>2. /\ WorkOK(w, wk[w], job[j], cs) /\ wk[w] \in Process /\ j \in Jobs
      /\ job[j] \in JobRow /\ JobOK(job[j], cs)
      /\ cs # << >> /\ SavedIn(cs) = n /\ (o = "completed" => n = job[j].total)
  BY <1>1, AtWork, SameRows DEF WorkOK, StatusesAt, Ahead, InLoop
<1>3. job' = [job EXCEPT ![j] = r] /\ wk' = [wk EXCEPT ![w] = p]
      /\ ckpts' = [ckpts EXCEPT ![j] = cs]
  BY <1>2, SameRows DEF Finish
<1>4. /\ r.status = o /\ r.completed_steps = n /\ r.worker_id = w
      /\ r.lease_generation = job[j].lease_generation
      /\ r.lease_expired = job[j].lease_expired
      /\ r.recovery_required = job[j].recovery_required /\ r.total = job[j].total
  <2> HIDE DEF n, o
  <2> QED
    BY <1>2, Zenon DEF JobRow
<1> HIDE DEF r
<1>5. JobOK(r, cs)
  BY <1>1, <1>2, <1>4 DEF JobOK, WorkOK, StatusesAt, Leased
<1>6. p.pc \in {"idle", "dead"} \/ (p.job = j /\ WorkOK(w, p, r, cs))
  <2>1. CASE o = "completed"
    <3>1. p.pc = "best" /\ p.job = j /\ p.token = wk[w].token
      BY <1>2, <2>1, Zenon DEF Process
    <3> HIDE DEF p
    <3>2. Ahead(p, r, cs)
      BY <3>1 DEF Ahead, InLoop
    <3> QED
      BY <1>2, <1>4, <2>1, <3>1, <3>2 DEF WorkOK, StatusesAt, Leased
  <2>2. CASE o # "completed"
    BY <2>2 DEF Idle
  <2> QED
    BY <2>1, <2>2
<1> HIDE DEF p
<1> QED
  BY <1>1, <1>3, <1>5, <1>6, WorkerSteps

LEMMA CompletionConsistent ==
    ASSUME TypeOK, Consistent, NEW w \in Workers, SelectBest(w) \/ Summarise(w)
    PROVE  Consistent'
<1> DEFINE j == wk[w].job
           cs == ckpts[j]
           p == IF SelectBest(w) THEN [wk[w] EXCEPT !.pc = "summary"] ELSE Idle
<1>1. /\ Working(w) /\ wk[w].pc \in {"best", "summary"}
      /\ (wk[w].pc = "best" <=> SelectBest(w))
      /\ (wk[w].pc = "summary" <=> Summarise(w))
  BY DEF SelectBest, Summarise, Working
<1>2. /\ WorkOK(w, wk[w], job[j], cs) /\ wk[w] \in Process /\ j \in Jobs
      /\ job[j] \in JobRow /\ JobOK(job[j], cs)
  BY <1>1, AtWork, SameRows
<1>3. wk' = [wk EXCEPT ![w] = p] /\ ckpts' = [ckpts EXCEPT ![j] = cs]
  BY <1>1, <1>2, SameRows DEF SelectBest, Summarise
<1>4. PICK r :
          /\ job' = [job EXCEPT ![j] = r]
          /\ r.status = job[j].status /\ r.worker_id = job[j].worker_id
          /\ r.lease_generation = job[j].lease_generation
          /\ r.lease_expired = job[j].lease_expired
          /\ r.recovery_required = job[j].recovery_required /\ r.total = job[j].total
          /\ r.completed_steps = job[j].completed_steps
  <2>1. CASE UNCHANGED job
    BY <1>2, <2>1, SameRows
  <2>2. ASSUME NEW i, job' = [job EXCEPT ![j].best = i]
        PROVE  \E r :
          /\ job' = [job EXCEPT ![j] = r]
          /\ r.status = job[j].status /\ r.worker_id = job[j].worker_id
          /\ r.lease_generation = job[j].lease_generation
          /\ r.lease_expired = job[j].lease_expired
          /\ r.recovery_required = job[j].recovery_required /\ r.total = job[j].total
          /\ r.completed_steps = job[j].completed_steps
    <3> DEFINE q == [job[j] EXCEPT !.best = i]
    <3>1. /\ q.status = job[j].status /\ q.worker_id = job[j].worker_id
          /\ q.lease_generation = job[j].lease_generation
          /\ q.lease_expired = job[j].lease_expired
          /\ q.recovery_required = job[j].recovery_required /\ q.total = job[j].total
          /\ q.completed_steps = job[j].completed_steps
      BY <1>2, Zenon DEF JobRow
    <3>2. job' = [job EXCEPT ![j] = q]
      BY <2>2
    <3> HIDE DEF q
    <3> QED
      BY <3>1, <3>2
  <2>3. CASE Summarise(w)
    <3> DEFINE q == [job[j] EXCEPT !.summarised = TRUE]
    <3>1. /\ q.status = job[j].status /\ q.worker_id = job[j].worker_id
          /\ q.lease_generation = job[j].lease_generation
          /\ q.lease_expired = job[j].lease_expired
          /\ q.recovery_required = job[j].recovery_required /\ q.total = job[j].total
          /\ q.completed_steps = job[j].completed_steps
      BY <1>2, Zenon DEF JobRow
    <3>2. job' = [job EXCEPT ![j] = q]
      BY <2>3 DEF Summarise
    <3> HIDE DEF q
    <3> QED
      BY <3>1, <3>2
  <2>4. SelectBest(w) => UNCHANGED job \/ \E i : job' = [job EXCEPT ![j].best = i]
    BY DEF SelectBest
  <2> QED
    BY <2>1, <2>2, <2>3, <2>4
<1>5. JobOK(r, cs)
  BY <1>2, <1>4 DEF JobOK
<1>6. p.pc \in {"idle", "dead"} \/ (p.job = j /\ WorkOK(w, p, r, cs))
  <2>1. CASE SelectBest(w)
    <3>1. p.pc = "summary" /\ p.job = j /\ p.token = wk[w].token
      BY <1>2, <2>1, Zenon DEF Process
    <3> HIDE DEF p
    <3>2. Ahead(p, r, cs)
      BY <3>1 DEF Ahead, InLoop
    <3>3. r.status = "completed"
      BY <1>1, <1>2, <1>4, <2>1 DEF WorkOK, StatusesAt
    <3>4. Leased(w, p, r)
      BY <1>2, <1>4, <3>1 DEF WorkOK, StatusesAt, Leased
    <3> QED
      BY <3>1, <3>2, <3>3, <3>4 DEF WorkOK, StatusesAt
  <2>2. CASE ~SelectBest(w)
    BY <2>2 DEF Idle
  <2> QED
    BY <2>1, <2>2
<1> HIDE DEF p
<1> QED
  BY <1>1, <1>3, <1>4, <1>5, <1>6, WorkerSteps

LEMMA FailureConsistent ==
    ASSUME TypeOK, Consistent, NEW w \in Workers, HandleFailure(w)
    PROVE  Consistent'
<1> DEFINE j == wk[w].job
           cs == ckpts[j]
           r == [job[j] EXCEPT !.status = "failed"]
<1>1. Working(w)
  BY DEF HandleFailure, Working
<1>2. j \in Jobs /\ job[j] \in JobRow /\ JobOK(job[j], cs) /\ HoldsLease(w)
  BY <1>1, AtWork, SameRows
<1>3. job' = [job EXCEPT ![j] = r] /\ wk' = [wk EXCEPT ![w] = Idle]
      /\ ckpts' = [ckpts EXCEPT ![j] = cs]
  BY <1>2, SameRows DEF HandleFailure
<1>4. r.status = "failed" /\ r.total = job[j].total
  BY <1>2, Zenon DEF JobRow
<1> HIDE DEF r
<1>5. JobOK(r, cs)
  BY <1>2, <1>4 DEF JobOK
<1>6. Idle.pc = "idle"
  BY DEF Idle
<1> QED
  BY <1>1, <1>3, <1>5, <1>6, WorkerSteps

(* The sweep takes no row from a process at work: its lease has not expired.  *)
LEMMA SweepConsistent ==
    ASSUME TypeOK, Consistent, NEW k \in Jobs
    PROVE  /\ JobOK(Swept[k], ckpts[k])
           /\ \A v \in Workers : Working(v) /\ wk[v].job = k => Swept[k] = job[k]
<1>1. job[k] \in JobRow /\ JobOK(job[k], ckpts[k])
  BY SameRows DEF Consistent
<1>2. CASE k \in StaleJobs
  <2> DEFINE g == job[k].lease_generation + 1
             r == [job[k] EXCEPT !.status = "queued", !.recovery_required = TRUE,
                                 !.lease_generation = g]
  <2>1. Swept[k] = r
    BY <1>2 DEF Swept
  <2> HIDE DEF g
  <2>2. r.status = "queued" /\ r.recovery_required /\ r.total = job[k].total
    BY <1>1, Zenon DEF JobRow
  <2> HIDE DEF r
  <2>3. JobOK(r, ckpts[k])
    BY <1>1, <2>2 DEF JobOK
  <2>4. job[k].lease_expired
    BY <1>2 DEF StaleJobs
  <2> QED
    BY <2>1, <2>3, <2>4, Unclaimed
<1>3. CASE k \notin StaleJobs
  BY <1>1, <1>3, SweepRow
<1> QED
  BY <1>2, <1>3

LEMMA ClaimConsistent ==
    ASSUME TypeOK, Consistent, NEW w \in Workers, NEW j \in Jobs, Claim(w, j)
    PROVE  Consistent'
<1> DEFINE g == job[j].lease_generation + 1
           cs == ckpts[j]
           r == [job[j] EXCEPT !.status = "running", !.worker_id = w,
                               !.lease_generation = g, !.lease_expired = FALSE]
           p == Started(j, g)
<1>1. /\ job[j].status = "queued" /\ ~job[j].recovery_required
      /\ job[j] \in JobRow /\ JobOK(job[j], cs) /\ UNCHANGED ckpts
  BY SameRows DEF Claim, Claimable, Consistent
<1>2. job' = [Swept EXCEPT ![j] = r] /\ wk' = [wk EXCEPT ![w] = p]
      /\ Swept \in [Jobs -> JobRow]
  <2>1. Swept[j] = job[j]
    BY <1>1, SweepRow DEF StaleJobs
  <2> QED
    BY <2>1, SweptType DEF Claim, TypeOK
<1>3. /\ p.pc = "load" /\ p.job = j /\ p.token = g
      /\ p.step = job[j].completed_steps /\ p.start = job[j].completed_steps
  BY DEF Started
<1>4. /\ r.status = "running" /\ r.worker_id = w /\ r.lease_generation = g
      /\ ~r.lease_expired /\ ~r.recovery_required /\ r.total = job[j].total
  <2> HIDE DEF g
  <2> QED
    BY <1>1, Zenon DEF JobRow
<1> HIDE DEF r, p
<1>5. JobOK(r, cs)
  BY <1>1, <1>4 DEF JobOK
<1>6. WorkOK(w, p, r, cs)
  <2>1. job[j].completed_steps = SavedIn(cs)
    BY <1>1 DEF JobOK
  <2>2. Ahead(p, r, cs)
    BY <1>3, <2>1 DEF Ahead, InLoop
  <2> QED
    BY <1>3, <1>4, <2>2 DEF WorkOK, StatusesAt, Leased, Busy
<1>7. job'[j] = r /\ \A k \in Jobs : k # j => job'[k] = Swept[k]
  BY <1>2
<1>8. ASSUME NEW k \in Jobs PROVE JobOK(job'[k], ckpts'[k])
  BY <1>1, <1>5, <1>7, SweepConsistent
<1>9. ASSUME NEW v \in Workers, Working(v)'
      PROVE  WorkOK(v, wk'[v], job'[wk'[v].job], ckpts'[wk'[v].job])
  <2>1. CASE v = w
    <3>1. wk'[v] = p
      BY <1>2, <2>1 DEF TypeOK
    <3> QED
      BY <1>1, <1>3, <1>6, <1>7, <2>1, <3>1
  <2>2. CASE v # w
    <3>1. wk'[v] = wk[v] /\ Working(v)
      BY <1>2, <1>9, <2>2 DEF TypeOK, Working
    <3>2. wk[v].job \in Jobs /\ wk[v].job # j
      BY <1>1, <3>1, AtWork, Unclaimed DEF Busy
    <3>3. job'[wk[v].job] = job[wk[v].job]
      BY <1>7, <3>1, <3>2, SweepConsistent
    <3> QED
      BY <1>1, <3>1, <3>3 DEF Consistent
  <2> QED
    BY <2>1, <2>2
<1> QED
  BY <1>8, <1>9 DEF Consistent

LEMMA SweepOnlyConsistent ==
    ASSUME TypeOK, Consistent, NEW w \in Workers, SweepOnly(w)
    PROVE  Consistent'
<1>1. job' = Swept /\ UNCHANGED <<ckpts, wk>>
  BY DEF SweepOnly
<1>2. ASSUME NEW k \in Jobs PROVE JobOK(job'[k], ckpts'[k])
  BY <1>1, SweepConsistent
<1>3. ASSUME NEW v \in Workers, Working(v)'
      PROVE  WorkOK(v, wk'[v], job'[wk'[v].job], ckpts'[wk'[v].job])
  <2>1. Working(v) /\ wk[v].job \in Jobs
    BY <1>1, <1>3, AtWork DEF Working
  <2>2. job'[wk[v].job] = job[wk[v].job]
    BY <1>1, <2>1, SweepConsistent
  <2> QED
    BY <1>1, <2>1, <2>2 DEF Consistent
<1> QED
  BY <1>2, <1>3 DEF Consistent

LEMMA RunConsistent ==
    ASSUME TypeOK, OutcomeDecided, Consistent, NEW w \in Workers, Run(w)
    PROVE  Consistent'
BY ClaimConsistent, SweepOnlyConsistent, LoadConsistent, LoopConsistent, MetricConsistent,
   FenceConsistent, RegisterConsistent, FinishConsistent, CompletionConsistent,
   FailureConsistent DEF Run

LEMMA EnvironmentConsistent ==
    ASSUME TypeOK, Consistent, Fenced, Environment
    PROVE  Consistent'
<1>1. ASSUME NEW w \in Workers, Raises(w) PROVE Consistent'
  <2> DEFINE p == [wk[w] EXCEPT !.pc = "failing"]
  <2>1. Working(w) /\ wk[w].pc \in RaisesIn /\ wk[w].pc # "failing" /\ UNCHANGED <<job, ckpts>>
        /\ wk' = [wk EXCEPT ![w] = p]
    BY <1>1, RaisesAssumption DEF Raises, Working
  <2>2. p.pc = "failing" /\ p.job = wk[w].job /\ p.token = wk[w].token
    BY <2>1, AtWork, Zenon DEF Process
  <2> HIDE DEF p
  <2>3. Ahead(p, job[wk[w].job], ckpts[wk[w].job])
    BY <2>2 DEF Ahead, InLoop
  <2>4. StatusesAt(wk[w].pc) \subseteq StatusesAt("failing")
    BY <2>1 DEF StatusesAt, QuietEnd
  <2> QED
    BY <2>1, <2>2, <2>3, <2>4, ProcessAdvances
<1>2. ASSUME NEW w \in Workers, Crash(w) \/ Restart(w) PROVE Consistent'
  <2> DEFINE p == IF Crash(w) THEN [Idle EXCEPT !.pc = "dead"] ELSE Idle
  <2>1. wk' = [wk EXCEPT ![w] = p] /\ UNCHANGED <<job, ckpts>>
    BY <1>2 DEF Crash, Restart
  <2>2. p.pc \in {"idle", "dead"}
    BY DEF Idle
  <2> HIDE DEF p
  <2> QED
    BY <2>1, <2>2, ProcessEnds
<1>3. ASSUME NEW j \in Jobs, Expire(j) PROVE Consistent'
  <2> DEFINE cs == ckpts[j]
             r == [job[j] EXCEPT !.lease_expired = TRUE]
  <2>1. job' = [job EXCEPT ![j] = r] /\ UNCHANGED <<ckpts, wk>>
    BY <1>3 DEF Expire
  <2>2. \A w \in Workers : ~(Working(w) /\ wk[w].job = j)
    BY <1>3, AtWork DEF Expire, Fenced
  <2>3. /\ r.status = job[j].status /\ r.total = job[j].total
        /\ r.recovery_required = job[j].recovery_required
        /\ r.completed_steps = job[j].completed_steps
    BY SameRows, Zenon DEF JobRow
  <2> HIDE DEF r
  <2>4. JobOK(r, cs)
    BY <2>3 DEF Consistent, JobOK
  <2>5. ckpts' = [ckpts EXCEPT ![j] = cs]
    BY <2>1, SameRows
  <2> QED
    BY <2>1, <2>2, <2>4, <2>5, JobRewritten
<1>4. ASSUME NEW j \in Jobs, NEW i \in 1 .. Len(ckpts[j]), Damage(j, i) PROVE Consistent'
  <2> DEFINE cs == ckpts[j]
             c == [cs[i] EXCEPT !.intact = FALSE]
             d == [cs EXCEPT ![i] = c]
  <2>0. cs \in Seq(CheckpointRow) /\ cs[i] \in CheckpointRow /\ JobOK(job[j], cs)
    BY SameRows, RowOfSeq DEF Consistent
  <2>1. job' = [job EXCEPT ![j] = job[j]] /\ ckpts' = [ckpts EXCEPT ![j] = d]
        /\ UNCHANGED wk
    BY <1>4, SameRows DEF Damage
  <2>2. c \in CheckpointRow /\ c.step = cs[i].step /\ c.weights = cs[i].weights /\ ~c.intact
    BY <2>0, Zenon DEF CheckpointRow
  <2> HIDE DEF c
  <2>3. d \in Seq(CheckpointRow) /\ Len(d) = Len(cs) /\ d[i] = c
        /\ \A k \in 1 .. Len(cs) : k # i => d[k] = cs[k]
    BY <2>0, <2>2, RowReplaced
  <2> HIDE DEF d
  <2>4. /\ RowsOK(d, job[j].total) /\ SavedIn(d) = SavedIn(cs)
        /\ d = << >> <=> cs = << >>
    <3>1. \A k \in 1 .. Len(cs) : ~cs[k].good => ~cs[k].intact
      BY <2>0 DEF JobOK, RowsOK
    <3> QED
      BY <2>0, <2>2, <2>3, <3>1, SameRows, RowsMarked DEF JobOK
  <2>5. JobOK(job[j], d)
    BY <2>0, <2>4 DEF JobOK
  <2>6. ASSUME NEW w \in Workers, Working(w), wk[w].job = j
        PROVE  WorkOK(w, wk[w], job[j], d)
    BY <2>4, <2>6 DEF Consistent, WorkOK, StatusesAt, Ahead
  <2> QED
    BY <2>1, <2>5, <2>6, JobRewritten
<1> QED
  BY <1>1, <1>2, <1>3, <1>4 DEF Environment

(* The inductive invariant. *)
Sound == TypeOK /\ OutcomeDecided /\ Consistent

LEMMA SoundInit == Init => Sound
<1> SUFFICES ASSUME Init PROVE Sound
  OBVIOUS
<1>1. Consistent
  BY DEF Init, Idle, Consistent, JobOK, RowsOK, SavedIn, Working
<1> QED
  BY <1>1, InitType DEF Init, Idle, OutcomeDecided, Sound

LEMMA SoundStep ==
    ASSUME Fenced, Sound, [Next]_vars
    PROVE  Sound'
<1>1. TypeOK' /\ OutcomeDecided'
  BY TypeStep, OutcomeStep DEF Sound
<1>2. UNCHANGED vars => Consistent'
  BY DEF vars, Sound, Consistent, Working
<1>3. Consistent'
  BY <1>2, AdminConsistent, RunConsistent, EnvironmentConsistent DEF Next, Sound
<1> QED
  BY <1>1, <1>3 DEF Sound

(* When fenced, each job's row, its registry and the process at work on it    *)
(* agree at every moment, whatever crashes, raises or is recovered.           *)
THEOREM SoundAlways ==
    ASSUME Fenced
    PROVE  Spec => []Sound
<1>1. Sound /\ [Next]_vars => Sound'
  BY SoundStep
<1> QED
  BY <1>1, SoundInit, PTL DEF Spec

(* When a lease outlives its worker and admins validate only drafts, a        *)
(* process at work is never fenced off: neither the sweep nor an operator's   *)
(* recover takes a job from its worker, wherever that one may raise.          *)
THEOREM LeaseKept ==
    ASSUME Fenced
    PROVE  Spec => []WorkersKeepTheirLease
<1>1. Sound => WorkersKeepTheirLease
  BY AtWork DEF Sound, WorkersKeepTheirLease
<1> QED
  BY <1>1, SoundAlways, PTL

(* Under the same assumption no training step is skipped or counted twice     *)
(* across pauses, crashes and recoveries: a checkpoint's weights went through *)
(* exactly the steps its row claims.                                          *)
THEOREM HonestCheckpoints ==
    ASSUME Fenced
    PROVE  Spec => []CheckpointsAreHonest
<1>1. Sound => CheckpointsAreHonest
  BY DEF Sound, Consistent, JobOK, RowsOK, CheckpointsAreHonest
<1> QED
  BY <1>1, SoundAlways, PTL

(* ... a job a worker can claim restarts at its latest checkpoint's step,     *)
THEOREM ResumableClaims ==
    ASSUME Fenced
    PROVE  Spec => []ClaimableIsResumable
<1>1. Sound => ClaimableIsResumable
  BY DEF Sound, Consistent, JobOK, SavedIn, ClaimableIsResumable, Claimable,
         HasCheckpoint, Latest
<1> QED
  BY <1>1, SoundAlways, PTL

(* ... recovery marks a checkpoint corrupt only if its files are damaged: in  *)
(* particular its check that steps never go back never fails by itself,       *)
THEOREM OnlyDamagedRejected ==
    ASSUME Fenced
    PROVE  Spec => []RejectedMeansDamaged
<1>1. Sound => RejectedMeansDamaged
  BY DEF Sound, Consistent, JobOK, RowsOK, RejectedMeansDamaged
<1> QED
  BY <1>1, SoundAlways, PTL

(* ... and a job called completed ran every step of its configuration, the    *)
(* weights of its latest checkpoint included.                                 *)
THEOREM TrainedWhenCompleted ==
    ASSUME Fenced
    PROVE  Spec => []CompletedMeansTrained
<1>1. ASSUME Sound PROVE CompletedMeansTrained
  <2> SUFFICES ASSUME NEW j \in Jobs, job[j].status = "completed"
               PROVE  /\ job[j].completed_steps = job[j].total
                      /\ HasCheckpoint(j)
                      /\ Latest(j).weights = job[j].total
    BY DEF CompletedMeansTrained
  <2>1. JobOK(job[j], ckpts[j]) /\ ckpts[j] \in Seq(CheckpointRow)
    BY <1>1, SameRows DEF Sound, Consistent
  <2>2. /\ job[j].completed_steps = job[j].total /\ ckpts[j] # << >>
        /\ SavedIn(ckpts[j]) = job[j].total
    BY <2>1 DEF JobOK
  <2>3. Len(ckpts[j]) \in 1 .. Len(ckpts[j])
    BY <2>1, <2>2
  <2>4. ckpts[j][Len(ckpts[j])].step = ckpts[j][Len(ckpts[j])].weights
    BY <2>1, <2>3 DEF JobOK, RowsOK
  <2> QED
    BY <2>2, <2>4 DEF SavedIn, HasCheckpoint, Latest
<1> QED
  BY <1>1, SoundAlways, PTL

-----------------------------------------------------------------------------
(* The refinement: one job moves at a time, as DurableTraining lets it.       *)

Same(k) ==
    /\ Phase(k)' = Phase(k)
    /\ job'[k].total = job[k].total
    /\ SavedIn(ckpts'[k]) = SavedIn(ckpts[k])

Moves(j) ==
    \/ Same(j)
    \/ /\ Phase(j) = "new" /\ Phase(j)' \in {"new", "open"}
       /\ SavedIn(ckpts'[j]) = SavedIn(ckpts[j])
       /\ \/ Phase(j)' = "new" /\ job'[j].total \in Totals
          \/ job'[j].total = job[j].total
    \/ /\ Phase(j) = "open"
       /\ job'[j].total = job[j].total
       /\ \/ /\ Phase(j)' = "open"
             /\ SavedIn(ckpts'[j]) \in SavedIn(ckpts[j]) .. job[j].total
          \/ /\ SavedIn(ckpts'[j]) = SavedIn(ckpts[j])
             /\ \/ Phase(j)' = "cancelled"
                \/ Phase(j)' = "completed" /\ SavedIn(ckpts[j]) = job[j].total

JobsMove ==
    \/ \A k \in Jobs : Same(k)
    \/ \E j \in Jobs : Moves(j) /\ \A k \in Jobs \ {j} : Same(k)

LEMMA JobsMoveImplements ==
    ASSUME TypeOK, TypeOK', JobsMove
    PROVE  Durable!DurableNext \/ UNCHANGED Durable!durableVars
<1> DEFINE phase == [j \in Jobs |-> Phase(j)]
           goal == [j \in Jobs |-> job[j].total]
           saved == [j \in Jobs |-> IF HasCheckpoint(j) THEN Latest(j).step ELSE 0]
<1>1. saved = [j \in Jobs |-> SavedIn(ckpts[j])] /\ saved' = [j \in Jobs |-> SavedIn(ckpts'[j])]
  BY DEF HasCheckpoint, Latest, SavedIn
<1>2. phase' = [j \in Jobs |-> Phase(j)'] /\ goal' = [j \in Jobs |-> job'[j].total]
  OBVIOUS
<1>3. \A j \in Jobs : /\ phase[j] = Phase(j) /\ phase'[j] = Phase(j)'
                      /\ goal[j] = job[j].total /\ goal'[j] = job'[j].total
                      /\ saved[j] = SavedIn(ckpts[j]) /\ saved'[j] = SavedIn(ckpts'[j])
                      /\ goal[j] \in Nat /\ saved[j] \in Nat
  BY <1>1, SameRows
<1>4. CASE \A k \in Jobs : Same(k)
  <2>1. phase' = phase /\ goal' = goal /\ saved' = saved
    BY <1>1, <1>4 DEF Same
  <2> QED
    BY <2>1 DEF Durable!durableVars
<1>5. ASSUME NEW j \in Jobs, Moves(j), \A k \in Jobs \ {j} : Same(k)
      PROVE  Durable!DurableNext \/ UNCHANGED Durable!durableVars
  <2>1. /\ phase' = [phase EXCEPT ![j] = Phase(j)']
        /\ goal' = [goal EXCEPT ![j] = job'[j].total]
        /\ saved' = [saved EXCEPT ![j] = SavedIn(ckpts'[j])]
    BY <1>1, <1>5 DEF Same
  <2>2. phase[j] = Phase(j)' => phase' = phase
    BY <2>1
  <2>3. goal[j] = job'[j].total => goal' = goal
    BY <2>1
  <2>4. saved[j] = SavedIn(ckpts'[j]) => saved' = saved
    BY <2>1
  <2>5. CASE Same(j)
    BY <1>4, <1>5, <2>5
  <2>6. CASE Phase(j) = "new" /\ Phase(j)' = "new" /\ job'[j].total \in Totals
             /\ SavedIn(ckpts'[j]) = SavedIn(ckpts[j])
    <3>1. phase' = phase /\ saved' = saved /\ phase[j] = "new"
      BY <1>3, <2>2, <2>4, <2>6
    <3>2. PICK g \in Totals : goal' = [goal EXCEPT ![j] = g]
      BY <2>1, <2>6
    <3>3. Durable!Configure(j, g)
      BY <3>1, <3>2 DEF Durable!Configure
    <3> QED
      BY <3>3 DEF Durable!DurableNext
  <2>7. CASE Phase(j) = "new" /\ Phase(j)' = "open" /\ job'[j].total = job[j].total
             /\ SavedIn(ckpts'[j]) = SavedIn(ckpts[j])
    <3>1. goal' = goal /\ saved' = saved /\ phase[j] = "new"
          /\ phase' = [phase EXCEPT ![j] = "open"]
      BY <1>3, <2>1, <2>3, <2>4, <2>7
    <3>2. Durable!Submit(j)
      BY <3>1 DEF Durable!Submit
    <3> QED
      BY <3>2 DEF Durable!DurableNext
  <2>8. CASE Phase(j) = "open" /\ Phase(j)' = "open" /\ job'[j].total = job[j].total
             /\ SavedIn(ckpts'[j]) \in SavedIn(ckpts[j]) .. job[j].total
    <3> DEFINE n == SavedIn(ckpts'[j])
    <3>1. goal' = goal /\ phase' = phase /\ phase[j] = "open"
          /\ saved' = [saved EXCEPT ![j] = n]
          /\ n \in saved[j] .. goal[j] /\ n \in 0 .. goal[j]
      BY <1>3, <2>1, <2>2, <2>3, <2>8
    <3>2. Durable!Save(j, n)
      BY <3>1 DEF Durable!Save
    <3> QED
      BY <3>1, <3>2 DEF Durable!DurableNext
  <2>9. CASE Phase(j) = "open" /\ Phase(j)' = "cancelled" /\ job'[j].total = job[j].total
             /\ SavedIn(ckpts'[j]) = SavedIn(ckpts[j])
    <3>1. goal' = goal /\ saved' = saved /\ phase[j] = "open"
          /\ phase' = [phase EXCEPT ![j] = "cancelled"]
      BY <1>3, <2>1, <2>3, <2>4, <2>9
    <3>2. Durable!Abandon(j)
      BY <3>1 DEF Durable!Abandon
    <3> QED
      BY <3>2 DEF Durable!DurableNext
  <2>10. CASE Phase(j) = "open" /\ Phase(j)' = "completed" /\ job'[j].total = job[j].total
              /\ SavedIn(ckpts'[j]) = SavedIn(ckpts[j]) /\ SavedIn(ckpts[j]) = job[j].total
    <3>1. goal' = goal /\ saved' = saved /\ phase[j] = "open" /\ saved[j] = goal[j]
          /\ phase' = [phase EXCEPT ![j] = "completed"]
      BY <1>3, <2>1, <2>3, <2>4, <2>10
    <3>2. Durable!Complete(j)
      BY <3>1 DEF Durable!Complete
    <3> QED
      BY <3>2 DEF Durable!DurableNext
  <2>11. Phase(j) = "new" /\ Phase(j)' = "new" /\ job'[j].total = job[j].total
         /\ SavedIn(ckpts'[j]) = SavedIn(ckpts[j]) => Same(j)
    BY DEF Same
  <2> QED
    BY <1>5, <2>5, <2>6, <2>7, <2>8, <2>9, <2>10, <2>11 DEF Moves
<1> QED
  BY <1>4, <1>5 DEF JobsMove

Fresh == {"absent", "draft", "validating"}
Open == Statuses \ (Fresh \cup {"completed", "cancelled"})

(* What may become of a job with row r and registry cs, in row q and registry d. *)
RowMoves(r, cs, q, d) ==
    \/ /\ r.status \in Fresh /\ q.status \in Fresh
       /\ q.total \in Totals
       /\ SavedIn(d) = SavedIn(cs)
    \/ /\ q.total = r.total
       /\ SavedIn(d) = SavedIn(cs)
       /\ \/ q.status = r.status
          \/ r.status \in Fresh \cup Open /\ q.status \in Open
          \/ r.status \in Open /\ q.status = "cancelled"
          \/ r.status \in Open /\ q.status = "completed" /\ SavedIn(cs) = r.total
    \/ /\ r.status \in Open /\ q.status \in Open
       /\ q.total = r.total
       /\ SavedIn(d) \in SavedIn(cs) .. r.total

LEMMA PhaseOf ==
    ASSUME NEW j \in Jobs
    PROVE  /\ job[j].status \in Fresh => Phase(j) = "new"
           /\ job[j].status \in Open => Phase(j) = "open"
           /\ job[j].status = "completed" => Phase(j) = "completed"
           /\ job[j].status = "cancelled" => Phase(j) = "cancelled"
           /\ job'[j].status \in Fresh => Phase(j)' = "new"
           /\ job'[j].status \in Open => Phase(j)' = "open"
           /\ job'[j].status = "completed" => Phase(j)' = "completed"
           /\ job'[j].status = "cancelled" => Phase(j)' = "cancelled"
           /\ job'[j].status = job[j].status => Phase(j)' = Phase(j)
BY DEF Phase, Fresh, Open

LEMMA JobMoved ==
    ASSUME TypeOK, NEW j \in Jobs, NEW q, NEW d,
           job' = [job EXCEPT ![j] = q], ckpts' = [ckpts EXCEPT ![j] = d],
           RowMoves(job[j], ckpts[j], q, d)
    PROVE  JobsMove
<1> USE DEF TypeOK
<1>1. job'[j] = q /\ ckpts'[j] = d
  OBVIOUS
<1>2. ASSUME NEW k \in Jobs \ {j} PROVE Same(k)
  <2>1. job'[k] = job[k] /\ ckpts'[k] = ckpts[k]
    BY <1>2
  <2> QED
    BY <2>1, PhaseOf DEF Same
<1>3. Moves(j)
  BY <1>1, PhaseOf DEF RowMoves, Moves, Same
<1> QED
  BY <1>2, <1>3 DEF JobsMove

LEMMA NothingMoved ==
    ASSUME UNCHANGED <<job, ckpts>>
    PROVE  JobsMove
BY DEF JobsMove, Same, Phase

(* Marking a row does not move what is saved; no row is past the goal. *)
LEMMA MarkSaved ==
    ASSUME NEW cs \in Seq(CheckpointRow), NEW i \in 1 .. Len(cs), NEW c,
           c.step = cs[i].step
    PROVE  SavedIn([cs EXCEPT ![i] = c]) = SavedIn(cs)
<1> DEFINE d == [cs EXCEPT ![i] = c]
<1>1. Len(d) = Len(cs) /\ d # << >> /\ cs # << >> /\ Len(cs) \in 1 .. Len(cs)
  OBVIOUS
<1>2. d[Len(cs)] = IF i = Len(cs) THEN c ELSE cs[Len(cs)]
  OBVIOUS
<1>3. d[Len(cs)].step = cs[Len(cs)].step
  BY <1>2
<1> HIDE DEF d
<1>4. SavedIn(d) = SavedIn(cs)
  BY <1>1, <1>3 DEF SavedIn
<1> QED
  BY <1>4 DEF d

LEMMA SavedBound ==
    ASSUME TypeOK, Consistent, NEW j \in Jobs
    PROVE  SavedIn(ckpts[j]) <= job[j].total /\ SavedIn(ckpts[j]) \in Nat
<1>1. RowsOK(ckpts[j], job[j].total) /\ ckpts[j] \in Seq(CheckpointRow)
      /\ job[j].total \in Nat /\ SavedIn(ckpts[j]) \in Nat
  BY SameRows DEF Consistent, JobOK
<1>2. CASE ckpts[j] = << >>
  BY <1>1, <1>2 DEF SavedIn
<1>3. CASE ckpts[j] # << >>
  <2>1. Len(ckpts[j]) \in 1 .. Len(ckpts[j])
    BY <1>1, <1>3
  <2> QED
    BY <1>1, <1>3, <2>1 DEF SavedIn, RowsOK
<1> QED
  BY <1>2, <1>3

LEMMA AdminMoves ==
    ASSUME TypeOK, Consistent, Fenced, Admin
    PROVE  JobsMove
<1> PICK j \in Jobs :
        \/ CreateJob(j)
        \/ \E t \in PatchedTotals : PatchJob(j, t)
        \/ ValidateJob(j)
        \/ QueueJob(j)
        \/ Pause(j)
        \/ Cancel(j)
        \/ \E i \in 1 .. Len(ckpts[j]) : VerifyCheckpoint(j, i)
        \/ \E type \in RecoveriesUsed : Recover(j, type)
  BY DEF Admin
<1> DEFINE cs == ckpts[j]
<1>0. job[j] \in JobRow /\ job[j].total \in Totals /\ cs \in Seq(CheckpointRow)
  BY SameRows, Zenon DEF JobRow
<1>1. CASE CreateJob(j) \/ ValidateJob(j) \/ QueueJob(j)
  <2>1. PICK s \in {"draft", "validating", "queued"} :
            /\ job' = [job EXCEPT ![j] = [job[j] EXCEPT !.status = s]]
            /\ s = "queued" => job[j].status \in {"draft", "validating", "paused"}
            /\ s # "queued" => job[j].status \in {"absent", "draft"}
    BY <1>1 DEF CreateJob, ValidateJob, QueueJob, QueueAllowed, Fenced
  <2> DEFINE q == [job[j] EXCEPT !.status = s]
  <2>2. q.status = s /\ q.total = job[j].total
    BY <1>0, Zenon DEF JobRow
  <2>3. job' = [job EXCEPT ![j] = q] /\ ckpts' = [ckpts EXCEPT ![j] = cs]
    BY <1>1, <2>1, SameRows DEF CreateJob, ValidateJob, QueueJob
  <2> HIDE DEF q
  <2>4. RowMoves(job[j], cs, q, cs)
    BY <1>0, <2>1, <2>2 DEF RowMoves, Fresh, Open, Statuses
  <2> QED
    BY <2>3, <2>4, JobMoved
<1>2. CASE \E t \in PatchedTotals : PatchJob(j, t)
  <2>1. PICK t \in PatchedTotals : PatchJob(j, t)
    BY <1>2
  <2> DEFINE q == [job[j] EXCEPT !.total = t]
  <2>2. q.status = "draft" /\ q.total \in Totals /\ job[j].status = "draft"
    BY <1>0, <2>1, Zenon DEF JobRow, PatchJob, Totals
  <2>3. job' = [job EXCEPT ![j] = q] /\ ckpts' = [ckpts EXCEPT ![j] = cs]
    BY <2>1, SameRows DEF PatchJob
  <2> HIDE DEF q
  <2>4. RowMoves(job[j], cs, q, cs)
    BY <2>2 DEF RowMoves, Fresh
  <2> QED
    BY <2>3, <2>4, JobMoved
<1>3. CASE Pause(j) \/ Cancel(j)
  <2>1. PICK s \in {"pause_requested", "cancel_requested"},
             f \in {"pause_requested", "cancel_requested"} :
            /\ job' = [job EXCEPT ![j] = [job[j] EXCEPT !.status = s, ![f] = TRUE]]
            /\ job[j].status \in CancelAllowed
    BY <1>3 DEF Pause, Cancel, CancelAllowed
  <2> DEFINE q == [job[j] EXCEPT !.status = s, ![f] = TRUE]
  <2>2. q.status = s /\ q.total = job[j].total
    BY <1>0, Zenon DEF JobRow
  <2>3. job' = [job EXCEPT ![j] = q] /\ ckpts' = [ckpts EXCEPT ![j] = cs]
    BY <1>3, <2>1, SameRows DEF Pause, Cancel
  <2> HIDE DEF q
  <2>4. RowMoves(job[j], cs, q, cs)
    BY <2>1, <2>2 DEF RowMoves, Fresh, Open, Statuses, CancelAllowed
  <2> QED
    BY <2>3, <2>4, JobMoved
<1>4. CASE \E i \in 1 .. Len(ckpts[j]) : VerifyCheckpoint(j, i)
  <2>1. PICK i \in 1 .. Len(cs) : VerifyCheckpoint(j, i)
    BY <1>4
  <2> DEFINE c == [cs[i] EXCEPT !.good = cs[i].intact]
             d == [cs EXCEPT ![i] = c]
  <2>2. c.step = cs[i].step
    BY <1>0, RowOfSeq, Zenon DEF CheckpointRow
  <2>3. ckpts' = [ckpts EXCEPT ![j] = d] /\ job' = [job EXCEPT ![j] = job[j]]
    BY <2>1, SameRows DEF VerifyCheckpoint
  <2> HIDE DEF c
  <2>4. SavedIn(d) = SavedIn(cs)
    BY <1>0, <2>2, MarkSaved
  <2> HIDE DEF d
  <2>5. RowMoves(job[j], cs, job[j], d)
    BY <2>4 DEF RowMoves
  <2> QED
    BY <2>3, <2>5, JobMoved
<1>5. CASE \E type \in RecoveriesUsed : Recover(j, type)
  <2>1. PICK type \in RecoveriesUsed : Recover(j, type)
    BY <1>5
  <2>2. job[j].status \in Fresh \cup Open
    <3>1. job[j].recovery_required => job[j].status \notin {"completed", "cancelled"}
      BY DEF Consistent, JobOK
    <3>2. job[j].status \in Statuses
      BY <1>0, Zenon DEF JobRow
    <3> QED
      BY <2>1, <3>1, <3>2, AdminAssumption
         DEF Recover, RecoveryAllowed, RecoveryTypes, Fresh, Open, Statuses
  <2>3. CASE RecoverySucceeds(j)
    <3> DEFINE g == job[j].lease_generation + 1
               n == SavedIn(cs)
               q == [job[j] EXCEPT !.status = "queued",
                                   !.recovery_required = FALSE,
                                   !.pause_requested = FALSE,
                                   !.cancel_requested = FALSE,
                                   !.completed_steps = n,
                                   !.lease_generation = g,
                                   !.worker_id = NoWorker,
                                   !.lease_expired = FALSE]
    <3>1. job' = [job EXCEPT ![j] = q] /\ ckpts' = [ckpts EXCEPT ![j] = cs]
      BY <2>3, SameRows DEF RecoverySucceeds, HasCheckpoint, Latest, SavedIn
    <3> HIDE DEF g, n
    <3>2. q.status = "queued" /\ q.total = job[j].total
      BY <1>0, Zenon DEF JobRow
    <3> HIDE DEF q
    <3>3. RowMoves(job[j], cs, q, cs)
      BY <2>2, <3>2 DEF RowMoves, Open, Fresh, Statuses
    <3> QED
      BY <3>1, <3>3, JobMoved
  <2>4. CASE RecoveryFails(j)
    <3> DEFINE k == Len(cs)
               g == job[j].lease_generation + 1
               q == [job[j] EXCEPT !.status = "failed", !.lease_generation = g]
               c == [cs[k] EXCEPT !.good = FALSE]
               d == [cs EXCEPT ![k] = c]
    <3>1. k \in 1 .. Len(cs) /\ cs[k] \in CheckpointRow
      BY <1>0, <2>4, RowOfSeq DEF RecoveryFails, LatestIsRecoverable, HasCheckpoint
    <3>2. job' = [job EXCEPT ![j] = q] /\ ckpts' = [ckpts EXCEPT ![j] = d]
      BY <2>4 DEF RecoveryFails
    <3>3. c.step = cs[k].step
      <4> HIDE DEF k
      <4> QED
        BY <3>1, Zenon DEF CheckpointRow
    <3> HIDE DEF c
    <3>4. SavedIn(d) = SavedIn(cs)
      BY <1>0, <3>1, <3>3, MarkSaved
    <3> HIDE DEF d, g
    <3>5. q.status = "failed" /\ q.total = job[j].total
      BY <1>0, Zenon DEF JobRow
    <3> HIDE DEF q
    <3>6. RowMoves(job[j], cs, q, d)
      BY <2>2, <3>4, <3>5 DEF RowMoves, Open, Fresh, Statuses
    <3> QED
      BY <3>2, <3>6, JobMoved
  <2> QED
    BY <2>1, <2>3, <2>4 DEF Recover
<1> QED
  BY <1>1, <1>2, <1>3, <1>4, <1>5

(* A claim and its sweep move open jobs to open jobs. *)
LEMMA ClaimMoves ==
    ASSUME TypeOK, NEW w \in Workers, (\E j \in Jobs : Claim(w, j)) \/ SweepOnly(w)
    PROVE  JobsMove
<1>1. UNCHANGED ckpts /\ Swept \in [Jobs -> JobRow]
  BY SweptType DEF Claim, SweepOnly, TypeOK
<1>2. ASSUME NEW k \in Jobs
      PROVE  /\ Swept[k].total = job[k].total
             /\ \/ Swept[k].status = job[k].status
                \/ job[k].status = "running" /\ Swept[k].status = "queued"
  <2> DEFINE g == job[k].lease_generation + 1
             r == [job[k] EXCEPT !.status = "queued", !.recovery_required = TRUE,
                                 !.lease_generation = g]
  <2>1. CASE k \in StaleJobs
    <3>1. Swept[k] = r /\ job[k].status = "running"
      BY <2>1 DEF Swept, StaleJobs
    <3> HIDE DEF g
    <3>2. r.status = "queued" /\ r.total = job[k].total
      BY SameRows, Zenon DEF JobRow
    <3> QED
      BY <3>1, <3>2
  <2>2. CASE k \notin StaleJobs
    BY <2>2, SweepRow
  <2> QED
    BY <2>1, <2>2
<1>3. ASSUME NEW k \in Jobs
      PROVE  /\ job'[k].total = job[k].total
             /\ \/ job'[k].status = job[k].status
                \/ job[k].status \in Open /\ job'[k].status \in Open
  <2>1. {"running", "queued"} \subseteq Open
    BY DEF Open, Fresh, Statuses
  <2>2. CASE SweepOnly(w)
    BY <1>2, <2>1, <2>2 DEF SweepOnly
  <2>3. ASSUME NEW j \in Jobs, Claim(w, j)
        PROVE  /\ job'[k].total = job[k].total
               /\ \/ job'[k].status = job[k].status
                  \/ job[k].status \in Open /\ job'[k].status \in Open
    <3> DEFINE g == job[j].lease_generation + 1
               q == [Swept[j] EXCEPT !.status = "running", !.worker_id = w,
                                     !.lease_generation = g, !.lease_expired = FALSE]
    <3>1. job' = [Swept EXCEPT ![j] = q] /\ Swept[j].status = "queued"
          /\ job[j].status = "queued"
      BY <2>3, SweepRow DEF Claim, Claimable, StaleJobs
    <3> HIDE DEF g
    <3>2. q.status = "running" /\ q.total = Swept[j].total
      BY <1>1, Zenon DEF JobRow
    <3> HIDE DEF q
    <3>3. k # j => job'[k] = Swept[k]
      BY <1>1, <3>1
    <3>4. k = j => job'[k] = q
      BY <1>1, <3>1
    <3> QED
      BY <1>2, <2>1, <3>1, <3>2, <3>3, <3>4
  <2> QED
    BY <2>2, <2>3
<1>4. ASSUME NEW k \in Jobs PROVE Same(k)
  BY <1>1, <1>3, PhaseOf DEF Same
<1> QED
  BY <1>4 DEF JobsMove

LEMMA RunMoves ==
    ASSUME QuietEnd, TypeOK, OutcomeDecided, Consistent, NEW w \in Workers, Run(w)
    PROVE  JobsMove
<1> DEFINE j == wk[w].job
           n == wk[w].step
           cs == ckpts[j]
<1>0. Busy \subseteq Open /\ {"paused", "failed"} \subseteq Open
  BY DEF Busy, Open, Fresh, Statuses
<1>1. CASE \/ Load(w) \/ StopRequested(w) \/ TrainStep(w) \/ LoopEnds(w) \/ CheckFence(w)
           \/ MetricStale(w) \/ CheckFenceStale(w)
  <2>1. UNCHANGED <<job, ckpts>>
    BY <1>1 DEF Load, StopRequested, TrainStep, LoopEnds, CheckFence, MetricStale,
                CheckFenceStale, GiveUp
  <2> QED
    BY <2>1, NothingMoved
<1>2. CASE Metric(w)
  <2> DEFINE q == [job[j] EXCEPT !.completed_steps = n, !.lease_expired = FALSE]
  <2>1. Working(w)
    BY <1>2 DEF Metric, Working
  <2>2. j \in Jobs /\ job[j] \in JobRow
    BY <2>1, AtWork, SameRows
  <2>3. (job' = [job EXCEPT ![j] = q] \/ UNCHANGED job) /\ UNCHANGED ckpts
    BY <1>2 DEF Metric
  <2> HIDE DEF n
  <2>4. q.status = job[j].status /\ q.total = job[j].total
    BY <2>2, Zenon DEF JobRow
  <2> HIDE DEF q
  <2>5. RowMoves(job[j], cs, q, cs) /\ ckpts' = [ckpts EXCEPT ![j] = cs]
    BY <2>2, <2>3, <2>4, SameRows DEF RowMoves
  <2>6. CASE UNCHANGED job
    BY <2>3, <2>6, NothingMoved
  <2>7. CASE job' = [job EXCEPT ![j] = q]
    BY <2>2, <2>5, <2>7, JobMoved
  <2> QED
    BY <2>3, <2>6, <2>7
<1>3. CASE RegisterPeriodic(w) \/ RegisterFinal(w)
  <2> DEFINE row == RowOf(w)
             d == Append(cs, row)
  <2>1. Working(w) /\ wk[w].pc \in {"register", "registerFinal"}
    BY <1>3 DEF RegisterPeriodic, RegisterFinal, Working
  <2>2. /\ WorkOK(w, wk[w], job[j], cs) /\ j \in Jobs /\ job[j] \in JobRow
        /\ JobOK(job[j], cs) /\ job[j].status \in Open
        /\ n = wk[w].weights /\ SavedIn(cs) <= n /\ n <= job[j].total
    BY <1>0, <2>1, AtWork, SameRows DEF WorkOK, StatusesAt, Ahead, InLoop
  <2>3. row \in CheckpointRow /\ row.step = n /\ row.weights = wk[w].weights /\ row.good
    BY <2>1, RowOfType DEF RowOf
  <2>4. ckpts' = [ckpts EXCEPT ![j] = d]
    BY <1>3 DEF RegisterPeriodic, RegisterFinal
  <2> HIDE DEF row
  <2>5. SavedIn(d) = n
    BY <2>2, <2>3, SameRows, RowsAppend DEF JobOK
  <2>6. n \in Nat /\ SavedIn(cs) \in Nat /\ job[j].total \in Nat
    BY <2>1, <2>2, WorkerType, SameRows
  <2> HIDE DEF d
  <2>7. CASE RegisterPeriodic(w)
    <3> DEFINE q == [job[j] EXCEPT !.completed_steps = n]
    <3>1. job' = [job EXCEPT ![j] = q]
      BY <2>7 DEF RegisterPeriodic
    <3>2. q.status = job[j].status /\ q.total = job[j].total
      <4> HIDE DEF n
      <4> QED
        BY <2>2, Zenon DEF JobRow
    <3> HIDE DEF q
    <3>3. RowMoves(job[j], cs, q, d)
      <4> HIDE DEF n
      <4> QED
        BY <2>2, <2>5, <2>6, <3>2 DEF RowMoves, n
    <3> QED
      BY <2>2, <2>4, <3>1, <3>3, JobMoved
  <2>8. CASE RegisterFinal(w)
    <3>1. job' = [job EXCEPT ![j] = job[j]]
      BY <2>2, <2>8, SameRows DEF RegisterFinal
    <3>2. RowMoves(job[j], cs, job[j], d)
      BY <2>2, <2>5, <2>6 DEF RowMoves
    <3> QED
      BY <2>2, <2>4, <3>1, <3>2, JobMoved
  <2> QED
    BY <1>3, <2>7, <2>8
<1>4. CASE Finish(w)
  <2> DEFINE o == wk[w].outcome
             q == [job[j] EXCEPT !.status = o, !.completed_steps = n, !.worker_id = w]
  <2>1. Working(w) /\ wk[w].pc = "finish" /\ o \in {"completed", "paused", "cancelled"}
    BY <1>4 DEF Finish, Working, OutcomeDecided
  <2>2. /\ j \in Jobs /\ job[j] \in JobRow /\ job[j].status \in Open
        /\ SavedIn(cs) = n /\ (o = "completed" => n = job[j].total)
    BY <1>0, <2>1, AtWork, SameRows DEF WorkOK, StatusesAt, Ahead, InLoop
  <2>3. job' = [job EXCEPT ![j] = q] /\ ckpts' = [ckpts EXCEPT ![j] = cs]
    BY <1>4, <2>2, SameRows DEF Finish
  <2>4. q.status = o /\ q.total = job[j].total
    <3> HIDE DEF n, o
    <3> QED
      BY <2>2, Zenon DEF JobRow
  <2> HIDE DEF q
  <2>5. RowMoves(job[j], cs, q, cs)
    <3>1. o \in {"completed", "cancelled"} \/ o \in Open
      BY <1>0, <2>1
    <3> HIDE DEF n, o
    <3> QED
      BY <2>2, <2>4, <3>1 DEF RowMoves
  <2> QED
    BY <2>2, <2>3, <2>5, JobMoved
<1>5. CASE SelectBest(w) \/ Summarise(w)
  <2>1. Working(w)
    BY <1>5 DEF SelectBest, Summarise, Working
  <2>2. j \in Jobs /\ job[j] \in JobRow /\ UNCHANGED ckpts
    BY <1>5, <2>1, AtWork, SameRows DEF SelectBest, Summarise
  <2>3. \/ UNCHANGED job
        \/ \E i : job' = [job EXCEPT ![j].best = i]
        \/ job' = [job EXCEPT ![j].summarised = TRUE]
    BY <1>5 DEF SelectBest, Summarise
  <2>4. CASE UNCHANGED job
    BY <2>2, <2>4, NothingMoved
  <2>5. ASSUME NEW q, job' = [job EXCEPT ![j] = q],
               q.status = job[j].status, q.total = job[j].total
        PROVE  JobsMove
    <3>1. RowMoves(job[j], cs, q, cs) /\ ckpts' = [ckpts EXCEPT ![j] = cs]
      BY <2>2, <2>5, SameRows DEF RowMoves
    <3> QED
      BY <2>2, <2>5, <3>1, JobMoved
  <2>6. ASSUME NEW i, job' = [job EXCEPT ![j].best = i] PROVE JobsMove
    <3> DEFINE q == [job[j] EXCEPT !.best = i]
    <3>1. q.status = job[j].status /\ q.total = job[j].total
      BY <2>2, Zenon DEF JobRow
    <3>2. job' = [job EXCEPT ![j] = q]
      BY <2>6
    <3> HIDE DEF q
    <3> QED
      BY <2>5, <3>1, <3>2
  <2>7. CASE job' = [job EXCEPT ![j].summarised = TRUE]
    <3> DEFINE q == [job[j] EXCEPT !.summarised = TRUE]
    <3>1. q.status = job[j].status /\ q.total = job[j].total
      BY <2>2, Zenon DEF JobRow
    <3>2. job' = [job EXCEPT ![j] = q]
      BY <2>7
    <3> HIDE DEF q
    <3> QED
      BY <2>5, <3>1, <3>2
  <2> QED
    BY <2>3, <2>4, <2>6, <2>7
<1>6. CASE HandleFailure(w)
  <2> DEFINE q == [job[j] EXCEPT !.status = "failed"]
  <2>1. Working(w) /\ wk[w].pc = "failing"
    BY <1>6 DEF HandleFailure, Working
  <2>2. j \in Jobs /\ job[j] \in JobRow /\ job[j].status \in Open /\ HoldsLease(w)
    BY <1>0, <2>1, AtWork, SameRows DEF WorkOK, StatusesAt
  <2>3. job' = [job EXCEPT ![j] = q] /\ ckpts' = [ckpts EXCEPT ![j] = cs]
    BY <1>6, <2>2, SameRows DEF HandleFailure
  <2>4. q.status = "failed" /\ q.total = job[j].total
    BY <2>2, Zenon DEF JobRow
  <2> HIDE DEF q
  <2>5. RowMoves(job[j], cs, q, cs)
    BY <1>0, <2>2, <2>4 DEF RowMoves
  <2> QED
    BY <2>2, <2>3, <2>5, JobMoved
<1> QED
  BY <1>1, <1>2, <1>3, <1>4, <1>5, <1>6, ClaimMoves DEF Run

LEMMA EnvironmentMoves ==
    ASSUME TypeOK, Environment
    PROVE  JobsMove
<1>1. ASSUME NEW w \in Workers, Raises(w) \/ Crash(w) \/ Restart(w) PROVE JobsMove
  BY <1>1, NothingMoved DEF Raises, Crash, Restart
<1>2. ASSUME NEW j \in Jobs, Expire(j) PROVE JobsMove
  <2> DEFINE q == [job[j] EXCEPT !.lease_expired = TRUE]
  <2>1. job' = [job EXCEPT ![j] = q] /\ ckpts' = [ckpts EXCEPT ![j] = ckpts[j]]
    BY <1>2, SameRows DEF Expire
  <2>2. q.status = job[j].status /\ q.total = job[j].total
    BY SameRows, Zenon DEF JobRow
  <2> HIDE DEF q
  <2>3. RowMoves(job[j], ckpts[j], q, ckpts[j])
    BY <2>2 DEF RowMoves
  <2> QED
    BY <2>1, <2>3, JobMoved
<1>3. ASSUME NEW j \in Jobs, NEW i \in 1 .. Len(ckpts[j]), Damage(j, i) PROVE JobsMove
  <2> DEFINE cs == ckpts[j]
             c == [cs[i] EXCEPT !.intact = FALSE]
             d == [cs EXCEPT ![i] = c]
  <2>1. cs \in Seq(CheckpointRow) /\ cs[i] \in CheckpointRow
    BY SameRows, RowOfSeq
  <2>2. job' = [job EXCEPT ![j] = job[j]] /\ ckpts' = [ckpts EXCEPT ![j] = d]
    BY <1>3, SameRows DEF Damage
  <2>3. c.step = cs[i].step
    BY <2>1, Zenon DEF CheckpointRow
  <2> HIDE DEF c
  <2>4. SavedIn(d) = SavedIn(cs)
    BY <2>1, <2>3, MarkSaved
  <2> HIDE DEF d
  <2>5. RowMoves(job[j], cs, job[j], d)
    BY <2>4 DEF RowMoves
  <2> QED
    BY <2>2, <2>5, JobMoved
<1> QED
  BY <1>1, <1>2, <1>3 DEF Environment

LEMMA StepMoves ==
    ASSUME Disciplined, Sound, [Next]_vars
    PROVE  JobsMove
BY AdminMoves, RunMoves, EnvironmentMoves, NothingMoved
   DEF Next, vars, Sound, Disciplined

(* If, moreover, nothing raises after completion, nothing that happens to a   *)
(* job afterwards - a late worker, a recovery, an admin - changes an outcome  *)
(* once recorded.                                                             *)
THEOREM FinalOutcomes ==
    ASSUME Disciplined
    PROVE  Spec => OutcomesAreFinal
<1>1. Sound /\ [Next]_vars =>
        [\A j \in Jobs : job[j].status \in {"completed", "cancelled"} =>
            job'[j].status = job[j].status]_vars
  <2> SUFFICES ASSUME Sound, [Next]_vars, NEW j \in Jobs,
                      job[j].status \in {"completed", "cancelled"}
               PROVE  job'[j].status = job[j].status
    OBVIOUS
  <2>1. Phase(j) = job[j].status
    BY PhaseOf
  <2>2. Phase(j)' = Phase(j)
    BY <2>1, StepMoves DEF JobsMove, Moves, Same
  <2>3. job'[j].status \in Statuses
    <3>1. job'[j] \in JobRow
      BY SoundStep DEF Disciplined, Sound, TypeOK
    <3> QED
      BY <3>1, Zenon DEF JobRow
  <2>4. job'[j].status \in Fresh \cup Open \cup {"completed", "cancelled"}
    BY <2>3 DEF Open
  <2> QED
    BY <2>1, <2>2, <2>4, PhaseOf
<1> QED
  BY <1>1, SoundAlways, PTL DEF Spec, Disciplined, OutcomesAreFinal

(* The whole system - claims, leases, sweeps, crashes, damage and recoveries  *)
(* - then implements DurableTraining: registered progress is never lost, and  *)
(* completion is truthful and final.                                          *)
THEOREM DurableProgress ==
    ASSUME Disciplined
    PROVE  Spec => ProgressIsDurable
<1>1. Init => Durable!DurableInit
  <2> SUFFICES ASSUME Init PROVE Durable!DurableInit
    OBVIOUS
  <2>1. \A j \in Jobs : Phase(j) = "new" /\ ~HasCheckpoint(j)
    BY DEF Init, Phase, HasCheckpoint
  <2>2. \A j \in Jobs : job[j].total = TotalSteps
    BY DEF Init
  <2> QED
    BY <2>1, <2>2 DEF Durable!DurableInit, Totals
<1>2. Sound /\ [Next]_vars => [Durable!DurableNext]_(Durable!durableVars)
  BY SoundStep, StepMoves, JobsMoveImplements DEF Sound, Disciplined
<1> QED
  BY <1>1, <1>2, SoundAlways, PTL DEF Spec, Disciplined, ProgressIsDurable, Durable!DurableSpec

=============================================================================
