------------------------- MODULE MCPretrainingJobs -------------------------
(* Small instances of PretrainingJobs for TLC. *)
EXTENDS PretrainingJobs, TLC

CONSTANTS j1, j2, w1, w2

OneJob     == {j1}
TwoJobs    == {j1, j2}
OneWorker  == {w1}
TwoWorkers == {w1, w2}

Interchangeable == Permutations({w1, w2})

Anywhere  == {"load", "loop", "metric", "checkpoint", "register", "final",
              "registerFinal", "finish", "best", "summary"}
BeforeEnd == {"load", "loop", "register", "registerFinal"}
ButCompletion == Anywhere \ {"best", "summary"}
AnyStatus == Statuses \ {"absent"}
=============================================================================
