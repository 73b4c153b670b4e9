--------------------------- MODULE ReviewedModels ---------------------------
(***************************************************************************)
(* What incremental training promises to whoever uses a model in staging,  *)
(* whichever chains are cut and whichever jobs a run executes: behind the  *)
(* model is a run whose result was tested, behind the run a request that   *)
(* an admin granted, behind the request a dataset version that was built;  *)
(* and none of these is taken back or decided twice.                       *)
(***************************************************************************)
CONSTANTS Promotions, Requests, Runs, NoPromotion, NoRequest

VARIABLES
    built,   \* promotions with a dataset version
    basis,   \* per request the promotion it is about
    granted, \* requests that were approved at some time
    cause,   \* per run the request it was started for
    stage,   \* per run what has become of its result
    staged   \* runs with a model in staging

modelVars == <<built, basis, granted, cause, stage, staged>>

ModelInit ==
    /\ built = {}
    /\ basis = [q \in Requests |-> NoPromotion]
    /\ granted = {}
    /\ cause = [r \in Runs |-> NoRequest]
    /\ stage = [r \in Runs |-> "none"]
    /\ staged = {}

Build(p) ==
    /\ built' = built \cup {p}
    /\ UNCHANGED <<basis, granted, cause, stage, staged>>

Ask(q, p) ==
    /\ basis[q] = NoPromotion
    /\ p \in built
    /\ basis' = [basis EXCEPT ![q] = p]
    /\ UNCHANGED <<built, granted, cause, stage, staged>>

Grant(q) ==
    /\ basis[q] # NoPromotion
    /\ granted' = granted \cup {q}
    /\ UNCHANGED <<built, basis, cause, stage, staged>>

Start(r, q) ==
    /\ stage[r] = "none"
    /\ q \in granted
    /\ cause' = [cause EXCEPT ![r] = q]
    /\ stage' = [stage EXCEPT ![r] = "started"]
    /\ UNCHANGED <<built, basis, granted, staged>>

(* A result that fails its verification, or is cut in its test, is lost.   *)
Follows == {<<"started", "trained">>, <<"trained", "lost">>, <<"trained", "tested">>,
            <<"tested", "accepted">>, <<"tested", "rejected">>}

Advance(r, next) ==
    /\ <<stage[r], next>> \in Follows
    /\ stage' = [stage EXCEPT ![r] = next]
    /\ IF next = "accepted" THEN staged' = staged \cup {r} ELSE UNCHANGED staged
    /\ UNCHANGED <<built, basis, granted, cause>>

(* An acceptance that was cut has its model all the same. *)
Stage(r) ==
    /\ stage[r] = "tested"
    /\ staged' = staged \cup {r}
    /\ UNCHANGED <<built, basis, granted, cause, stage>>

ModelNext ==
    \/ \E p \in Promotions : Build(p) \/ \E q \in Requests : Ask(q, p)
    \/ \E q \in Requests : Grant(q) \/ \E r \in Runs : Start(r, q)
    \/ \E r \in Runs :
          Stage(r) \/ \E next \in {"trained", "lost", "tested", "accepted", "rejected"} :
                         Advance(r, next)

ModelSpec == ModelInit /\ [][ModelNext]_modelVars

=============================================================================
