-------------------------- MODULE InferenceRuntime --------------------------
(***************************************************************************)
(* Runtime instances and the models they hold.  Each instance exists       *)
(* twice: as a row of inference_runtime_instances in the database, and as  *)
(* a slot of _LOADED_MODELS in the memory of the server process.  Nothing  *)
(* but the order of the handlers' steps keeps the two in agreement.        *)
(*                                                                         *)
(*   backend/services/inference_runtime_service.py                         *)
(*                                                                         *)
(* The endpoints are coroutines that call the services without awaiting,   *)
(* so the server finishes one request before it starts the next, and each  *)
(* operation is one action.  What a request does to the rows is undone     *)
(* when it raises (one transaction per operation); what it did to the      *)
(* slots is not.  Command-line tools run the same services as processes    *)
(* of their own: they share the rows and start with empty slots.           *)
(***************************************************************************)
EXTENDS Naturals, FiniteSets

CONSTANTS
    Releases,      \* rows of model_releases
    NoRelease,     \* SQL NULL, or an empty slot
    Profiles,      \* rows of inference_runtime_profiles
    NoProfile,     \* the profile of an id that has no row
    MaxLoaded,     \* per profile its maximum_loaded_models
    RegistryMoves, \* what may become of a release while it is assigned
    Callers,       \* which processes run operations: "server", "cli"
    LateFailures,  \* TRUE: a request may fail after it loaded a model
    MaxInstances,  \* bound: instance ids given out
    MaxRestarts    \* bound: restarts of the server

ASSUME NoReleaseAssumption == NoRelease \notin Releases
ASSUME NoProfileAssumption == NoProfile \notin Profiles
ASSUME LimitAssumption     == MaxLoaded \in [Profiles -> Nat \ {0}]
ASSUME RegistryAssumption  == RegistryMoves \subseteq {"released", "unverified", "withdrawn"}
ASSUME CallersAssumption   == Callers \subseteq {"server", "cli"}
ASSUME FailureAssumption   == LateFailures \in BOOLEAN
ASSUME InstanceAssumption  == MaxInstances \in Nat /\ MaxRestarts \in Nat

VARIABLES
    registry, \* what the release registry says of each release
    inst,     \* the rows, by id in order of creation
    slot,     \* the server's _LOADED_MODELS: which release each id holds
    used,     \* ids given out, those of undone creations included
    restarts  \* restarts of the server so far

runtimeVars == <<registry, inst, slot, used, restarts>>

Ids == 1 .. MaxInstances
MaybeRelease == Releases \cup {NoRelease}

(* unverified: released, but its manifest or an artifact no longer verifies. *)
RegistryStatuses == {"released", "unverified", "withdrawn"}

(* starting, loading, busy and unloading are in the CHECK and never written. *)
InstanceStatuses == {"absent", "offline", "idle", "ready", "degraded", "failed", "stopped"}

InstanceRow == [status: InstanceStatuses, profile: Profiles \cup {NoProfile},
                loaded: MaybeRelease]

RuntimeTypeOK ==
    /\ registry \in [Releases -> RegistryStatuses]
    /\ inst \in [Ids -> InstanceRow]
    /\ \A i \in Ids : inst[i].status = "absent" <=> inst[i].profile = NoProfile
    /\ slot \in [Ids -> MaybeRelease]
    /\ used \in 0 .. MaxInstances
    /\ restarts \in Nat

RuntimeInit ==
    /\ registry = [r \in Releases |-> "released"]
    /\ inst = [i \in Ids |->
                 [status |-> "absent", profile |-> NoProfile, loaded |-> NoRelease]]
    /\ slot = [i \in Ids |-> NoRelease]
    /\ used = 0
    /\ restarts = 0

-----------------------------------------------------------------------------
(* Loading a model, as every caller does it.                                *)

Exists(i) == inst[i].status # "absent"

(* What a process finds in its own memory, and what it leaves there. *)
Holds(by, i) == IF by = "server" THEN slot[i] ELSE NoRelease
Put(by, i, r) == IF by = "server" THEN [slot EXCEPT ![i] = r] ELSE slot

(* Mutant: the guard allows one model too many. *)
RoomForOneMore(by, i, p) ==
    Cardinality({k \in Ids \ {i} : Holds(by, k) # NoRelease}) <= MaxLoaded[p]

(* The resource guard counts the other slots of the process. *)
RoomToLoad(by, i, p) ==
    Cardinality({k \in Ids \ {i} : Holds(by, k) # NoRelease}) < MaxLoaded[p]

(* released, deployable, manifest and artifacts verified, and room. *)
Loadable(by, i, p, r) == registry[r] = "released" /\ RoomToLoad(by, i, p)

LoadInto(by, i, p, r) ==
    /\ Loadable(by, i, p, r)
    /\ slot' = Put(by, i, r)
    /\ inst' = [inst EXCEPT ![i] = [status |-> "ready", profile |-> p, loaded |-> r]]

(* An operation on an assignment uses the newest instance of the profile, *)
(* or creates one.                                                        *)
OfProfile(p) == {i \in Ids : Exists(i) /\ inst[i].profile = p}
Newest(p) == CHOOSE i \in OfProfile(p) : \A k \in OfProfile(p) : k <= i
Target(p) == IF OfProfile(p) # {} THEN Newest(p) ELSE used + 1
RoomForTarget(p) == Target(p) \in Ids
UsedWith(i) == IF i > used THEN i ELSE used

AlreadyLoaded(i, r) == inst[i].status = "ready" /\ inst[i].loaded = r

(* _ensure_loaded: the row decides whether a load is needed. *)
EnsureLoaded(by, p, r) ==
    LET i == Target(p) IN
    /\ RoomForTarget(p)
    /\ \/ AlreadyLoaded(i, r) /\ UNCHANGED <<inst, slot>>
       \/ ~AlreadyLoaded(i, r) /\ LoadInto(by, i, p, r)
    /\ used' = UsedWith(i)

-----------------------------------------------------------------------------
(* The admin's calls on instances.                                          *)

CreateInstance(p) ==
    /\ used < MaxInstances
    /\ used' = used + 1
    /\ inst' = [inst EXCEPT ![used + 1] =
                  [status |-> "offline", profile |-> p, loaded |-> NoRelease]]
    /\ UNCHANGED <<registry, slot, restarts>>

StartInstance(i) ==
    /\ inst[i].status \in {"offline", "stopped"}
    /\ inst' = [inst EXCEPT ![i].status = "idle"]
    /\ UNCHANGED <<registry, slot, used, restarts>>

(* Mutant: stopping an instance leaves its model in memory. *)
StopKeepsModel(i) ==
    /\ Exists(i)
    /\ inst' = [inst EXCEPT ![i] = [status |-> "stopped", profile |-> @.profile,
                                 loaded |-> NoRelease]]
    /\ UNCHANGED <<registry, slot, used, restarts>>

StopInstance(i) ==
    /\ Exists(i)
    /\ slot' = [slot EXCEPT ![i] = NoRelease]
    /\ inst' = [inst EXCEPT ![i] = [status |-> "stopped", profile |-> @.profile,
                                 loaded |-> NoRelease]]
    /\ UNCHANGED <<registry, used, restarts>>

UnloadInstance(i) ==
    /\ Exists(i)
    /\ slot' = [slot EXCEPT ![i] = NoRelease]
    /\ inst' = [inst EXCEPT ![i] = [status |-> "idle", profile |-> @.profile,
                                 loaded |-> NoRelease]]
    /\ UNCHANGED <<registry, used, restarts>>

LoadInstance(i, r) ==
    /\ Exists(i)
    /\ LoadInto("server", i, inst[i].profile, r)
    /\ UNCHANGED <<registry, used, restarts>>

(* _fail_load empties the slot, writes the failure and raises, which undoes   *)
(* what it wrote.  Memory may be short at any time, so any load may be        *)
(* rejected; a load asked for by an assignment ends here as well.             *)
LoadRejected(i) ==
    /\ Exists(i)
    /\ slot' = [slot EXCEPT ![i] = NoRelease]
    /\ UNCHANGED <<registry, inst, used, restarts>>

(* A request that fails once the model is in its slot: the prompt is too long, *)
(* or the database is locked when the row is written.  An instance created for *)
(* the request is undone with the rest, and its id is never used again.        *)
LoadLost(p, r) ==
    /\ LateFailures
    /\ \E i \in Ids :
         /\ i \in OfProfile(p) \/ (OfProfile(p) = {} /\ i = used + 1)
         /\ Loadable("server", i, p, r)
         /\ slot' = [slot EXCEPT ![i] = r]
         /\ used' = UsedWith(i)
    /\ UNCHANGED <<registry, inst, restarts>>

(* With a model in the slot the check rewrites the status from what it       *)
(* measures; with none it records failures and leaves the status as it is.   *)
HealthCheck(i, status) ==
    /\ Exists(i)
    /\ slot[i] # NoRelease
    /\ inst' = [inst EXCEPT ![i].status = status]
    /\ UNCHANGED <<registry, slot, used, restarts>>

Restart ==
    /\ restarts < MaxRestarts
    /\ slot' = [i \in Ids |-> NoRelease]
    /\ restarts' = restarts + 1
    /\ UNCHANGED <<registry, inst, used>>

(* The registry goes its own way: a release is deprecated, retired or rolled  *)
(* back for good; a new manifest or artifact check ends or restores its       *)
(* verification.                                                              *)
RegistryChanges(r, status) ==
    /\ registry[r] # "withdrawn"
    /\ registry' = [registry EXCEPT ![r] = status]
    /\ UNCHANGED <<inst, slot, used, restarts>>

RuntimeNext ==
    \/ \E p \in Profiles : CreateInstance(p)
    \/ \E i \in Ids : StartInstance(i) \/ StopInstance(i) \/ UnloadInstance(i)
    \/ \E i \in Ids, r \in Releases : LoadInstance(i, r)
    \/ \E i \in Ids : LoadRejected(i)
    \/ \E p \in Profiles, r \in Releases : LoadLost(p, r)
    \/ \E i \in Ids, status \in {"ready", "degraded"} : HealthCheck(i, status)
    \/ Restart
    \/ \E r \in Releases, status \in RegistryMoves : RegistryChanges(r, status)

RuntimeSpec == RuntimeInit /\ [][RuntimeNext]_runtimeVars

-----------------------------------------------------------------------------
(* A model in memory is the one its row names, in every order of loads,      *)
(* failures, stops and restarts: no request is answered by a left-over.      *)
LoadedModelsAreRecorded ==
    \A i \in Ids : slot[i] # NoRelease =>
        inst[i].status \in {"ready", "degraded"} /\ inst[i].loaded = slot[i]

(* The process never holds more models than its most generous profile allows, *)
(* whatever fails in between: a failed load gives its place back or keeps it,  *)
(* and the guard of the next load sees it.                                     *)
LoadLimitRespected ==
    \E p \in Profiles : Cardinality({i \in Ids : slot[i] # NoRelease}) <= MaxLoaded[p]

-----------------------------------------------------------------------------
(* What the documents say and the code does not do.                          *)

(* docs/inference_model_loading.md: a failed load sets the instance to failed *)
(* and never leaves it "in a half-loaded, ambiguous state" - an instance that *)
(* says it is ready has the model it names in memory.                         *)
ReadyMeansLoaded ==
    \A i \in Ids : inst[i].status = "ready" => slot[i] = inst[i].loaded

(* inference_runtime_service.py: the guard counts "models loaded on OTHER     *)
(* instances in THIS database only" - every model in memory belongs to an     *)
(* instance that exists, so that somebody can unload it.                      *)
ModelsHaveInstances ==
    \A i \in Ids : slot[i] # NoRelease => Exists(i)

=============================================================================
