----------------------- MODULE InferenceRuntime_proofs -----------------------
(***************************************************************************)
(* Theorems about InferenceRuntime, for any releases, profiles, limits and *)
(* bounds:                                                                 *)
(*                                                                         *)
(*   RuntimeTyped    rows and slots keep their types                       *)
(*   LimitHeld       the models in memory stay within a profile's limit    *)
(*   SlotsRecorded   where no request fails after its load, a model in     *)
(*                   memory is the one its row names                       *)
(*                                                                         *)
(* Every operation but a restart writes at most one row and one slot, of   *)
(* the same instance.  The proofs classify the operations once             *)
(* (EveryCallWritesOne) and argue about the two writes.                    *)
(***************************************************************************)
EXTENDS InferenceRuntime, FiniteSetTheorems, TLAPS

(* A step that leaves instance i with this row and this slot, an id given out *)
(* before or now.                                                             *)
Written(i, row, m) ==
    /\ i \in Ids
    /\ used' \in used .. MaxInstances /\ i <= used'
    /\ inst' = [inst EXCEPT ![i] = row]
    /\ slot' = [slot EXCEPT ![i] = m]

(* A row may stay as it is, or be one of an instance that exists. *)
RowAllowed(i, row) ==
    row = inst[i] \/ (row \in InstanceRow /\ row.status # "absent" /\ row.profile \in Profiles)

SlotRecorded(row, m) ==
    m # NoRelease => row.status \in {"ready", "degraded"} /\ row.loaded = m

(* Rows and slots typed; ids not given out have no row. *)
MemoryTyped ==
    /\ used \in 0 .. MaxInstances
    /\ \A i \in Ids : Exists(i) => i <= used
    /\ inst \in [Ids -> InstanceRow]
    /\ \A i \in Ids : inst[i].status = "absent" <=> inst[i].profile = NoProfile
    /\ slot \in [Ids -> MaybeRelease]

LEMMA RowsAreRecords ==
    ASSUME MemoryTyped, NEW i \in Ids
    PROVE  /\ inst[i] \in InstanceRow
           /\ inst[i].status \in InstanceStatuses
           /\ inst[i].profile \in Profiles \cup {NoProfile}
           /\ inst[i].loaded \in MaybeRelease
           /\ slot[i] \in MaybeRelease
           /\ Exists(i) => inst[i].profile \in Profiles /\ i \in 0 .. used
           /\ inst = [inst EXCEPT ![i] = inst[i]]
           /\ slot = [slot EXCEPT ![i] = slot[i]]
  BY InstanceAssumption DEF MemoryTyped, InstanceRow, Exists, Ids

(* Such a write keeps the types, and an instance that exists. *)
LEMMA WrittenKeepsTypes ==
    ASSUME MemoryTyped, NEW i, NEW row, NEW m \in MaybeRelease,
           Written(i, row, m), RowAllowed(i, row)
    PROVE  MemoryTyped' /\ \A k \in Ids : Exists(k) => Exists(k)'
  <1>1. i \in Ids /\ row \in InstanceRow
    BY RowsAreRecords DEF Written, RowAllowed
  <1>2. /\ inst' \in [Ids -> InstanceRow]
        /\ slot' \in [Ids -> MaybeRelease]
        /\ used' \in 0 .. MaxInstances
    BY <1>1, InstanceAssumption DEF MemoryTyped, Written
  <1>3. ASSUME NEW k \in Ids
        PROVE  /\ inst'[k].status = "absent" <=> inst'[k].profile = NoProfile
               /\ Exists(k) => Exists(k)'
               /\ Exists(k)' => k <= used'
    <2>1. CASE k = i
      <3>1. inst'[k] = row
        BY <2>1 DEF MemoryTyped, Written
      <3> QED  BY <2>1, <3>1, NoProfileAssumption
               DEF MemoryTyped, RowAllowed, Exists, Written
    <2>2. CASE k # i
      <3>1. inst'[k] = inst[k]
        BY <2>2 DEF MemoryTyped, Written
      <3>2. Exists(k) => k <= used'
        BY InstanceAssumption DEF MemoryTyped, Written, Ids
      <3> QED  BY <3>1, <3>2 DEF MemoryTyped, Exists
    <2> QED  BY <2>1, <2>2
  <1> QED  BY <1>2, <1>3 DEF MemoryTyped, Exists

(* When the slot written agrees with the row written, every slot still does. *)
LEMMA WrittenKeepsRecords ==
    ASSUME MemoryTyped, LoadedModelsAreRecorded, NEW i, NEW row, NEW m,
           Written(i, row, m), SlotRecorded(row, m)
    PROVE  LoadedModelsAreRecorded'
  <1> SUFFICES ASSUME NEW k \in Ids, slot'[k] # NoRelease
               PROVE  inst'[k].status \in {"ready", "degraded"} /\ inst'[k].loaded = slot'[k]
    BY DEF LoadedModelsAreRecorded
  <1>1. CASE k = i
    <2>1. inst'[k] = row /\ slot'[k] = m
      BY <1>1 DEF MemoryTyped, Written
    <2> QED  BY <2>1 DEF SlotRecorded
  <1>2. CASE k # i
    <2>1. inst'[k] = inst[k] /\ slot'[k] = slot[k]
      BY <1>2 DEF MemoryTyped, Written
    <2> QED  BY <2>1 DEF LoadedModelsAreRecorded
  <1> QED  BY <1>1, <1>2

-----------------------------------------------------------------------------
(* What the operations write.                                                *)

(* A load, for an instance that exists or is created for it. *)
LEMMA LoadWritesOne ==
    ASSUME MemoryTyped, NEW by, NEW i \in Ids, NEW p \in Profiles,
           NEW r \in MaybeRelease, LoadInto(by, i, p, r),
           used' \in used .. MaxInstances, i <= used'
    PROVE  \E row \in InstanceRow, m \in MaybeRelease :
             /\ Written(i, row, m)
             /\ RowAllowed(i, row)
             /\ row.status # "absent"
             /\ by = "server" => SlotRecorded(row, m)
  <1> DEFINE row == [status |-> "ready", profile |-> p, loaded |-> r]
             m == IF by = "server" THEN r ELSE slot[i]
  <1>1. row \in InstanceRow /\ m \in MaybeRelease
    BY RowsAreRecords DEF InstanceRow, InstanceStatuses
  <1>2. Written(i, row, m)
    BY RowsAreRecords DEF LoadInto, Put, Written
  <1>3. RowAllowed(i, row) /\ row.status # "absent" /\ (by = "server" => SlotRecorded(row, m))
    BY <1>1 DEF RowAllowed, SlotRecorded
  <1> QED  BY <1>1, <1>2, <1>3

(* An admin's call on an instance. *)
CallOnInstance ==
    \/ \E p \in Profiles : CreateInstance(p)
    \/ \E i \in Ids : StartInstance(i) \/ StopInstance(i) \/ UnloadInstance(i)
    \/ \E i \in Ids, r \in Releases : LoadInstance(i, r)
    \/ \E i \in Ids : LoadRejected(i)
    \/ \E i \in Ids, status \in {"ready", "degraded"} : HealthCheck(i, status)

(* An instance that exists, its row with another status or without its model. *)
LEMMA RowChanged ==
    ASSUME MemoryTyped, NEW i \in Ids, Exists(i), NEW status \in InstanceStatuses \ {"absent"}
    PROVE  LET row == [status |-> status, profile |-> inst[i].profile, loaded |-> NoRelease]
               kept == [inst[i] EXCEPT !.status = status]
           IN  /\ row \in InstanceRow /\ RowAllowed(i, row)
               /\ kept \in InstanceRow /\ RowAllowed(i, kept)
               /\ kept.status = status /\ kept.loaded = inst[i].loaded
  <1>1. inst[i] \in InstanceRow /\ inst[i].profile \in Profiles
    BY RowsAreRecords
  <1> QED  BY <1>1 DEF InstanceRow, RowAllowed, MaybeRelease

LEMMA EveryCallWritesOne ==
    ASSUME MemoryTyped, CallOnInstance
    PROVE  \E i \in Ids, row \in InstanceRow, m \in MaybeRelease :
             /\ Written(i, row, m)
             /\ RowAllowed(i, row)
             /\ LoadedModelsAreRecorded => SlotRecorded(row, m)
  <1>1. NoRelease \in MaybeRelease /\ Releases \subseteq MaybeRelease
    BY DEF MaybeRelease
  <1>0. used' = used => \A i \in Ids : Exists(i) => used' \in used .. MaxInstances /\ i <= used'
    BY InstanceAssumption DEF MemoryTyped
  <1>2. CASE \E p \in Profiles : CreateInstance(p)
    <2>1. PICK p \in Profiles : CreateInstance(p)
      BY <1>2
    <2> DEFINE i == used + 1
               row == [status |-> "offline", profile |-> p, loaded |-> NoRelease]
    <2>2. i \in Ids /\ ~ Exists(i)
      BY <2>1, InstanceAssumption DEF CreateInstance, Ids, MemoryTyped
    <2>3. row \in InstanceRow /\ RowAllowed(i, row)
      BY <1>1 DEF InstanceRow, InstanceStatuses, RowAllowed
    <2>4. Written(i, row, slot[i]) /\ slot[i] \in MaybeRelease
      BY <2>1, <2>2, RowsAreRecords, InstanceAssumption DEF CreateInstance, Written, MemoryTyped
    <2>5. LoadedModelsAreRecorded => SlotRecorded(row, slot[i])
      BY <2>2 DEF LoadedModelsAreRecorded, SlotRecorded, Exists
    <2> QED  BY <2>2, <2>3, <2>4, <2>5
  <1>3. CASE \E i \in Ids : StartInstance(i)
    <2>1. PICK i \in Ids : StartInstance(i)
      BY <1>3
    <2>2. Exists(i)
      BY <2>1 DEF StartInstance, Exists
    <2> DEFINE row == [inst[i] EXCEPT !.status = "idle"]
    <2>3. row \in InstanceRow /\ RowAllowed(i, row)
      BY <2>2, RowChanged DEF InstanceStatuses
    <2>4. Written(i, row, slot[i]) /\ slot[i] \in MaybeRelease
      BY <1>0, <2>1, <2>2, RowsAreRecords DEF StartInstance, Written
    <2>5. LoadedModelsAreRecorded => SlotRecorded(row, slot[i])
      BY <2>1 DEF StartInstance, LoadedModelsAreRecorded, SlotRecorded
    <2> QED  BY <2>3, <2>4, <2>5
  <1>4. CASE \E i \in Ids : StopInstance(i) \/ UnloadInstance(i)
    <2>1. PICK i \in Ids, status \in {"stopped", "idle"} :
            /\ Exists(i)
            /\ slot' = [slot EXCEPT ![i] = NoRelease]
            /\ inst' = [inst EXCEPT ![i] = [status |-> status, profile |-> @.profile,
                                           loaded |-> NoRelease]]
            /\ used' = used
      BY <1>4 DEF StopInstance, UnloadInstance
    <2> DEFINE row == [status |-> status, profile |-> inst[i].profile, loaded |-> NoRelease]
    <2>2. row \in InstanceRow /\ RowAllowed(i, row)
      BY <2>1, RowChanged DEF InstanceStatuses
    <2>3. Written(i, row, NoRelease)
      BY <1>0, <2>1 DEF Written
    <2> QED  BY <1>1, <2>2, <2>3 DEF SlotRecorded
  <1>5. CASE \E i \in Ids, r \in Releases : LoadInstance(i, r)
    <2>1. PICK i \in Ids, r \in Releases : LoadInstance(i, r)
      BY <1>5
    <2>2. inst[i].profile \in Profiles /\ used' \in used .. MaxInstances /\ i <= used'
      BY <1>0, <2>1, RowsAreRecords DEF LoadInstance
    <2>3. LoadInto("server", i, inst[i].profile, r)
      BY <2>1 DEF LoadInstance
    <2> QED  BY <1>1, <2>2, <2>3, LoadWritesOne
  <1>6. CASE \E i \in Ids : LoadRejected(i)
    <2>1. PICK i \in Ids : LoadRejected(i)
      BY <1>6
    <2>2. Written(i, inst[i], NoRelease) /\ inst[i] \in InstanceRow
      BY <1>0, <2>1, RowsAreRecords DEF LoadRejected, Written
    <2> QED  BY <1>1, <2>2 DEF RowAllowed, SlotRecorded
  <1>7. CASE \E i \in Ids, status \in {"ready", "degraded"} : HealthCheck(i, status)
    <2>1. PICK i \in Ids, status \in {"ready", "degraded"} : HealthCheck(i, status)
      BY <1>7
    <2> DEFINE row == [inst[i] EXCEPT !.status = status]
    <2>2. /\ row \in InstanceRow /\ RowAllowed(i, row)
          /\ row.status = status /\ row.loaded = inst[i].loaded
      BY <2>1, RowChanged DEF InstanceStatuses, HealthCheck
    <2> HIDE DEF row
    <2>3. Written(i, row, slot[i]) /\ slot[i] \in MaybeRelease
      <3>1. inst' = [inst EXCEPT ![i] = row]
        BY <2>1 DEF HealthCheck, row
      <3> QED  BY <1>0, <2>1, <3>1, RowsAreRecords DEF HealthCheck, Written
    <2>4. LoadedModelsAreRecorded => SlotRecorded(row, slot[i])
      BY <2>2 DEF LoadedModelsAreRecorded, SlotRecorded
    <2> QED  BY <2>2, <2>3, <2>4
  <1> QED  BY <1>2, <1>3, <1>4, <1>5, <1>6, <1>7 DEF CallOnInstance

(* The steps that are not one write: a lost load touches a slot only, a       *)
(* restart empties all of them, the registry touches neither.                 *)
LEMMA OtherSteps ==
    ASSUME MemoryTyped,
           \/ \E p \in Profiles, r \in Releases : LoadLost(p, r)
           \/ Restart
           \/ \E r \in Releases, status \in RegistryMoves : RegistryChanges(r, status)
    PROVE  /\ inst' = inst
           /\ used' \in used .. MaxInstances
           /\ slot' \in [Ids -> MaybeRelease]
           /\ ~ LateFailures => \A i \in Ids : slot'[i] \in {slot[i], NoRelease}
  <1>1. CASE \E p \in Profiles, r \in Releases : LoadLost(p, r)
    <2>1. PICK p \in Profiles, r \in Releases : LoadLost(p, r)
      BY <1>1
    <2>2. PICK i \in Ids : slot' = [slot EXCEPT ![i] = r] /\ used' = UsedWith(i)
      BY <2>1 DEF LoadLost
    <2>3. used' \in used .. MaxInstances
      BY <2>2, InstanceAssumption DEF UsedWith, Ids, MemoryTyped
    <2> QED  BY <2>1, <2>2, <2>3 DEF LoadLost, MemoryTyped, MaybeRelease
  <1>2. CASE Restart
    BY <1>2, InstanceAssumption DEF Restart, MemoryTyped, MaybeRelease
  <1>3. CASE \E r \in Releases, status \in RegistryMoves : RegistryChanges(r, status)
    BY <1>3, InstanceAssumption DEF RegistryChanges, MemoryTyped
  <1> QED  BY <1>1, <1>2, <1>3

LEMMA RuntimeSteps ==
    RuntimeNext <=>
      \/ CallOnInstance
      \/ \E p \in Profiles, r \in Releases : LoadLost(p, r)
      \/ Restart
      \/ \E r \in Releases, status \in RegistryMoves : RegistryChanges(r, status)
  BY DEF RuntimeNext, CallOnInstance

LEMMA RuntimeKeepsMemoryTyped ==
    ASSUME MemoryTyped, RuntimeNext
    PROVE  MemoryTyped' /\ \A k \in Ids : Exists(k) => Exists(k)'
  <1>1. CASE CallOnInstance
    BY <1>1, EveryCallWritesOne, WrittenKeepsTypes
  <1>2. CASE ~ CallOnInstance
    <2>1. /\ inst' = inst
          /\ used' \in used .. MaxInstances
          /\ slot' \in [Ids -> MaybeRelease]
      BY <1>2, RuntimeSteps, OtherSteps
    <2> QED  BY <2>1, InstanceAssumption DEF MemoryTyped, Exists, Ids
  <1> QED  BY <1>1, <1>2

LEMMA RuntimeKeepsRecords ==
    ASSUME MemoryTyped, LoadedModelsAreRecorded, RuntimeNext, ~ LateFailures
    PROVE  LoadedModelsAreRecorded'
  <1>1. CASE CallOnInstance
    BY <1>1, EveryCallWritesOne, WrittenKeepsRecords
  <1>2. CASE ~ CallOnInstance
    <2>1. inst' = inst /\ \A i \in Ids : slot'[i] \in {slot[i], NoRelease}
      BY <1>2, RuntimeSteps, OtherSteps
    <2> QED  BY <2>1 DEF LoadedModelsAreRecorded
  <1> QED  BY <1>1, <1>2

LEMMA RegistryKeepsType ==
    ASSUME registry \in [Releases -> RegistryStatuses], restarts \in Nat, RuntimeNext
    PROVE  registry' \in [Releases -> RegistryStatuses] /\ restarts' \in Nat
  <1>1. CASE \E r \in Releases, status \in RegistryMoves : RegistryChanges(r, status)
    BY <1>1, RegistryAssumption DEF RegistryChanges, RegistryStatuses
  <1>2. CASE Restart
    BY <1>2 DEF Restart
  <1>3. CASE UNCHANGED <<registry, restarts>>
    BY <1>3
  <1> QED
    BY <1>1, <1>2, <1>3
       DEF RuntimeNext, CreateInstance, StartInstance, StopInstance, UnloadInstance,
           LoadInstance, LoadRejected, LoadLost, HealthCheck

LEMMA RuntimeStartsTyped ==
    ASSUME RuntimeInit
    PROVE  MemoryTyped /\ RuntimeTypeOK /\ LoadedModelsAreRecorded
  BY InstanceAssumption
     DEF RuntimeInit, MemoryTyped, RuntimeTypeOK, LoadedModelsAreRecorded, RegistryStatuses,
         Exists, InstanceRow, InstanceStatuses, MaybeRelease

-----------------------------------------------------------------------------
(* The theorems.                                                             *)

TypedInv == MemoryTyped /\ registry \in [Releases -> RegistryStatuses] /\ restarts \in Nat

LEMMA TypedInvHolds == RuntimeSpec => []TypedInv
  <1>1. RuntimeInit => TypedInv
    BY RuntimeStartsTyped DEF TypedInv, RuntimeTypeOK
  <1>2. TypedInv /\ [RuntimeNext]_runtimeVars => TypedInv'
    <2>1. CASE RuntimeNext
      BY <2>1, RuntimeKeepsMemoryTyped, RegistryKeepsType DEF TypedInv
    <2>2. CASE UNCHANGED runtimeVars
      BY <2>2 DEF TypedInv, MemoryTyped, runtimeVars, Exists
    <2> QED  BY <2>1, <2>2
  <1> QED  BY <1>1, <1>2, PTL DEF RuntimeSpec

(* Rows and slots keep their types: an instance has a profile exactly when it *)
(* has a row, and only statuses the code writes occur                         *)
(* (inference_runtime_service.py, create_instance to run_health_check).       *)
THEOREM RuntimeTyped == RuntimeSpec => []RuntimeTypeOK
  <1>1. TypedInv => RuntimeTypeOK
    BY DEF TypedInv, MemoryTyped, RuntimeTypeOK
  <1> QED  BY <1>1, TypedInvHolds, PTL

(* Where no request fails between its load and its end, every model in memory *)
(* is the one its row names, whatever is loaded, rejected, stopped, checked   *)
(* or restarted in whatever order (_LOADED_MODELS and the rows of             *)
(* inference_runtime_instances).                                              *)
THEOREM SlotsRecorded ==
    ASSUME LateFailures = FALSE
    PROVE  RuntimeSpec => []LoadedModelsAreRecorded
  <1>1. RuntimeInit => LoadedModelsAreRecorded
    BY RuntimeStartsTyped
  <1>2. TypedInv /\ LoadedModelsAreRecorded /\ [RuntimeNext]_runtimeVars
          => LoadedModelsAreRecorded'
    <2>1. CASE RuntimeNext
      BY <2>1, RuntimeKeepsRecords DEF TypedInv
    <2>2. CASE UNCHANGED runtimeVars
      BY <2>2 DEF LoadedModelsAreRecorded, runtimeVars
    <2> QED  BY <2>1, <2>2
  <1> QED  BY <1>1, <1>2, TypedInvHolds, PTL DEF RuntimeSpec

-----------------------------------------------------------------------------
(* The limit.                                                                *)

Occupied == {k \in Ids : slot[k] # NoRelease}

LEMMA OccupiedIsFinite ==
    /\ IsFiniteSet(Occupied)
    /\ IsFiniteSet(Occupied')
    /\ Cardinality(Occupied) \in Nat
    /\ Cardinality(Occupied') \in Nat
  <1>1. IsFiniteSet(Ids)
    BY InstanceAssumption, FS_Interval DEF Ids
  <1>2. Occupied \subseteq Ids /\ Occupied' \subseteq Ids
    BY DEF Occupied, Ids
  <1> QED  BY <1>1, <1>2, FS_Subset, FS_CardinalityType

(* A slot is filled only after the guard counted the others. *)
LEMMA FilledUnderTheLimit ==
    ASSUME MemoryTyped, NEW i \in Ids, NEW p \in Profiles, RoomToLoad("server", i, p),
           NEW r, slot' = [slot EXCEPT ![i] = r]
    PROVE  Cardinality(Occupied') <= MaxLoaded[p]
  <1> DEFINE others == {k \in Ids \ {i} : slot[k] # NoRelease}
  <1>1. Cardinality(others) < MaxLoaded[p]
    BY DEF RoomToLoad, Holds
  <1>2. IsFiniteSet(others) /\ i \notin others
    BY OccupiedIsFinite, FS_Subset DEF Occupied
  <1>3. Cardinality(others) \in Nat /\ MaxLoaded[p] \in Nat
    BY <1>2, FS_CardinalityType, LimitAssumption
  <1>4. IsFiniteSet(others \cup {i}) /\ Cardinality(others \cup {i}) = Cardinality(others) + 1
    BY <1>2, FS_AddElement
  <1>5. Occupied' \subseteq others \cup {i}
    BY DEF Occupied, MemoryTyped, Ids
  <1>6. Cardinality(Occupied') <= Cardinality(others \cup {i})
    BY <1>4, <1>5, FS_Subset
  <1> QED  BY <1>1, <1>3, <1>4, <1>6, OccupiedIsFinite

(* Every step fills one slot under the limit, or fills none. *)
LEMMA SlotsOnlyFilledByLoads ==
    ASSUME MemoryTyped, RuntimeNext
    PROVE  \/ Occupied' \subseteq Occupied
           \/ \E i \in Ids, p \in Profiles, r \in Releases :
                RoomToLoad("server", i, p) /\ slot' = [slot EXCEPT ![i] = r]
  <1>1. CASE \E i \in Ids, r \in Releases : LoadInstance(i, r)
    <2>1. PICK i \in Ids, r \in Releases : LoadInstance(i, r)
      BY <1>1
    <2>2. inst[i].profile \in Profiles
      BY <2>1, RowsAreRecords DEF LoadInstance
    <2> QED  BY <2>1, <2>2 DEF LoadInstance, LoadInto, Loadable, Put
  <1>2. CASE \E p \in Profiles, r \in Releases : LoadLost(p, r)
    BY <1>2 DEF LoadLost, Loadable
  <1>3. CASE slot' = slot
    BY <1>3 DEF Occupied, Ids
  <1>4. CASE \E i \in Ids : slot' = [slot EXCEPT ![i] = NoRelease]
    BY <1>4 DEF Occupied, Ids, MemoryTyped
  <1>5. CASE slot' = [i \in Ids |-> NoRelease]
    BY <1>5 DEF Occupied, Ids
  <1> QED
    BY <1>1, <1>2, <1>3, <1>4, <1>5
       DEF RuntimeNext, CreateInstance, StartInstance, StopInstance, UnloadInstance,
           LoadRejected, HealthCheck, Restart, RegistryChanges

(* The models the process holds stay within the limit of one of its profiles, *)
(* through rejected and lost loads, undone instances and restarts             *)
(* (load_instance_using_connection, the resource guard).                      *)
THEOREM LimitHeld ==
    ASSUME Profiles # {}
    PROVE  RuntimeSpec => []LoadLimitRespected
  <1>1. RuntimeInit => LoadLimitRespected
    <2> SUFFICES ASSUME RuntimeInit PROVE LoadLimitRespected
      OBVIOUS
    <2>1. Occupied = {}
      BY DEF RuntimeInit, Occupied
    <2>2. PICK p \in Profiles : MaxLoaded[p] \in Nat
      BY LimitAssumption
    <2> QED  BY <2>1, <2>2, FS_EmptySet DEF LoadLimitRespected, Occupied
  <1>2. TypedInv /\ LoadLimitRespected /\ [RuntimeNext]_runtimeVars => LoadLimitRespected'
    <2> SUFFICES ASSUME TypedInv, LoadLimitRespected, [RuntimeNext]_runtimeVars
                 PROVE  \E p \in Profiles : Cardinality(Occupied') <= MaxLoaded[p]
      BY DEF LoadLimitRespected, Occupied
    <2>1. CASE Occupied' \subseteq Occupied
      <3>1. PICK p \in Profiles : Cardinality(Occupied) <= MaxLoaded[p]
        BY DEF LoadLimitRespected, Occupied
      <3>2. Cardinality(Occupied') <= Cardinality(Occupied)
        BY <2>1, OccupiedIsFinite, FS_Subset
      <3>3. MaxLoaded[p] \in Nat
        BY LimitAssumption
      <3> QED  BY <3>1, <3>2, <3>3, OccupiedIsFinite
    <2>2. CASE \E i \in Ids, p \in Profiles, r \in Releases :
                 RoomToLoad("server", i, p) /\ slot' = [slot EXCEPT ![i] = r]
      BY <2>2, FilledUnderTheLimit DEF TypedInv
    <2>3. CASE UNCHANGED runtimeVars
      BY <2>1, <2>3 DEF runtimeVars, Occupied, Ids
    <2> QED  BY <2>1, <2>2, <2>3, SlotsOnlyFilledByLoads DEF TypedInv
  <1> QED  BY <1>1, <1>2, TypedInvHolds, PTL DEF RuntimeSpec

=============================================================================
