------------------------- MODULE MCInferenceRuntime -------------------------
(* Small instances of InferenceRuntime for TLC. *)
EXTENDS InferenceRuntime, TLC

CONSTANTS r1, r2, p1, p2

(* p1 has the default limit of one model; p2 allows two. *)
Limits  == p1 :> 1 @@ p2 :> 2
OneEach == [p \in Profiles |-> 1]

Interchangeable == Permutations({r1, r2})
=============================================================================
