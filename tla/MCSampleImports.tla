--------------------------- MODULE MCSampleImports ---------------------------
(* An instance of SampleImports for the model checker. *)
EXTENDS SampleImports

(* The gate may change without the fingerprint, and the other way round. *)
ThreeCases == {[print |-> "p", eligible |-> TRUE], [print |-> "p", eligible |-> FALSE],
               [print |-> "q", eligible |-> TRUE]}
=============================================================================
