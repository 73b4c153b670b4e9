--------------------------- MODULE MCModelReleases ---------------------------
(* An instance of ModelReleases for the model checker. *)
EXTENDS ModelReleases

OneFamily == [c \in Candidates |-> CHOOSE f \in Families : TRUE]
=============================================================================
