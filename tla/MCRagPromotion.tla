--------------------------- MODULE MCRagPromotion ---------------------------
(* An instance of RagPromotion for the model checker. *)
EXTENDS RagPromotion

CONSTANTS s1, s2, r1, r2

(* Two spaces, so that public chat may move from one to the other. *)
TwoSpaces == [r \in Requests |-> IF r = r1 THEN s1 ELSE s2]

(* Two candidates can be built in the first, one in the second. *)
UpToTwo == [r \in Requests |-> IF r = r1 THEN 2 ELSE 1]
=============================================================================
