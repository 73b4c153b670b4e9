------------------------- MODULE MCModelAssignments -------------------------
(* Small instances of ModelAssignments for TLC. *)
EXTENDS ModelAssignments, TLC

CONSTANTS r1, r2, p1, p2, a1, a2, s1

OneAssignment  == {a1}
TwoAssignments == {a1, a2}

(* Two scopes that share one instance. *)
AskAndChat    == a1 :> "admin_diagnostic" @@ a2 :> "admin_chat_lab"
CanaryAndAsk  == a1 :> "internal_canary" @@ a2 :> "admin_diagnostic"
OnlyChat      == a1 :> "admin_chat_lab"
OnlyAsk       == a1 :> "admin_diagnostic"
OnlyCanary    == a1 :> "internal_canary"
OnlyPublic    == a1 :> "public_chat"

OneProfile  == [a \in Assignments |-> p1]
TwoProfiles == a1 :> p1 @@ a2 :> p2

(* The default limit of a profile is one model. *)
OneEach == [p \in Profiles |-> 1]

FitAll == [scope \in Scopes |-> Releases]

Interchangeable == Permutations({r1, r2})
=============================================================================
