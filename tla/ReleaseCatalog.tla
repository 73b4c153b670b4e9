--------------------------- MODULE ReleaseCatalog ---------------------------
(***************************************************************************)
(* What the release registry promises to those who load and assign its     *)
(* releases, whatever evidence is collected and whichever plans are made   *)
(* meanwhile: a release is published once, from a candidate of its family  *)
(* that was cleared at that moment; it keeps that candidate; withdrawing   *)
(* it is final; and a family names a release of its own, if it names one.  *)
(***************************************************************************)
CONSTANTS Candidates, Families, FamilyOf, Releases, Home, NoRelease, NoCandidate

VARIABLES
    cleared,  \* the candidates whose present evidence is approved
    standing, \* per release: unpublished, offered or withdrawn
    origin,   \* per release its candidate
    newest    \* per family the release it names

catalogVars == <<cleared, standing, origin, newest>>

CatalogInit ==
    /\ cleared = {}
    /\ standing = [r \in Releases |-> "unpublished"]
    /\ origin = [r \in Releases |-> NoCandidate]
    /\ newest = [f \in Families |-> NoRelease]

Published(r) == standing[r] # "unpublished"

(* Work on the evidence or the approvals of one candidate. *)
Review(c) ==
    /\ cleared' \in {cleared \cup {c}, cleared \ {c}}
    /\ UNCHANGED <<standing, origin, newest>>

Publish(c, r) ==
    /\ c \in cleared
    /\ Home[r] = FamilyOf[c]
    /\ ~Published(r)
    /\ standing' = [standing EXCEPT ![r] = "offered"]
    /\ origin' = [origin EXCEPT ![r] = c]
    /\ newest' = [newest EXCEPT ![Home[r]] = r]
    /\ UNCHANGED cleared

Withdraw(r) ==
    /\ standing[r] = "offered"
    /\ standing' = [standing EXCEPT ![r] = "withdrawn"]
    /\ UNCHANGED <<cleared, origin, newest>>

RollBack(from, to) ==
    /\ Published(from) /\ Published(to)
    /\ Home[from] = Home[to]
    /\ standing' = [standing EXCEPT ![from] = "withdrawn"]
    /\ newest' = [newest EXCEPT ![Home[to]] = to]
    /\ UNCHANGED <<cleared, origin>>

CatalogNext ==
    \/ \E c \in Candidates : Review(c) \/ \E r \in Releases : Publish(c, r)
    \/ \E r \in Releases : Withdraw(r)
    \/ \E from, to \in Releases : RollBack(from, to)

CatalogSpec == CatalogInit /\ [][CatalogNext]_catalogVars

=============================================================================
