SPECIFICATION Spec
CONSTANTS
    Proposals = {p1, p2}
    Targets = {t1, t2}
    NoTarget = NoTarget
    NoProposal = NoProposal
    Fingerprints = {"f", "g"}
    OtherProcesses = FALSE
    MaxEffects = 2
INVARIANTS ReportsAreTrue
PROPERTIES ApprovedAsProposed ActsAsDecided
CHECK_DEADLOCK FALSE
