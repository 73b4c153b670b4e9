SPECIFICATION Spec
CONSTANTS
    Families = {f1}
    Candidates = {c1}
    FamilyOf <- OneFamily
    Versions = {"1.0.0", "1.1.0"}
    NoRelease = NoRelease
    NoCandidate = NoCandidate
    Roles = {"release", "technical"}
    RequiredRoles = {"release"}
    AllowWarnings = TRUE
    Plans = {p1, p2}
    Evaluations = {"passed", "blocked"}
    Findings = {"verified", "mismatched"}
    CardVerdicts = {"valid"}
    MaxEdits = 7
    MaxApprovals = 2
INVARIANTS StatusFollowsEvidence RollbackStaysInFamily
PROPERTIES ReleasedAsReviewed CatalogIsKept
CHECK_DEADLOCK FALSE
