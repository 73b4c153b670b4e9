SPECIFICATION Spec
CONSTANTS
    Names = {"a"}
    NoPayload = NoPayload
    Prints = {"p", "q"}
    Cases <- ThreeCases
    Sizes = {1, 2}
    Limits = {2}
    Reopen = FALSE
    CheckedPage = 1
    MaxFiles = 2
    MaxRecords = 1
    MaxIssues = 1
INVARIANTS UnsafeIsNeverParsed DeletedIsEmpty FinalReportStands
PROPERTIES BytesWithinApproval EligibleWasScreened
CHECK_DEADLOCK FALSE
