SPECIFICATION Spec
CONSTANTS
  Examples = {e1, e2}
  Records = {d1, d2}
  Segments = {s1}
  Promotions = {p1, p2}
  Requests = {q1}
  NoPromotion = NoPromotion
  NoRequest = NoRequest
  MaxTexts = 1
  MaxApprovals = 1
  MaxJobs = 2
  VersionOf <- Versions
SYMMETRY Interchangeable
INVARIANT SharedOnlyByReplay AcceptedHasModel
PROPERTY BuildsReviewedTexts DecisionsAreFinal ModelsAreReviewed
ACTION_CONSTRAINT Explored
CHECK_DEADLOCK FALSE
