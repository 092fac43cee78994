SPECIFICATION FairSpec
CONSTANTS
  Requests = {r1, r2}
  Admins = {}
  Costs = {2}
  Quota = 3
  NewQuotas = {}
  N = 2
  MaxServed = 3
  MaxReloads = 1
  MaxUpdates = 0
  MaxOther = 1
  MaxErrors = 1
  None = None
PROPERTY GrantWithinQuota
PROPERTY StaleReviewHarmless
PROPERTY DeductionEnds
PROPERTY RebuildEnds
