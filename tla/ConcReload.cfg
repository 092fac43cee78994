SPECIFICATION MCSpec
CONSTANTS
  Requests = {r1}
  UserMax = 3
  KeyMax = 2
  N = 2
  Views = {0, 1, Stale}
  Stale = Stale
  MaxReloads = 1
  MaxUpserts = 0
  MaxRotates = 0
  None = None
INVARIANT IdleMeansZero
