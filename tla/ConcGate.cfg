SPECIFICATION MCSpec
CONSTANTS
  Requests = {r1, r2, r3, r4}
  UserMax = 3
  KeyMax = 2
  N = 2
  Views = {0, 1, Stale}
  Stale = Stale
  MaxReloads = 1
  MaxUpserts = 1
  MaxRotates = 1
  None = None
SYMMETRY Symmetric
CONSTRAINT Bounded
INVARIANT CountersExact
INVARIANT KeyCapped
INVARIANT UserCapped
INVARIANT ExactOutsideWindow
