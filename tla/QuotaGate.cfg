SPECIFICATION Spec
CONSTANTS
  Requests = {r1, r2}
  Admins = {a1}
  Costs = {2}
  Quota = 3
  NewQuotas = {0, 4}
  N = 2
  MaxServed = 3
  MaxReloads = 1
  MaxUpdates = 1
  MaxOther = 0
  MaxErrors = 1
  None = None
SYMMETRY Symmetric
INVARIANT TypeOK
INVARIANT NoDeductionLost
INVARIANT SingleFlight
 
