SPECIFICATION Spec
CONSTANTS
  MaxRows = 2
  Shards = {1}
  Setups <- NoPoison
  MaxQuota = 0
  MaxFails = 1
INVARIANT CancelHarmless
CHECK_DEADLOCK FALSE
