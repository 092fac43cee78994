SPECIFICATION FairSpec
CONSTANTS
  MaxRows = 3
  Shards = {1, 2}
  Setups <- OnePoison
  MaxQuota = 1
  MaxFails = 1
INVARIANT Kept
 
INVARIANT CloseComplete
 
PROPERTY Stored
PROPERTY CloseEnds
CHECK_DEADLOCK FALSE
