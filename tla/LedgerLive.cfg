SPECIFICATION FairSpec
CONSTANTS
  Instances = {i1, i2}
  None = None
  Users <- LiveUsers
  Rows <- LiveRows
  Owner <- LiveOwner
  Cost <- LiveCost
  Chunks <- LiveChunks
  ChunkOwner <- LiveChunkOwner
  ChunkAmount <- LiveChunkAmount
  StartBalance <- LiveBalance
  K = 1
  Limit = 1
  FetchLimit = 1
  TopUp = 1
  MaxTopUps = 0
  MaxFaults = 1
  MaxStops = 1
PROPERTY EventuallyBilled
