SPECIFICATION Spec
CONSTANTS
  Instances = {i1}
  None = None
  Users <- LanesUsers
  Rows <- LanesRows
  Owner <- LanesOwner
  Cost <- LanesCost
  Chunks <- LanesChunks
  ChunkOwner <- LanesChunkOwner
  ChunkAmount <- LanesChunkAmount
  StartBalance <- LanesBalance
  K = 2
  Limit = 2
  FetchLimit = 4
  TopUp = 2
  MaxTopUps = 0
  MaxFaults = 1
  MaxStops = 1
INVARIANT Conservation
INVARIANT DebtExplained
INVARIANT FailedNotRetried
PROPERTY RefinesLedger
