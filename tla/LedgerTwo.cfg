SPECIFICATION Spec
CONSTANTS
  Instances = {i1, i2}
  None = None
  Users <- TwoUsers
  Rows <- TwoRows
  Owner <- TwoOwner
  Cost <- TwoCost
  Chunks <- TwoChunks
  ChunkOwner <- TwoChunkOwner
  ChunkAmount <- TwoChunkAmount
  StartBalance <- TwoBalance
  K = 1
  Limit = 1
  FetchLimit = 3
  TopUp = 1
  MaxTopUps = 1
  MaxFaults = 1
  MaxStops = 0
SYMMETRY Symmetric
INVARIANT TypeOK
INVARIANT ChargedOnce
INVARIANT Conservation
INVARIANT DebtExplained
INVARIANT SingleConsumer
PROPERTY RefinesLedger
