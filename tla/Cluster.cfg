SPECIFICATION FairSpec
CONSTANTS
  Instances = {i1, i2}
  Limit = 2
  FieldStale = 2
  MemberTTL = 1
  MaxFails = 1
  MaxMoves = 1
  None = None
 
PROPERTY ViewsConverge
PROPERTY CountsConverge
