SPECIFICATION FairSpec
CONSTANTS
  Instances = {i1, i2}
  Homes = {i1}
  Handlers = {h1}
  MaxOps = 2
  MaxFaults = 1
 
 
PROPERTY EventuallySynced
