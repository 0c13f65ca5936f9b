SPECIFICATION FairSpec
CONSTANTS
  Bits = 4
  Node = {0, 4, 6, 7, 8}
  Initial = {0, 4, 6, 7, 8}
  Nobody = 1
  Ids <- LateId
  MaxOpen = 0
  Asker = {0}
  Key = {2, 5, 8}
  LookupTtl = 3
  DefaultTtl = 65535
  MayCrash = {}
  MayLeave = {}
  MaxLoss = 1
  MaxLate = 1
  MaxRepeat = 0
PROPERTIES LookupsOnce
