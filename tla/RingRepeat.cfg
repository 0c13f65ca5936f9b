SPECIFICATION FairSpec
CONSTANTS
  Bits = 2
  Node = {0, 2}
  Initial = {0, 2}
  Nobody = 1
  Ids <- MoreIds
  MaxOpen = 2
  Asker = {}
  Key = {}
  LookupTtl = 3
  DefaultTtl = 65535
  MayCrash = {}
  MayLeave = {}
  MaxLoss = 0
  MaxLate = 0
  MaxRepeat = 1
INVARIANTS Inv
PROPERTIES RingSettles
