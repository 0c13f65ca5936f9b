SPECIFICATION FairSpec
CONSTANTS
  Bits = 2
  Node = {0, 1, 3}
  Initial = {0, 1, 3}
  Nobody = 2
  Ids <- MoreIds
  MaxOpen = 1
  Asker = {}
  Key = {}
  LookupTtl = 3
  DefaultTtl = 65535
  MayCrash = {}
  MayLeave = {}
  MaxLoss = 2
  MaxLate = 0
  MaxRepeat = 0
INVARIANTS Inv
PROPERTIES RingSettles
