SPECIFICATION FairSpec
CONSTANTS
  Bits = 2
  Node = {0, 1, 2}
  Initial = {0, 1, 2}
  Nobody = 3
  Ids <- MoreIds
  MaxOpen = 1
  Asker = {}
  Key = {}
  LookupTtl = 3
  DefaultTtl = 65535
  MayCrash = {1}
  MayLeave = {1}
  MaxLoss = 0
  MaxLate = 0
  MaxRepeat = 0
INVARIANTS OnlyTheDeadAreSilent
PROPERTIES RingSettles
