SPECIFICATION FairSpec
CONSTANTS
  Bits = 2
  Node = {0, 1, 3}
  Initial = {0}
  Nobody = 2
  Ids <- OneId
  MaxOpen = 1
  Asker = {}
  Key = {}
  LookupTtl = 3
  DefaultTtl = 65535
  MayCrash = {}
  MayLeave = {}
  MaxLoss = 0
  MaxLate = 0
  MaxRepeat = 0
INVARIANTS TypeOK LookupHopBound OneOrderedRing
PROPERTIES RingSettles
