SPECIFICATION Spec
CONSTANTS
  Bits = 4
  Node = {0, 1, 2, 3, 4, 5, 6, 7, 8, 9, 10, 11, 12, 13, 14}
  Initial = {0, 1, 2, 3, 4, 5, 6, 7, 8, 9, 10, 11, 12, 13, 14}
  Nobody = 15
  Ids <- OneId
  MaxOpen = 0
  Asker = {0, 5}
  Key = {0, 1, 2, 3, 4, 5, 6, 7, 8, 9, 10, 11, 12, 13, 14, 15}
  LookupTtl = 65535
  DefaultTtl = 65535
  MayCrash = {}
  MayLeave = {}
  MaxLoss = 0
  MaxLate = 0
  MaxRepeat = 0
INVARIANTS LogHops
