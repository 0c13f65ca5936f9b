SPECIFICATION Spec
CONSTANTS
  Bits = 4
  Node = {0, 4, 6, 7, 8}
  Initial = {0, 4, 6, 7, 8}
  Nobody = 1
  Ids <- OneId
  MaxOpen = 0
  Asker = {0}
  Key = {2, 5, 8}
  LookupTtl = 3
  DefaultTtl = 65535
  MayCrash = {}
  MayLeave = {}
  MaxLoss = 0
  MaxLate = 0
  MaxRepeat = 0
INVARIANTS LookupsFind
