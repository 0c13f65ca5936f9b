SPECIFICATION StaleSpec
CONSTANTS
  Bits = 3
  Node = {0, 3, 5}
  Initial = {0, 3, 5}
  Nobody = 1
  Ids <- OneId
  MaxOpen = 0
  Asker = {3}
  Key = {0, 1, 2, 3, 4, 5, 6, 7}
  LookupTtl = 3
  DefaultTtl = 65535
  MayCrash = {}
  MayLeave = {}
  MaxLoss = 0
  MaxLate = 0
  MaxRepeat = 0
PROPERTIES LookupsExact
