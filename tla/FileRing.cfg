SPECIFICATION FairSpec
CONSTANTS
  Bits = 3
  Node = {1, 4, 6}
  User = {1, 4}
  File <- ThreeFiles
  Nothing = Nothing
  MaxCommands = 3
  MaxLost = 1
CHECK_DEADLOCK FALSE
INVARIANTS Placed CopiesFollow
PROPERTIES CopiesArrive
