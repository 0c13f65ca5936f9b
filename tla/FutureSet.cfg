SPECIFICATION FairSpec
CONSTANTS
  Setter = {s1, s2}
  Getter = {g1, g2}
  Listener = {l1, l2}
  Nothing = Nothing
CHECK_DEADLOCK FALSE
INVARIANTS Inv NobodySleeps
PROPERTIES SetOnce RegisteredRun
