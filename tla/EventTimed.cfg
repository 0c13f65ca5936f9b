SPECIFICATION EventSpec
CONSTANTS
  Thread = {t1, t2}
  Timed = {t1}
CHECK_DEADLOCK FALSE
INVARIANTS TriggerWakesOne
