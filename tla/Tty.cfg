SPECIFICATION Spec
CONSTANTS
  t1 = t1
  t2 = t2
  Task = {t1, t2}
  NoTask = NoTask
  TTY_BUF_SIZE = 4
  LOW = 2
  PART = 1
  STARTUP = 1
  Char <- MCChar
  Keys <- MCKeys
  Received = {"a"}
  NEST = 2
  Scenarios <- MCScenarios
CHECK_DEADLOCK FALSE
INVARIANTS LinesCounted OutputOnce SleeperWoken NoStrayAlarm
