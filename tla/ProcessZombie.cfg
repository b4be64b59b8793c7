SPECIFICATION Spec
CONSTANTS
  NR_TASKS = 4
  MaxPid = 4
  NR_OPEN = 2
  NR_FILE = 2
  NPipe = 1
  PAGE_SIZE = 2
  MaxCount = 2
  Scenarios <- MCReader
PROPERTY ZombieStays
CHECK_DEADLOCK FALSE
