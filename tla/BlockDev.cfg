SPECIFICATION Spec
CONSTANTS
  Proc = {p1, p2}
  NR_REQUEST = 3
  Workload <- LoadsAll
  Buf <- MCBuf
  Loads <- MCLoads
  Loc <- MCLoc
  NR_HD = 1
  HdSect = 2
  HdHead = 2
  HdStart <- MCHdStart
  HdSize <- MCHdSize
  MAX_ERRORS = 3
  Drive = {0, 1}
  FdType <- MCFdType
  FD_MAX_ERRORS = 1
  MON = 3
  MOFF = 4
  BIG = 6
  RdSize = 2
INVARIANTS LocksServed TransferRight SleeperWoken HandlerHasRequest MotorReady NeverEarly NoStarvation
PROPERTIES GiveUp
SYMMETRY Perms
CHECK_DEADLOCK FALSE
