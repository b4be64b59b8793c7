SPECIFICATION FairSpec
CONSTANTS
  Task = {a, b}
  Lock = {}
  Tty = {q}
  SigTask = {a}
  Idle = idle
  Signal = {sig}
  Blockable = {sig}
  SIGALRM = sig
  NULL = null

PROPERTIES SignalledReaderReturns
