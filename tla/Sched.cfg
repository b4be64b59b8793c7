SPECIFICATION Spec
CONSTANTS
  Task = {a, b, c}
  Lock = {l}
  Tty = {q}
  SigTask = {a}
  Idle = idle
  Signal = {sig}
  Blockable = {sig}
  SIGALRM = sig
  NULL = null
INVARIANTS TypeOK Inv NoLostWakeup
PROPERTIES MonitorSpec
