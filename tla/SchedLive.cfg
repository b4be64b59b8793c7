SPECIFICATION FairSpec
CONSTANTS
  Task = {a, b, c}
  Lock = {l}
  Tty = {q}
  SigTask = {}
  Idle = idle
  Signal = {sig}
  Blockable = {sig}
  SIGALRM = sig
  NULL = null

PROPERTIES SleeperWakes
