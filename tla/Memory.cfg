SPECIFICATION Spec
CONSTANTS
  Task = {t1, t2}
  First = t1
  NPages = 8
  NAddr = 2
  NBacked = 1
  File = {f, g}
  MaxPipes = 1
  NULL = null
SYMMETRY Symmetry
VIEW View
INVARIANTS TypeOK RefCount WritableUnshared ViewIntactUnlessRaced
CHECK_DEADLOCK FALSE
