SPECIFICATION Spec
CONSTANTS
  Proc = {p}
  Slot = {s1, s2, s3}
  NInodes = 3
  NBlocks = 2
  a = a
  b = b
  Name = {a, b}
  Path <- MCPath
  Ops = {"creat", "mkdir"}
  MaxLinking = 1
  MaxTogether = 4
  NULL = null
VIEW View
INVARIANT NoDoubleFree
CHECK_DEADLOCK FALSE
