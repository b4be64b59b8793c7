SPECIFICATION Spec
CONSTANTS
  Proc = {p, q}
  Slot = {s1, s2, s3}
  NInodes = 3
  NBlocks = 3
  a = a
  b = b
  Name = {a, b}
  Path <- MCPath
  Ops = {"open", "creat", "mkdir", "rmdir", "unlink", "link"}
  MaxLinking = 1
  MaxTogether = 4
  NULL = null
SYMMETRY Symmetry
VIEW View
CONSTRAINT Followed
INVARIANTS InodeCount UniqueInode FreeClean CleanOnDisk FsckClean
CHECK_DEADLOCK FALSE
