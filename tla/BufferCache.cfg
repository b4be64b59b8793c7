SPECIFICATION Spec
CONSTANTS
  p = p
  q = q
  r = r
  Proc <- MCProc
  NR_BUFFERS = 2
  NR_REQUEST = 2
  k1 = k1
  k2 = k2
  k3 = k3
  Block <- MCBlock
  DevOf <- MCDevOf
  NoBlock = NoBlock
  None = None
  MaxWrites = 2
  MaxErrors = 1
  Calls <- MCCalls
  Ahead <- MCAhead
SYMMETRY Symmetry
INVARIANTS BufferWaiter UniqueBlock HeldBuffers LockOwner Coherent Durable
PROPERTY SyncFlushes
