SPECIFICATION Spec
CONSTANTS
  Mbufs = {m1, m2, m3}
  Bufs = {b1, b2, b3}
  RxSegs = 2
  TxSegs = 2
  Burst = 2
  TxSize = 2
  MaxChains = 2
  NULL = NULL
SYMMETRY Symmetry
INVARIANTS StorageHeld
CHECK_DEADLOCK FALSE
