SPECIFICATION FairSpec
CONSTANTS
  Tasks = {1, 2, 3, 4}
  sysinit_set <- Linked
  Preloaded <- Modules
  Endless = {4}
  Subsystems = {0, 2, 3}
  Orders = {0, 1}
  NULL = NULL
INVARIANTS Ascending CalledOnce
PROPERTY Starts
CHECK_DEADLOCK FALSE
