SPECIFICATION Spec
CONSTANTS
  Chains = {c1, c2, c3}
  Size = 2
  NicSize = 2
  MaxSegs = 2
  Burst = 2
  Responses = TRUE
  NULL = NULL
  Other = Other
SYMMETRY Symmetry
INVARIANTS TransmittedFirst
CHECK_DEADLOCK FALSE
