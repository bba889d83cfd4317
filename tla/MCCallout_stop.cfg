SPECIFICATION Spec
CONSTANTS
  c1 = c1  c2 = c2  f = f
  Clients = {c1, c2}
  cc_callout <- NoLocals
  Funcs = {}
  NULL = NULL
  Half = 3
  callwheelsize = 2
  ToTicks <- FewTicks
  DirectFlags = {FALSE}
  Folded = FALSE
INVARIANT StopClearsActive
