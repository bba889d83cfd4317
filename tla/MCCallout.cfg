SPECIFICATION FairSpec
CONSTANTS
  c1 = c1  c2 = c2  f = f
  Clients = {c1}
  cc_callout <- OneLocal
  Funcs = {f}
  NULL = NULL
  Half = 3
  callwheelsize = 2
  ToTicks <- FewTicks
  DirectFlags = {FALSE, TRUE}
  Folded = FALSE
INVARIANTS WheelOK WalkOK NothingMissed LocalsOK
PROPERTIES TimerServiceSpec Served LoopResumes
