SPECIFICATION FairSpec
CONSTANTS
  Fds = {f1}
  Udata = {u1, u2}
  Modes <- Kinds
  MaxEvents = 1
INVARIANTS TypeOK QueueOK
PROPERTIES AllOrNothing EpollServiceSpec Reported
