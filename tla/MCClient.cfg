SPECIFICATION FairSpec
CONSTANTS
  Fds = {1, 2}
  Udata = {s1, s2}
  ClientNums = {0, 1}
  MaxOpened = 3
  MaxEvents = 2
  MaxPool = 2
  Fills = {s1}
INVARIANTS TypeOK NoStaleEvent OneOwner ParserFresh InOrder
PROPERTIES EndedByPeer Noticed
CHECK_DEADLOCK FALSE
