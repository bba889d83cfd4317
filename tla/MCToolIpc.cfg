SPECIFICATION FairSpec
CONSTANTS
  m1 = m1  m2 = m2  m3 = m3
  Msgs = {m1, m2}
  Requests <- Calls
  Supported = {"FF_SYSCTL", "FF_IOCTL", "FF_ROUTE", "FF_TOP", "FF_TRAFFIC"}
  Unsupported = {"FF_NGCTL", "FF_IPFW_CTL"}
  BufLen = 64
  MSG_RING_SIZE = 3
  MaxTimeouts = 3
  MaxOff = 8
  NULL = NULL
INVARIANTS NoneLost OneOwner
PROPERTIES SoleAnswer Answered
CHECK_DEADLOCK FALSE
