SPECIFICATION Spec
CONSTANTS
  m1 = m1  m2 = m2  m3 = m3
  Msgs = {m1, m2, m3}
  Requests <- LateCalls
  Supported = {"FF_SYSCTL", "FF_IOCTL", "FF_ROUTE", "FF_TOP", "FF_TRAFFIC"}
  Unsupported = {"FF_NGCTL", "FF_IPFW_CTL"}
  BufLen = 64
  MSG_RING_SIZE = 4
  MaxTimeouts = 2
  MaxOff = 8
  NULL = NULL
PROPERTY ResultOfProcessing
