----------------------------- MODULE MCToolIpc -----------------------------
(* Small instances of ToolIpc. *)
EXTENDS ToolIpc

CONSTANTS m1, m2, m3

\* A message has room for 64 bytes.  A sysctl that needs the larger buffer, a
\* call whose handler is not built in, ff_traffic, and calls that move buf_addr,
\* one of them in vain.
Calls == {sysctl(40, 100, 0), ngctl(10), traffic_status, rtioctl(8), ioctl_va(8, 60)}

\* Calls of one type, with and without the larger buffer, so that late answers meet later calls.
LateCalls == {sysctl(2, 4, 0), sysctl(40, 100, 0), ipfw_ctl(10)}

=============================================================================
