# f-stack-lite in TLA+

f-stack-lite runs the FreeBSD 11 TCP/IP stack in user space: one thread polls a
DPDK port, feeds frames to the stack, advances its clock and runs the
application. This directory holds TLA+ models of parts of that program, TLC
configurations that check them on small instances, and TLAPS proofs.

Run from this directory: `tlc -workers 2 -config MCCallout.cfg MCCallout`,
`tlapm CalloutProofs.tla`, and so on.

## The system and its parts

| part | code | here |
|---|---|---|
| callout facility: kernel timers, `timeout(9)` | `lib/ff_kern_timeout.c` | modelled, proved |
| message rings between the stack and tools | `ff_dpdk/ff_message.h`, `tools/compat/*.c`, `lib/ff_msg.h` | modelled in part, proved in part |
| timing wheel of the client example | `example/fstack0/timingwheel.c` | modelled |
| packet conversion, DPDK mbufs to and from stack mbufs | `ff_dpdk/ff_dpdk.h`, `lib/ff_mbuf.c` | modelled |
| virtual interface | `lib/ff_veth.c` | in part: receiving and sending |
| epoll over kqueue | `lib/ff_epoll.c` | modelled |
| client example: events, sockets, HTTP module, device | `example/fstack0/` | in part |
| page array memory (`FF_USE_PAGE_ARRAY`) | `lib/ff_memory.c` | in part, proved |
| poll-mode driver glue, kernel interface | `lib/ff_dpdk_if.c`, `lib/ff_dpdk_kni.c` | in part |
| start of the stack | `lib/ff_init_main.c` | modelled, proved |
| the rest of the start, environment | `lib/ff_init.c`, `lib/ff_freebsd_init.c`, `lib/ff_kern_environment.c` | not modelled |
| socket calls | `lib/ff_syscall_wrapper.c` | not modelled |
| routing messages | `lib/ff_route.c` | not modelled |
| locks, sleep, condition variables, interrupts | `lib/ff_lock.c`, `lib/ff_kern_*.c` | no-ops |
| host interface, glue | `lib/ff_host_interface.c`, `lib/ff_glue.c`, `lib/ff_compat.c` | not modelled |
| netgraph, configuration | `lib/ff_ng*.c`, `lib/ff_config.c`, ... | not modelled |
| FreeBSD | `freebsd/` | mbufs with external storage, kqueue and socket filters |
| command line tools, vendored libraries | `tools/` | vendored |

Three of these are not in the default build of this repository and are kept from
the original project: `ff_dpdk_if.c`, `ff_dpdk_kni.c` and, unless
`FF_USE_PAGE_ARRAY` is set in `lib/Makefile`, `ff_memory.c`.

How they interact. The loop of a program (for instance
`example/fstack0/main.c`) receives a burst of frames, hands each to
`ff_veth_process_packet()`, calls `ff_hardclock()` every 10 ms, and then its own
code, which calls the socket functions and `ff_kevent()`. TCP's timers are
callouts, so they run inside `ff_hardclock()`. The client example keeps
reconnect timers of its own on a timing wheel that the same loop triggers. A
tool such as `ff_sysctl` is another process attached to the same shared memory;
it sends requests over a ring which a program serves when its loop calls
`process_msg_ring()`. With `ff_dpdk_if.c` several processes share a port: each
polls one receive queue and passes packets to the others over rings.

Because there is one thread, and locks do nothing, "concurrency" in the stack
means a function that is called back in the middle of a walk and calls the
facility that is walking. Between the stack and a tool it is the real thing.

## Modules

| module | what it is |
|---|---|
| `Clock` | arithmetic of the wrapping `int ticks` |
| `Queue` | the `LIST_*` macros of `sys/queue.h` on sequences |
| `TimerService` | abstract specification: what callouts promise |
| `Callout` | `ff_kern_timeout.c` |
| `ToolIpc` | the message rings |
| `TimingWheel` | `timingwheel.c` |
| `PacketPath` | `ff_dpdk.h`, `ff_mbuf.c`, the packets of `ff_veth.c` and `device.c`, the mbufs of `kern_mbuf.c` |
| `Kqueue` | what `ff_epoll.c` needs of `kern_event.c`, as operators on a kqueue |
| `EpollService` | abstract specification: what a program may rely on |
| `Epoll` | `ff_epoll.c` over `Kqueue`, with a program and the network |
| `Client` | the client example, composed with `Kqueue` and the network of `Epoll` |
| `TxRing` | sending without copying: `ff_memory.c` and the send path of `ff_dpdk_if.c` |
| `Dispatch` | the receive path of `ff_dpdk_if.c` in several processes, `ff_dpdk_kni.c` |
| `Startup` | `mi_startup()` and `sysinit_add()` of `ff_init_main.c` |
| `MC...` | small instances for TLC, one for each of the above that has runs |
| `QueueProofs` | lemmas about the list operators |
| `CalloutProofs` | safety of `Callout` |
| `CalloutTimingProofs` | timing of `Callout`, refinement of `TimerService` |
| `ToolIpcProofs` | safety of `ToolIpc`, and that late answers do no harm |
| `TxRingProofs` | safety of `TxRing` |
| `StartupProofs` | order and completeness of `Startup` |

Definitions named `Slip...` are wrong versions of the definition that follows
them. No specification uses them: replacing the right version by the wrong one
must break the property that is meant to notice.

### Callout

State: the fields of `struct callout_cpu` and of the callouts under their own
names (`wheel` is `cc_callwheel`), and the local variables of `softclock()` that
live across a call of a callout function (`curticks`, `cur`). `pc` says where
the thread is:

    loop -> callout_tick -> softclock -> bucket -> function -> drain
     ^ ff_hardclock returns                ^ walk goes on after the function

Client calls (`callout_reset`, `callout_stop`, which is also `callout_drain` and
`callout_async_drain`, `callout_init`, `callout_deactivate`, `timeout`,
`untimeout`) are possible in `loop`, in `function` and in `drain`, one after the
other, which covers every sequence of calls a callout function can make. A step
of `softclock()` is one turn of its inner loop: `softclock_skip` or
`softclock_run` with the first half of `softclock_call_cc()`; `function_returns`
is the second half. Lists are kept in order since `callout_cc_add()` inserts at
the head, which decides whether a walk meets a new callout.

Left out, with reasons: `cc_cancel` and `cc_waiting` (they matter between
threads, or for a direct callout with a lock, which a KASSERT rules out);
migration and `cc_expireq` (never used by this file); statistics; the
timecounter that `ff_hardclock()` also advances. A direct callout that drains
itself from its own function would spin for ever in the code; callout(9) forbids
the call and the model has no such step.

`Folded` says how the compiler treats `(cc->cc_softticks - ticks) < 0`, which
overflows when `ticks` wraps: `FALSE` is the wrapping subtraction of the default
`-O0` build, `TRUE` the signed comparison that `-O2` may put in its place.

### ToolIpc

`pool`, `ring_in` and `ring_out[type]` are the DPDK mempool and rings, which are
external and modelled by how the code uses them: an `rte_ring` of *n* entries
holds *n - 1*. The pool counts how often a message is in it, since a message can
be freed twice. A tool takes a message and fills it in (`request`), sends it,
and polls; each call is a record with the lengths it compares and how far it
moves `buf_addr`, from the C expressions in the file of that call. `tools/README.md` says
tools must be executed serially, so there is one tool at a time, but a call that
timed out leaves its message with the stack. `serving` and `torn` cover the time
between `process_msg_ring()` dequeuing a message and `handle_msg()` answering
it, in which a tool may have been given the same message again.

A call that finds the pool empty, or that does not fit, changes nothing and is
not a step, except for the second check of `ioctl_va()`, which fails after the
message was changed (`request_too_long`).

### TimingWheel

`slot`, `level`, `period` and the walk's `list` and `temp`, one action for each
visit of `tw_trigger()` and for each result of a timer function; a result that is
neither `TW_SUCCESS` nor `TW_CLOSE`, or a timer without a function, leaves the
timer where it is (`func_other`), to be visited a round later. `due` is not in the
program: it counts the triggers that are left by the period, down to `MinDue`, later
than any timer may be. `OnTime` compares it with where slot and level put the timer.
Two restrictions on callers are
guards of the model, because the code does not survive them: a timer function
deletes neither its own timer (it returns `TW_CLOSE`) nor the one the walk has
already read as next, and a period is at least 10 ms (`WheelAssumption`): two
timers of zero slots would keep `tw_trigger()` walking for ever. The callers in
the tree use 10 ms and 1000 ms and delete nothing.

### PacketPath

`heap` is the state of all mbufs (`m_ext` and the embedded reference count) and
how often each mbuf and each DPDK buffer is in its pool, so that a second free is
seen. `device_run()` takes a burst and converts packet by packet
(`dpdk_mbuf_to_ff()`); `ff_veth_transmit()` converts and frees. In between the
stack may free a chain or the first mbuf of one, copy by reference (`mb_dupcl()`)
and make packets, in any order, which is more than its protocols do. Every
allocation may fail. The NULL of a failed `dpdk_ff_to_mbuf()` is put into
`tx_buffer` by the code and read by the driver at a flush: the model then stops
(`pc = "crashed"`), so these runs do not check for deadlock.

`RxSegs` is the number of segments of a received packet. The example sets up its
port so that it is 1 (`device.c:55-59`); the conversion is written for chains,
and with `RxSegs = 2` both kinds of packets come in.

### Kqueue, Epoll, EpollService

A kqueue is a value: its knotes and the queue of active ones. Sockets are reduced
to what `filt_soread()` and `filt_sowrite()` look at. `ff_epoll_ctl()` is one
step with its two changes in order and the error of the first that fails;
`ff_epoll_wait()` is a scan with room for `MaxEvents`. The program opens,
registers, reads, writes and closes; the network connects, delivers,
acknowledges, and ends connections. The refinement mapping to `EpollService`
takes `asked` for the interest, what the filters hold for the events that are
ready, and the returned events for the reports.

Descriptors are sockets; a kqueue or a pipe registered in place of one is left
out. With `EPOLLONESHOT` the kqueue drops a knote when it has reported it, which
epoll does not do: `AllOrNothing` and the mapping to `EpollService` say in their
definitions where such descriptors are excepted (`Left`, `Lasting`).

### Client

`w = [kq, so, s]`, the kqueue, the sockets of the stack and the program's
`struct sock`s, is passed through operators with the names of the functions,
since one event handler calls many of them. A handler is one step: there is one
thread, and the network acts only while the loop polls the port. What makes an
event stale is an earlier one of the same array, which is why `batch` is state.
Failures and amounts are an `Answer`, chosen for each handler. The timer of the
loop is `TimingWheel`; here it may go off at any time until it returns `TW_CLOSE`
(`timer`). It opens a connection, counts it, and only then compares the count with
`client_num_config`. That number is 0 unless the option `-C` is given, and then the
comparison never succeeds: connections are opened for ever. The model has this case
(`ClientNums` contains 0) with `MaxOpened` as the bound. When the application
closes itself (a socket could not be opened) the memory the loop goes on to use
is freed: the model stops there (`app = "freed"`), as it does at an event whose
`struct sock` was freed (`"crashed"`). `Fills` are the connections whose send
buffer may take only part of a request; only these wait for a write event and a
read event together, and `NoStaleEvent` and `EndedByPeer` are about the others.

A request is two parts, so that a write can be cut short between them. A part is
numbered by how far it is behind the end of what was written, and `sent`, which is not
in the program, is the one the stack took last: `InOrder` then sees a part, and a
whole request, that is left out, repeated or out of place. The order is that of a
`struct sock`: `socket_reconnect()` keeps what is buffered, so the rest of a request
that an ended connection did not take is the first thing its successor sends. The
property says that this happens in order, not that the new peer can use it.

### TxRing

A chain is a model value that is free, held by the stack, waiting, taken by the
port, or in `nic_tx_ring`. `rte_eth_tx_burst()` takes packets one at a time
while the descriptors they need are done; the port transmits at any time.
`ff_enq_tx_bsdmbuf()` then enters what was taken. Conversions that end in
`rte_panic()` are not steps. Every chain may end up forgotten, after which
nothing moves: no check for deadlock. A packet that a dispatcher sends back has
no chain, but its entry of `bsd_m_table` may still hold an earlier one; `again`,
which is not in the code, collects the chains this happens to.

### Dispatch

Each process is in its loop, in its ring or in its receive queue (`pc`), and
handles one packet per step; putting the copies of an ARP packet into the rings
takes one step for each. Processes interleave at these steps. ARP and IPv6
neighbour discovery packets are treated alike by the code and are one kind.
`away` counts buffers that are with a stack, the port or the kernel, who free
them at any later time. In both directions between kernel and port a burst may be
taken in part, and the rest is freed at once. `ring_size` is fixed at the start.
`h.lost`, not in the code, collects the packets that were
freed on the way or could not be copied, for `ArpEverywhere`.

### Startup

The two loops of the sort are steps of one comparison (`sipp`, `xipp`), the walk
one step for each task. A task is marked `SI_SUB_DONE` when it has returned, and
then the code looks for new tasks: the mark is set in the old table's task, which
the new table shares.

The comment at `ff_init_main.c:224-225` says that the last item "is expected to be
the scheduler, which will not return". That is FreeBSD's kernel; the schedulers
(`sched_4bsd.c`, `sched_ule.c`) are not built here and no `SYSINIT` of the library
is one, and `ff_freebsd_init()` relies on `mi_startup()` returning (`ff_freebsd_init.c:228`).
The model has tasks of both kinds: those of `Endless` do not return. `Starts` says that
`mi_startup()` ends or is in such a task, and with `Endless = {}`, this library, that it
ends. In this library nothing sets
`preload_metadata` (`freebsd/kern/subr_module.c:39`), so `linker_preload()`, the
caller of `sysinit_add()`, adds nothing as built; with `Preloaded = {}` the
proved theorem covers that program too. Startup ends: no check for deadlock.

## Runs

| run | result | shows |
|---|---|---|
| `callout` | passes | wheel, flags and walk agree (`WheelOK`, `WalkOK`), no callout is missed (`NothingMissed`), no preallocated callout is lost or handed out twice (`LocalsOK`), the facility implements `TimerService`, every pending callout is served (`Served`), `ff_hardclock()` returns (`LoopResumes`) |
| `callout_stop_running` | violation | finding 1 |
| `ipc` | passes | no message lost (`NoneLost`), one owner and live arguments until the first timeout (`OneOwner`), what late answers cannot harm (`SoleAnswer`), sent calls are answered (`Answered`) |
| `ipc_wrong_result` | violation | finding 2 |
| `wheel` | passes | no freed timer is touched (`WalkSafe`), every timer is on time (`OnTime`) and fires again and again (`Fires`) |
| `packet` | passes | every DPDK buffer (`BuffersConserved`) and every mbuf (`MbufsConserved`) has one place, whatever the stack frees, copies and sends and whatever fails |
| `packet_storage` | violation | finding 3 |
| `epoll` | passes | the kqueue holds no freed knote and loses no wakeup (`QueueOK`), failed calls change nothing (`AllOrNothing`), `ff_epoll.c` implements `EpollService`, no socket starves (`Reported`) |
| `client` | passes | no event is stale when handled (`NoStaleEvent`), a descriptor has one owner (`OneOwner`), parsers start afresh (`ParserFresh`), requests leave in order (`InOrder`), only ended connections are given up (`EndedByPeer`), and their end is noticed (`Noticed`) |
| `txring` | passes | a chain is freed only after the port has transmitted it (`TransmittedFirst`) |
| `dispatch` | passes | a buffer has one owner (`OneOwner`), a packet reaches one place (`OnePlace`) in order (`InOrder`), no packet circulates (`Settled`), ARP reaches all (`ArpEverywhere`) |
| `startup` | passes | tasks run in ascending order (`Ascending`), each exactly once (`CalledOnce`), and the start ends or comes to a task that does not (`Starts`) |

`TypeOK` is an invariant of the runs of the modules for which it is not proved.

### Bounds

- Callout. `Half = 3`: the clock has six values and wraps within a few steps; a
  callout can be reset for the longest time an `int` holds. `callwheelsize = 2`
  makes callouts of different ticks share a list. A client's callout and a
  preallocated one meet on it, and one preallocated callout reaches the exhausted
  table. Longer lists are left to the proofs, which are for any number.
- Tools. Rings of two entries fill up; two messages and three timeouts let late
  answers meet a later call. `BufLen = 64` separates calls that fit from those
  that need the larger buffer. `MaxOff` bounds how far `buf_addr` moves. After
  `MaxTimeouts` no call is made: no check for deadlock.
- Timing wheel. Two slots (15 ms rounds up) with periods of one slot, one round,
  and two rounds and a slot. Three timers are the one that fires, the one the
  walk has read as next, and one behind it.
- Packets. Four mbufs and three buffers: a chain of two, a copy of it, and empty
  pools in either direction. `TxSize = 2` flushes early.
- Epoll. One socket has two filters, and with room for one event they compete.
  `udata` changes tell a modification apart from what was there before.
- Client. Two sockets, one of them with a send buffer that fills, two events in
  an array (two of one socket, or one of each), and descriptors that are reused
  at once. With one connection configured the timer stops there; with none
  configured it opens three, so that two are open together and one is replaced.
- TxRing. Two places, packets of one or two segments, three chains: the ring
  wraps in a burst and a chain can be waiting, taken and in the ring. Any size is
  proved.
- Dispatch. Two processes, of which the primary also serves the kernel. Two packets
  and three buffers: rings of two entries (`RingSizes`) let both wait in one ring
  and be taken in one burst, rings of one entry are found full, and copies find the
  pool empty.
- Startup. Two tasks linked in and two modules of one task, with three values of
  the subsystem (one of them marks a dummy) and two of the order. The task of one
  module does not return, so both ends of `Starts` are reached.

Symmetry of interchangeable mbufs, buffers and chains is used in the runs without
liveness (`packet`, `packet_storage`, `txring`).

### Fairness

- `Callout`: weak fairness of `System`. The loop calls `ff_hardclock()` for
  ever, `softclock()` does not stop half way, callout functions return.
- `ToolIpc`: weak fairness of the stack, whose loop calls
  `process_msg_ring()` in every turn, and of the steps of a waiting tool. None
  of the timeout: `Answered` is about being answered.
- `TimingWheel`: weak fairness of `Trigger`, which the loop calls every 10 ms.
- `Epoll`: a program keeps calling `ff_epoll_wait()` as long as something is
  due (`Due`), as the loops of the examples do in every turn.
- `Client`: weak fairness of `event_wait` and `netio_poll`: `main_loop` never
  stops. None of the network.
- `Dispatch`: weak fairness of every process, whose `main_loop()` has no exit. A
  process can always take a step that changes something, so this is stated as
  infinitely many steps of each, which TLC checks faster.
- `Startup`: weak fairness of `mi_startup()`, the only thing that runs; a task
  that is not in `Endless` returns.

Nothing is assumed of clients, the port or peers: no liveness property needs them
to do anything.

## Findings

1. `lib/ff_kern_timeout.c:595`: `softclock()` passes `direct = 1` for every
   callout; `callout_stop()` of a running one that is not direct looks in
   entity 0, does not find it, and leaves `CALLOUT_ACTIVE` set, against the
   comment at line 861.
2. `tools/compat/sysctl.c:144` (and the other callers): a call that times out
   frees a message the stack still holds. `SoleAnswer` says when this is
   harmless, `ResultOfProcessing` that it is not always.
3. `lib/ff_mbuf.c:69`: the mbufs of later segments hold no reference to the DPDK
   packet, which goes back to its pool with the first mbuf. Only with packets of
   several segments, which the example's port does not deliver.

Other places where the code does less than a comment or a caller may expect were
met while modelling. The models follow the code there, and the properties
that pass say what they except:

- `lib/ff_kern_timeout.c:317`: when `ticks` wraps (248 days at 100 Hz), a build
  that compares instead of subtracting (`Folded = TRUE`) runs no callout any more.
  The `callout` run and the timing proofs are for `Folded = FALSE`.
- `tools/compat/ioctl.c:117`, `tools/compat/rtioctl.c:103`: `buf_addr` is
  advanced and never restored (`off`, up to `MaxOff`).
- `tools/compat/sysctl.c:57`, `tools/libnetgraph/compat.c:98`: the length that is
  compared with `buf_len` is less than what is placed in the buffer. The bytes
  that are placed are not in the model.
- `lib/ff_mbuf.c:69`: `ext_type` is 0, for which `mb_free_ext()` does not free
  the mbuf: `Unfreed` in `MbufsConserved`.
- `ff_dpdk/ff_dpdk.h:73`: a packet whose conversion fails at a later segment is
  freed twice, just before the caller writes through `NULL`: `pc = "crashed"`.
- `lib/ff_epoll.c:75`, `:78`: edge-triggering is fixed when a descriptor is added,
  and one-shot descriptors cannot be armed again with `EPOLL_CTL_MOD`.
- `lib/ff_epoll.c:124`: `EPOLLHUP` is reported as soon as the peer has closed its
  side, which the comment in `example/fstack0/netio.c:28-31` does not expect.
- `example/fstack0/netio.c:19`: with a full send buffer a connection waits for two
  events, and the second may find its `struct sock` freed: `Fills`.
- `example/fstack0/main.c:66`: without `-C` the number of connections is 0 and the
  timer that opens them never stops: `client_num_config = 0` in `TypeOK`.
- `lib/ff_init_main.c:224-225`: the comment expects a last task that does not
  return, which this library does not have: `Endless` in `Starts`.
- `lib/ff_dpdk_if.c:666`: the port may have more descriptors than `nic_tx_ring` has
  places (`NicSize > Size`), and then still reads freed chains.
- `lib/ff_dpdk_if.c:1318`: a packet without a chain uses an old entry of
  `bsd_m_table`: `again`.
- `lib/ff_memory.c:464`: a failed conversion resets the table of waiting packets,
  which are forgotten with their chains.

## Proofs

All for every value of the constants that the named assumptions
(`HalfAssumption`, `CalloutAssumption`, `IpcAssumption`, `TxRingAssumption`,
`StartupAssumption`) allow.

- `CalloutSafety`: `Spec => [](TypeOK /\ WheelOK /\ WalkOK)`. The inductive
  invariant `Inv` is the conjunction itself. The wheel alone is not inductive:
  the walk removes the callout it looks at from the bucket it believes it to be
  in, which `WalkOK` says it is; and `WalkOK` needs the lists to be free of
  duplicates, or unlinking a callout could leave `cc_exec_next()` behind. Lists
  are handled by the lemmas of `QueueProofs` alone, so that no proof about
  callouts opens a sequence.
- `TimeoutTable`: `Spec => [](RunningOK /\ LocalsOK)`. `LInv` adds both to
  `Inv`: a preallocated callout that has run is freed only because it is the
  running one and nobody could re-arm it meanwhile.
- `CalloutTiming`: with `Folded = FALSE`, `Spec => [](Lockstep /\
  NothingMissed)`. `TInv` adds both to `Inv`. A step of the walk keeps every due
  callout at or behind the cursor in list order, which is where the order of
  lists enters.
- `CalloutImplementsTimerService`: with `Folded = FALSE`, `Spec =>
  TimerServiceSpec`, from `SInv = TInv /\ RunningOK`. Reset is `Arm`, stop is
  `Disarm`, `softclock_run` is `Run`, `ff_hardclock` is `Tick`; the walk stutters.
- `NoMessageLost`: `Spec => [](TypeOK /\ NoneLost)`, from `IInv`, which adds that
  a tool holds a message exactly while it makes a call and that the message has
  the type of the call.
- `OneOwnerUntilTimeout`: `Spec => []OneOwner`, from `FirstCalls` beside `IInv`:
  as long as no call has timed out, exactly the tool's message is missing from the
  pool, and it has one copy at most, which is where the call has come to.
- `LateAnswersHarmless`: `Spec => SoleAnswer`, an action property, from
  `LastHandled`: while a call waits, its message is still to be handled, or is
  being handled as it was filled in, or holds the answer to this call. The stack
  takes messages in the order they were sent, so a message with one copy that has
  come back has been handled for this call.
- `FreedSafely`: with `NicSize = Size` and no packets sent back, `Spec =>
  [](TransmittedFirst /\ InFlight \cap free = {})`. What is free says nothing of
  where the two rings are, so the invariant adds that every chain is in one place
  only (`Sole`), that the ring's head follows the port's tail by exactly what is
  taken and not yet entered (`InStep`), and that each descriptor in use belongs
  to a taken packet or to the same place of the ring (`Covered`). Reusing a place
  then means its descriptor is done.
- `StartsInOrder`: `Spec => [](Ascending /\ CalledOnce)`. The two loops of the
  sort keep a sorted prefix (`Sorting`); in the walk only pending tasks are in
  order, since marks of finished ones are no longer sorted (`Walking`); a merged
  table holds every task of the sets that were added (`Merged`).

Only model-checked: liveness (`Served`, `LoopResumes`, `Answered`, `Fires`,
`Reported`, `Noticed`, `Settled`, `ArpEverywhere`, `Starts`), which is out of the
prover's reach; the properties of
`TimingWheel`, `PacketPath`, `Epoll`, `Client` and `Dispatch`. `PacketPath`,
`Kqueue` and `Client` fold operators over sequences, about which the prover could
conclude nothing without induction over data.

## Not modelled

Of the modelled parts, what their sections name: contents of packets, requests and
answers, statistics, offload flags. A tool that is killed during a call loses its
message, and nothing in the code handles that. Paths that end in a panic are not
steps.

The parts that the first table calls not modelled:

- Socket calls, routing messages: each call copies arguments, calls the kernel's
  function and copies results back; nothing is kept between calls.
- Locks, sleep, condition variables, interrupts: empty in this library.
- Host interface, glue: single calls of libc and constants.
- Netgraph and configuration: one request passed on, an INI file read once;
  neither is in the default build.
- FreeBSD's protocols, about 2.5 million lines with drivers, headers and the
  vendored tools: far beyond a model checker. They appear as what they may do to
  callouts, mbufs and sockets. This is also why the models cover a small share of
  the repository's lines, though most of the state machines of its own.
