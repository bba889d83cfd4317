------------------------------- MODULE Epoll --------------------------------
(***************************************************************************)
(* epoll over kqueue: ff_epoll_ctl() turns each control operation into two *)
(* changes of a kqueue, and ff_epoll_wait() each kevent into an event.     *)
(* The program opens, registers, reads, writes and closes sockets while    *)
(* the network connects them, brings data, takes data and ends them.       *)
(***************************************************************************)
EXTENDS Kqueue

CONSTANTS Modes,     \* subsets of {"EPOLLET", "EPOLLONESHOT"} that programs use
          MaxEvents  \* room for events in a call of ff_epoll_wait()

ASSUME EpollAssumption ==
  /\ MaxEvents \in Nat \ {0}
  /\ Modes \subseteq SUBSET {"EPOLLET", "EPOLLONESHOT"}

VARIABLES
  kq,      \* the kqueue
  sock,    \* the open sockets
  asked,   \* the descriptors that were added, with what was last asked for
  events,  \* what the last step returned, if it was an ff_epoll_wait()
  result   \* its error, if it was an ff_epoll_ctl() that failed

vars == <<kq, sock, asked, events, result>>

\* In EPOLL_CTL_ADD and EPOLL_CTL_MOD.
EVENTS == SUBSET {"EPOLLIN", "EPOLLOUT"}

NoResult == [fd |-> 0, error |-> "none"]

Init ==
  /\ kq = EmptyKqueue /\ sock = <<>> /\ events = <<>> /\ asked = <<>>
  /\ result = NoResult

-----------------------------------------------------------------------------
\* Slip: a filter that is not asked for is left as it is.
SlipLeftAlone(flags, wanted) == flags \cup IF wanted THEN {"ENABLE"} ELSE {}

FilterFlags(flags, wanted) == flags \cup IF wanted THEN {"ENABLE"} ELSE {"DISABLE"}

\* Slip: EV_ADD is set for the first filter only.
SlipAddsOne(op, fd, ev, mode, udata) ==
  LET kev(filter, flags) == [fd |-> fd, filter |-> filter, flags |-> flags, udata |-> udata]
  IN IF op = "DEL"
     THEN <<kev("READ", {"DELETE"}), kev("WRITE", {"DELETE"})>>
     ELSE <<kev("READ", FilterFlags(IF op = "ADD" THEN {"ADD"} ELSE {}, "EPOLLIN" \in ev)),
            kev("WRITE", FilterFlags({}, "EPOLLOUT" \in ev))>>

\* The two changes that a control operation makes.
ff_epoll_changes(op, fd, ev, mode, udata) ==
  LET kev(filter, flags) == [fd |-> fd, filter |-> filter, flags |-> flags, udata |-> udata]
      flags == (IF "EPOLLET" \in mode THEN {"CLEAR"} ELSE {})
                 \cup (IF "EPOLLONESHOT" \in mode THEN {"ONESHOT"} ELSE {})
                 \cup (IF op = "ADD" THEN {"ADD"} ELSE {})
  IN IF op = "DEL"
     THEN <<kev("READ", {"DELETE"}), kev("WRITE", {"DELETE"})>>
     ELSE <<kev("READ", FilterFlags(flags, "EPOLLIN" \in ev)),
            kev("WRITE", FilterFlags(flags, "EPOLLOUT" \in ev))>>

Without(f, x) == [y \in DOMAIN f \ {x} |-> f[y]]
With(f, x, v) == [y \in DOMAIN f \cup {x} |-> IF y = x THEN v ELSE f[y]]

ff_epoll_ctl(op, fd, ev, mode, udata) ==
  LET r == kqueue_kevent(kq, sock, ff_epoll_changes(op, fd, ev, mode, udata))
  IN /\ kq' = r.kq
     /\ result' = IF r.error = "none" THEN NoResult ELSE [fd |-> fd, error |-> r.error]
     /\ asked' = IF r.error # "none" THEN asked
                 ELSE IF op = "DEL" THEN Without(asked, fd)
                 ELSE With(asked, fd, [events |-> ev, udata |-> udata])
     /\ events' = <<>> /\ UNCHANGED sock

\* The events of a kevent.
ff_event_to_epoll(kev) ==
  [udata |-> kev.udata,
   fd |-> kev.fd, filter |-> kev.filter,
   events |->
     (IF kev.filter = "READ" THEN (IF kev.data \/ ~kev.eof THEN {"EPOLLIN"} ELSE {})
                             ELSE {"EPOLLOUT"})
     \cup (IF ~kev.eof THEN {}
           ELSE {"EPOLLHUP"} \cup (IF kev.err THEN {"EPOLLERR"} ELSE {})
                \cup (IF kev.filter = "READ" THEN {"EPOLLIN"} ELSE {"EPOLLERR"}))]

ff_epoll_wait ==
  LET r == kqueue_scan(kq, sock, MaxEvents)
  IN /\ kq' = r.kq
     /\ events' = [i \in DOMAIN r.events |-> ff_event_to_epoll(r.events[i])]
     /\ result' = NoResult
     /\ UNCHANGED <<sock, asked>>

-----------------------------------------------------------------------------
(* The sockets.  A change of a socket that its filters look at wakes up    *)
(* the knotes of the filters named.                                        *)

Becomes(fd, so, filters) ==
  LET wake(q, f) == IF f \in filters THEN knote(q, <<fd, f>>, so) ELSE q
  IN /\ sock' = [sock EXCEPT ![fd] = so]
     /\ kq' = FoldLeft(wake, kq, <<"READ", "WRITE">>)
     /\ events' = <<>> /\ result' = NoResult /\ UNCHANGED asked

open(fd) ==
  /\ fd \notin DOMAIN sock
  /\ sock' = With(sock, fd, NewSocket)
  /\ events' = <<>> /\ result' = NoResult /\ UNCHANGED <<kq, asked>>

close(fd) ==
  /\ fd \in DOMAIN sock
  /\ sock' = Without(sock, fd) /\ kq' = knote_fdclose(kq, fd) /\ asked' = Without(asked, fd)
  /\ events' = <<>> /\ result' = NoResult

soisconnected(fd) ==
  /\ fd \in DOMAIN sock /\ ~sock[fd].connected /\ ~sock[fd].cantsend
  /\ Becomes(fd, [sock[fd] EXCEPT !.connected = TRUE], {"READ", "WRITE"})

data_arrives(fd) ==
  /\ fd \in DOMAIN sock /\ sock[fd].connected /\ ~sock[fd].cantrcv
  /\ Becomes(fd, [sock[fd] EXCEPT !.rcv = TRUE], {"READ"})

\* The peer acknowledges data and there is room again.
data_acked(fd) ==
  /\ fd \in DOMAIN sock /\ sock[fd].connected /\ ~sock[fd].cantsend
  /\ Becomes(fd, [sock[fd] EXCEPT !.space = TRUE], {"WRITE"})

socantrcvmore(fd) ==
  /\ fd \in DOMAIN sock /\ sock[fd].connected /\ ~sock[fd].cantrcv
  /\ Becomes(fd, [sock[fd] EXCEPT !.cantrcv = TRUE], {"READ"})

\* The connection is refused, reset or timed out.
soisdisconnected(fd) ==
  /\ fd \in DOMAIN sock /\ ~sock[fd].cantsend
  /\ Becomes(fd, [sock[fd] EXCEPT !.connected = FALSE, !.cantrcv = TRUE, !.cantsend = TRUE,
                                  !.space = TRUE, !.error = TRUE], {"READ", "WRITE"})

\* The program reads what there is, or the error.
soreceive(fd) ==
  /\ fd \in DOMAIN sock /\ (sock[fd].rcv \/ sock[fd].error)
  /\ Becomes(fd, IF sock[fd].rcv THEN [sock[fd] EXCEPT !.rcv = FALSE]
                 ELSE [sock[fd] EXCEPT !.error = FALSE], {})

\* The program writes until there is no room.
sosend(fd) ==
  /\ fd \in DOMAIN sock /\ sock[fd].connected /\ sock[fd].space
  /\ Becomes(fd, [sock[fd] EXCEPT !.space = FALSE], {})

-----------------------------------------------------------------------------
Program ==
  \/ ff_epoll_wait
  \/ \E fd \in Fds :
       \/ open(fd) \/ close(fd) \/ soreceive(fd) \/ sosend(fd)
       \/ \E ev \in EVENTS, mode \in Modes, u \in Udata, op \in {"ADD", "MOD"} :
            ff_epoll_ctl(op, fd, ev, mode, u)
       \/ ff_epoll_ctl("DEL", fd, {}, {}, "NULL")

Network ==
  \E fd \in Fds : soisconnected(fd) \/ data_arrives(fd) \/ data_acked(fd)
                  \/ socantrcvmore(fd) \/ soisdisconnected(fd)

Next == Program \/ Network

Spec == Init /\ [][Next]_vars

\* Another call of ff_epoll_wait() would report something else than the last.
Due == kq.head # <<>> /\ ToSet(kq.head) # {<<events[i].fd, events[i].filter>> : i \in DOMAIN events}

\* The loop of a program calls ff_epoll_wait() for ever: its weak fairness, as
\* far as there is something to report.
FairSpec == Spec /\ ([]<>~Due \/ []<><<ff_epoll_wait>>_vars)

-----------------------------------------------------------------------------
(* Properties.                                                             *)

Knotes == Fds \X Filters

\* Type invariant.
TypeOK ==
  /\ DOMAIN sock \subseteq Fds /\ \A fd \in DOMAIN sock : sock[fd] \in Socket
  /\ DOMAIN kq.note \subseteq Knotes /\ \A k \in DOMAIN kq.note : kq.note[k] \in Knote
  /\ kq.head \in Seq(Knotes) /\ Len(events) <= MaxEvents
  /\ DOMAIN asked \subseteq Fds

\* kqueue_scan() follows no pointer to a knote that was freed, and no knote is
\* on the queue twice, whatever is added, changed, deleted, fired once or closed
\* while it is queued.  No wakeup is lost: an enabled knote is on the queue
\* whenever its event holds, or if it is edge-triggered or fires once, whenever
\* the event was activated and not reported, although ff_epoll_ctl() disables and
\* enables filters while events come and go, and a full array ends a scan early.
QueueOK ==
  /\ ToSet(kq.head) \subseteq DOMAIN kq.note /\ IsInjective(kq.head)
  /\ \A k \in DOMAIN kq.note : k[1] \in DOMAIN sock
  /\ \A k \in DOMAIN kq.note :
       LET kn == kq.note[k]
       IN ~kn.disabled /\ (kn.active \/ (~kn.clear /\ Ready(k[2], sock[k[1]]))) => Queued(kq, k)

Name(filter) == IF filter = "READ" THEN "EPOLLIN" ELSE "EPOLLOUT"

Wanted(k) == k[1] \in DOMAIN asked /\ Name(k[2]) \in asked[k[1]].events

Left(fd) == {f \in Filters : <<fd, f>> \in DOMAIN kq.note}

\* A call that fails has changed nothing, unless the kqueue has dropped one of
\* the two knotes of the descriptor, as it does with EPOLLONESHOT: ff_epoll_ctl()
\* needs two changes, and the first is not taken back when the second fails.
AllOrNothing ==
  [][result'.error # "none" => kq' = kq \/ Cardinality(Left(result'.fd)) = 1]_vars

\* What was asked for still stands: no knote of the descriptor fires only once.
Lasting(fd) == \A f \in Filters : f \in Left(fd) /\ ~kq.note[<<fd, f>>].oneshot

\* No socket starves, however few events fit in the array: one that stays ready
\* for what the program waits for is reported.
Reported ==
  \A k \in Knotes :
    Lasting(k[1]) /\ Wanted(k) /\ ~kq.note[k].clear /\ Ready(k[2], sock[k[1]])
      ~> \/ \E i \in DOMAIN events : events[i].fd = k[1] /\ events[i].filter = k[2]
         \/ ~Wanted(k) \/ ~Ready(k[2], sock[k[1]])

\* ff_epoll.c implements epoll, as far as EpollService describes it, for
\* descriptors that are not registered with EPOLLONESHOT.
Service ==
  INSTANCE EpollService WITH
    interest <- [fd \in {g \in DOMAIN asked : Lasting(g)} |-> asked[fd]],
    ready <- [fd \in DOMAIN sock |-> {Name(f) : f \in {g \in Filters : Ready(g, sock[fd])}}],
    reports <- LET lasting(e) == Lasting(e.fd)
                   told == SelectSeq(events, lasting)
               IN [i \in DOMAIN told |-> [fd |-> told[i].fd, udata |-> told[i].udata,
                                          event |-> Name(told[i].filter)]]

EpollServiceSpec == Service!Spec

=============================================================================
