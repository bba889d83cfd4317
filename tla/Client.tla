------------------------------- MODULE Client -------------------------------
(***************************************************************************)
(* The HTTP client of example/fstack0: main_loop() runs the timer that     *)
(* opens connections, handles the events of its sockets and polls the      *)
(* port.  The network acts on the sockets of the stack only while the loop *)
(* polls the port, never between two events of one array, because there is *)
(* one thread: what makes an event stale is an earlier event of the array. *)
(*                                                                         *)
(* A world w = [kq, so, s] is the kqueue, the sockets of the stack and the *)
(* client's struct socks; Udata is the set of pointers to the latter.  An  *)
(* answer a is what the stack and the peer make of the calls of a handler. *)
(***************************************************************************)
EXTENDS Kqueue

CONSTANTS ClientNums, \* what the option -C may say, and 0 if it is not given
          MaxEvents,  \* MAX_EVENTS
          MaxPool,    \* bound on the buffered parts of requests
          MaxOpened,  \* bound on the connections the timer opens
          Fills       \* the socks whose send buffers may fill up

ASSUME ClientAssumption ==
  /\ {MaxEvents, MaxPool, MaxOpened} \subseteq Nat \ {0}
  /\ ClientNums \subseteq Nat /\ Fills \subseteq Udata
  /\ Fds \subseteq Nat \ {0} /\ IsFiniteSet(Fds)

VARIABLES
  kq, sock,            \* the kqueue and the sockets of the stack
  s,                   \* the struct socks that are allocated
  batch,               \* the events that netio_poll() has not handled yet
  app,                 \* "live", "freed", or "crashed" at a sock that was freed
  client_num_config, client_num_current,
  timer                \* of timer_add_connect: "armed", or "closed" by TW_CLOSE

main_app == <<client_num_config, client_num_current, timer>>

vars == <<kq, sock, s, batch, app, main_app>>

Net == INSTANCE Epoll WITH Modes <- {{}}, asked <- <<>>, events <- <<>>,
                           result <- [fd |-> 0, error |-> "none"]

\* A request is sent in two parts, and a send buffer may take only the first.  The
\* number of a part says how far it is behind: the next request's will be 2 and 1.
HTTP_GET == <<2, 1>>

\* The parts before a request is written, seen from behind it.
Older(parts) == [i \in DOMAIN parts |-> parts[i] + Len(HTTP_GET)]

\* pool is the parts that are buffered; parser is "mid" inside a response; sent, of
\* no use to the program, is the part that the stack took last.
Sock == [fd : Fds \cup {0}, stat : {"CONNECTING", "ESTABLISHED"}, pool : Seq(Nat \ {0}),
         parser : {"start", "mid"}, sent : Nat \ {0}]

Answer == [more : BOOLEAN,                     \* data is left after a read
           read : {"part", "whole", "next"},   \* of a response, what was read
           room : 1 .. MaxPool + 3,            \* parts that fit into the send buffer
           open : {"no_socket", "refused", "connecting"}]

\* A send buffer that does not fill up has room for more than a request.
Answers(p) == {a \in Answer : p \in Fills \/ a.room = 3}

Init ==
  /\ kq = EmptyKqueue /\ sock = <<>> /\ s = <<>> /\ batch = <<>>
  /\ app = "live" /\ client_num_config \in ClientNums /\ client_num_current = 0
  /\ timer = "armed"

-----------------------------------------------------------------------------
(* Calls of the stack.                                                     *)

ff_close(w, fd) ==
  [w EXCEPT !.so = Net!Without(@, fd), !.kq = knote_fdclose(@, fd)]

event_ctl(w, op, p, ev) ==
  [w EXCEPT !.kq = kqueue_kevent(@, w.so, Net!ff_epoll_changes(op, w.s[p].fd, ev, {}, p)).kq]

event_add(w, p, ev) == event_ctl(w, "ADD", p, ev)
event_mod(w, p, ev) == event_ctl(w, "MOD", p, ev)
event_del(w, p) == event_ctl(w, "DEL", p, {})

\* The lowest descriptor that is free, or 0 for a failure.
ff_socket(w, a) ==
  LET free == Fds \ DOMAIN w.so
  IN IF a.open # "no_socket" /\ free # {} THEN CHOOSE fd \in free : \A g \in free : fd <= g ELSE 0

-----------------------------------------------------------------------------
(* socket.c                                                                *)

socket_read(w, p, a) ==
  LET fd == w.s[p].fd
      so == w.so[fd]
  IN CASE so.rcv -> [w |-> [w EXCEPT !.so[fd].rcv = a.more], ret |-> "data"]
       [] ~so.rcv /\ so.error -> [w |-> [w EXCEPT !.so[fd].error = FALSE], ret |-> "ERROR"]
       [] ~so.rcv /\ ~so.error /\ so.cantrcv -> [w |-> w, ret |-> "SHUTDOWN"]
       [] OTHER -> [w |-> w, ret |-> "INPROCESS"]

\* Slip: data is not buffered when what was buffered before it is not all taken.
SlipNotBuffered(w, p, data, a) ==
  LET fd == w.s[p].fd
      before == Older(w.s[p].pool)
      all == before \o data
      taken == IF w.so[fd].space THEN Min({a.room, Len(all)}) ELSE 0
      rest == IF taken < Len(before) THEN SubSeq(before, taken + 1, Len(before))
              ELSE SubSeq(all, taken + 1, Len(all))
      last == Older(<<w.s[p].sent>>) \o all
  IN CASE w.s[p].stat = "CONNECTING" ->
            [w |-> [w EXCEPT !.s[p].pool = all, !.s[p].sent = last[1]], ret |-> "INPROCESS"]
       [] w.s[p].stat # "CONNECTING" /\ ~w.so[fd].connected -> [w |-> w, ret |-> "ERROR"]
       [] OTHER ->
            [w |-> [w EXCEPT !.s[p].pool = rest, !.s[p].sent = last[taken + 1],
                             !.so[fd].space = @ /\ a.room > Len(all)],
             ret |-> IF rest = <<>> THEN "SUCCESS" ELSE "INPROCESS"]

\* The buffered parts are written before data; what does not fit is buffered.
\* An error other than EWOULDBLOCK loses data, not what was buffered before.
socket_write(w, p, data, a) ==
  LET fd == w.s[p].fd
      before == Older(w.s[p].pool)
      all == before \o data
      taken == IF w.so[fd].space THEN Min({a.room, Len(all)}) ELSE 0
      rest == SubSeq(all, taken + 1, Len(all))
      last == Older(<<w.s[p].sent>>) \o all
  IN CASE w.s[p].stat = "CONNECTING" ->
            [w |-> [w EXCEPT !.s[p].pool = all, !.s[p].sent = last[1]], ret |-> "INPROCESS"]
       [] w.s[p].stat # "CONNECTING" /\ ~w.so[fd].connected -> [w |-> w, ret |-> "ERROR"]
       [] OTHER ->
            [w |-> [w EXCEPT !.s[p].pool = rest, !.s[p].sent = last[taken + 1],
                             !.so[fd].space = @ /\ a.room > Len(all)],
             ret |-> IF rest = <<>> THEN "SUCCESS" ELSE "INPROCESS"]

\* The sock is freed; closing a descriptor that is not open does nothing.
socket_close(w, p) ==
  LET c == ff_close(w, w.s[p].fd) IN [c EXCEPT !.s = Net!Without(@, p)]

\* Slip: the old descriptor is not closed.
SlipKeepsOld(w, p, a) ==
  LET fd == ff_socket(w, a)
  IN IF fd = 0 \/ a.open = "refused"
     THEN [w |-> [w EXCEPT !.s[p].stat = "CONNECTING"], ret |-> "ERROR"]
     ELSE [w |-> [w EXCEPT !.so = Net!With(@, fd, NewSocket), !.s[p].fd = fd,
                           !.s[p].stat = "CONNECTING"],
           ret |-> "INPROCESS"]

\* What is buffered stays buffered.
socket_reconnect(w, p, a) ==
  LET closed == ff_close([w EXCEPT !.s[p].stat = "CONNECTING"], w.s[p].fd)
      fd == ff_socket(closed, a)
      opened == [closed EXCEPT !.s[p].fd = fd, !.so = Net!With(@, fd, NewSocket)]
  IN CASE fd = 0 -> [w |-> [closed EXCEPT !.s[p].fd = 0], ret |-> "ERROR"]
       [] fd # 0 /\ a.open = "connecting" -> [w |-> opened, ret |-> "INPROCESS"]
       [] OTHER -> [w |-> ff_close(opened, fd), ret |-> "ERROR"]

-----------------------------------------------------------------------------
(* module.c and module_http.c                                              *)

\* Slip: the client goes on waiting for EPOLLOUT when all is written.
SlipWaitsForBoth(w, p, data, a) ==
  event_mod(socket_write(w, p, data, a).w, p, {"EPOLLIN", "EPOLLOUT"})

module_cb_write(w, p, data, a) ==
  LET r == socket_write(w, p, data, a)
  IN CASE r.ret = "SUCCESS" -> event_mod(r.w, p, {"EPOLLIN"})
       [] r.ret = "INPROCESS" -> event_mod(r.w, p, {"EPOLLIN", "EPOLLOUT"})
       [] OTHER -> r.w

module_http_on_connected(w, p, a) == module_cb_write(w, p, HTTP_GET, a)

\* The end of a response makes http_message_complete_cb() send the next request.
module_http_on_read(w, p, a) ==
  LET parsed == [w EXCEPT !.s[p].parser = IF a.read = "whole" THEN "start" ELSE "mid"]
  IN IF a.read = "part" THEN parsed ELSE module_cb_write(parsed, p, HTTP_GET, a)

\* Slip: the parser is not reset.
SlipNotReset(w, p) == w

module_http_on_reset(w, p) == [w EXCEPT !.s[p].parser = "start"]

-----------------------------------------------------------------------------
(* netio.c                                                                 *)

netio_on_connected(w, p, a) ==
  module_http_on_connected(event_mod([w EXCEPT !.s[p].stat = "ESTABLISHED"], p, {"EPOLLIN"}), p, a)

netio_on_connect_failed(w, p) == socket_close(event_del(w, p), p)

netio_on_error(w, p, a) ==
  LET r == socket_read(w, p, a)
      last == IF r.ret = "data" THEN module_http_on_read(r.w, p, a) ELSE r.w
      again == socket_reconnect(event_del(module_http_on_reset(last, p), p), p, a)
  IN CASE w.s[p].stat = "CONNECTING" -> netio_on_connect_failed(w, p)
       [] w.s[p].stat # "CONNECTING" /\ again.ret = "INPROCESS" -> event_add(again.w, p, {"EPOLLOUT"})
       [] OTHER -> socket_close(again.w, p)

netio_on_read(w, p, a) ==
  LET r == socket_read(w, p, a)
  IN IF r.ret = "data" THEN module_http_on_read(r.w, p, a) ELSE netio_on_error(r.w, p, a)

netio_on_write(w, p, a) == IF w.s[p].stat = "CONNECTING" THEN netio_on_connected(w, p, a) ELSE w

\* What netio_poll() does with one event: each has one of EPOLLIN and EPOLLOUT.
Handled(w, e, a) ==
  CASE e.events \cap {"EPOLLHUP", "EPOLLERR"} # {} -> netio_on_error(w, e.udata, a)
    [] e.events = {"EPOLLIN"} -> netio_on_read(w, e.udata, a)
    [] e.events = {"EPOLLOUT"} -> netio_on_write(w, e.udata, a)

World == [kq |-> kq, so |-> sock, s |-> s]

Becomes(w) == kq' = w.kq /\ sock' = w.so /\ s' = w.s

\* netio_poll() asks for events,
event_wait ==
  /\ app = "live" /\ batch = <<>>
  /\ LET r == kqueue_scan(kq, sock, MaxEvents)
     IN /\ kq' = r.kq
        /\ batch' = [i \in DOMAIN r.events |-> Net!ff_event_to_epoll(r.events[i])]
  /\ UNCHANGED <<sock, s, app, main_app>>

Pending == app = "live" /\ batch # <<>> /\ ~(\E p \in DOMAIN s : Len(s[p].pool) > MaxPool)

\* and handles them one after the other.
netio_poll ==
  /\ Pending /\ batch[1].udata \in DOMAIN s
  /\ \E w \in {Handled(World, batch[1], a) : a \in Answers(batch[1].udata)} : Becomes(w)
  /\ batch' = Tail(batch)
  /\ UNCHANGED <<app, main_app>>

\* The event is of a sock that an earlier event has freed.
netio_poll_freed ==
  /\ Pending /\ batch[1].udata \notin DOMAIN s
  /\ app' = "crashed"
  /\ UNCHANGED <<kq, sock, s, batch, main_app>>

-----------------------------------------------------------------------------
(* main.c                                                                  *)

\* Slip: the count is compared before it is increased.
SlipOneTooMany ==
  /\ app = "live" /\ batch = <<>> /\ timer = "armed" /\ client_num_current < MaxOpened
  /\ \E p \in Udata \ DOMAIN s : \E a \in Answers(p) :
       LET fd == ff_socket(World, a)
           w == [World EXCEPT
                   !.so = Net!With(@, fd, NewSocket),
                   !.s = Net!With(@, p, [fd |-> fd, stat |-> "CONNECTING", pool |-> <<>>,
                                         parser |-> "start", sent |-> 1])]
       IN \/ /\ fd # 0 /\ a.open = "connecting"
             /\ Becomes(event_add(w, p, {"EPOLLOUT"}))
             /\ client_num_current' = client_num_current + 1
             /\ timer' = IF client_num_config = client_num_current THEN "closed" ELSE "armed"
             /\ UNCHANGED app
          \/ /\ fd = 0 \/ a.open = "refused"
             /\ app' = "freed"
             /\ UNCHANGED <<kq, sock, s, client_num_current, timer>>
  /\ UNCHANGED <<batch, client_num_config>>

\* The timer opens a connection, counts it, and is closed when the count equals the
\* number configured, which never happens if that is 0.  If a connection cannot be
\* opened the application is freed, but goes on.
timer_add_connect ==
  /\ app = "live" /\ batch = <<>> /\ timer = "armed" /\ client_num_current < MaxOpened
  /\ \E p \in Udata \ DOMAIN s : \E a \in Answers(p) :
       LET fd == ff_socket(World, a)
           w == [World EXCEPT
                   !.so = Net!With(@, fd, NewSocket),
                   !.s = Net!With(@, p, [fd |-> fd, stat |-> "CONNECTING", pool |-> <<>>,
                                         parser |-> "start", sent |-> 1])]
       IN \/ /\ fd # 0 /\ a.open = "connecting"
             /\ Becomes(event_add(w, p, {"EPOLLOUT"}))
             /\ client_num_current' = client_num_current + 1
             /\ timer' = IF client_num_config = client_num_current' THEN "closed" ELSE "armed"
             /\ UNCHANGED app
          \/ /\ fd = 0 \/ a.open = "refused"
             /\ app' = "freed"
             /\ UNCHANGED <<kq, sock, s, client_num_current, timer>>
  /\ UNCHANGED <<batch, client_num_config>>

\* device_run() and ff_hardclock(): the stack handles packets and timeouts.
device_run ==
  /\ app = "live" /\ batch = <<>>
  /\ Net!Network
  /\ UNCHANGED <<s, batch, app, main_app>>

Next == event_wait \/ netio_poll \/ netio_poll_freed \/ timer_add_connect \/ device_run

Spec == Init /\ [][Next]_vars

\* main_loop() never stops: weak fairness of event_wait, which changes something
\* when a knote is queued, and of netio_poll and netio_poll_freed, of which one is
\* the only step when Pending holds.
FairSpec ==
  /\ Spec
  /\ []<>~(app = "live" /\ batch = <<>> /\ kq.head # <<>>) \/ []<><<event_wait>>_vars
  /\ []<>~Pending \/ []<><<Pending>>_vars

-----------------------------------------------------------------------------
(* Properties.                                                             *)

\* Type invariant; however often connections fail, the timer stops at the number
\* configured and opens no more, and no more are there than were opened.  Without a
\* number (0, the default) it never stops.
TypeOK ==
  /\ DOMAIN s \subseteq Udata /\ \A p \in DOMAIN s : s[p] \in Sock
  /\ DOMAIN sock \subseteq Fds /\ \A fd \in DOMAIN sock : sock[fd] \in Socket
  /\ Len(batch) <= MaxEvents /\ client_num_config \in ClientNums
  /\ client_num_current \in
       0 .. IF client_num_config = 0 THEN MaxOpened ELSE Min({client_num_config, MaxOpened})
  /\ timer = IF client_num_config # 0 /\ client_num_current = client_num_config
             THEN "closed" ELSE "armed"
  /\ Cardinality(DOMAIN s) <= client_num_current
  /\ app \in {"live", "freed", "crashed"}

\* No event is stale when netio_poll() comes to it: its sock was not freed by an
\* earlier event of the same array, it has not got another socket since, perhaps
\* with the same descriptor, and what the event tells of still holds.  A sock
\* whose send buffer fills up waits for two events, and is left out.
NoStaleEvent ==
  \A i \in DOMAIN batch :
    LET e == batch[i]
    IN e.udata \notin Fills => e.udata \in DOMAIN s /\ s[e.udata].fd = e.fd /\ Ready(e.filter, sock[e.fd])

\* Reconnecting, failing to reconnect and closing neither leak a descriptor nor
\* share one: each open socket is the descriptor of exactly one sock, and the
\* kqueue watches it for that sock.
OneOwner ==
  /\ \A fd \in DOMAIN sock : \E p \in DOMAIN s : s[p].fd = fd
  /\ \A p, q \in DOMAIN s : s[p].fd = s[q].fd => p = q
  /\ \A p \in DOMAIN s, f \in Filters :
       s[p].fd \in DOMAIN sock /\ Has(kq, <<s[p].fd, f>>) /\ kq.note[<<s[p].fd, f>>].udata = p

\* A response that a connection left unfinished is not continued by the first
\* bytes of the next connection.
ParserFresh == \A p \in DOMAIN s : s[p].stat = "CONNECTING" => s[p].parser = "start"

\* The client gives up a connection only after the peer has ended it, although
\* netio_on_read() takes "nothing to read now" for the end of the connection.
EndedByPeer ==
  [][\A p \in DOMAIN s \ Fills :
       (p \in DOMAIN s' => s[p].stat = "ESTABLISHED" /\ s'[p].stat = "CONNECTING")
         => sock[s[p].fd].cantrcv]_vars

\* The parts of the requests that socket_write() accepts leave in order, none
\* twice and none left out, however often the send buffer fills: those that are
\* buffered go on where the last write stopped, and lead to the next request.  This
\* is the order over all connections of a sock: what one connection did not take is
\* the first thing that its successor sends.
InOrder ==
  \A p \in DOMAIN s :
    LET parts == <<s[p].sent>> \o s[p].pool
    IN \A i \in DOMAIN parts : parts[i] = Len(parts) - i + 1

\* A connection that is made is noticed, and so is the end of one, unless the
\* client ends before, or one of its buffers reaches MaxPool.
Noticed ==
  \A p \in Udata :
    LET at(stat) == p \in DOMAIN s /\ s[p].stat = stat
        over == app # "live" \/ \E q \in DOMAIN s : Len(s[q].pool) > MaxPool
    IN /\ at("CONNECTING") /\ sock[s[p].fd].connected ~> ~at("CONNECTING") \/ over
       /\ at("ESTABLISHED") /\ sock[s[p].fd].cantrcv ~> ~at("ESTABLISHED") \/ over

=============================================================================
