------------------------------- MODULE Kqueue -------------------------------
(***************************************************************************)
(* The part of FreeBSD's kqueue that ff_epoll.c is built on, as operators  *)
(* on a value q = [note, head]: the knotes of the sockets, keyed by        *)
(* descriptor and filter, and the queue of those that are KN_QUEUED.       *)
(*                                                                         *)
(* The state of a socket is what its two filters look at: whether there is *)
(* data to read and room to write, whether it is connected, whether it can *)
(* receive or send no more, and whether it has an error to report.  The    *)
(* library has one thread, so no knote is ever KN_INFLUX for another one.  *)
(***************************************************************************)
EXTENDS Integers, FiniteSets, Sequences, SequencesExt

CONSTANTS Fds,    \* descriptors, of sockets only
          Udata   \* values a program attaches to a descriptor

Filters == {"READ", "WRITE"}

Socket == [rcv : BOOLEAN, space : BOOLEAN, connected : BOOLEAN,
           cantrcv : BOOLEAN, cantsend : BOOLEAN, error : BOOLEAN]

NewSocket == [rcv |-> FALSE, space |-> TRUE, connected |-> FALSE,
              cantrcv |-> FALSE, cantsend |-> FALSE, error |-> FALSE]

\* active and disabled are KN_ACTIVE and KN_DISABLED; clear, oneshot and eof
\* are flags of kn_flags; data and err say that kn_data and kn_fflags are not 0.
Knote == [active : BOOLEAN, disabled : BOOLEAN, clear : BOOLEAN, oneshot : BOOLEAN,
          eof : BOOLEAN, data : BOOLEAN, err : BOOLEAN, udata : Udata]

EmptyKqueue == [note |-> <<>>, head |-> <<>>]

Has(q, k) == k \in DOMAIN q.note
Queued(q, k) == Contains(q.head, k)

Put(q, k, kn) == [q EXCEPT !.note = [j \in DOMAIN q.note \cup {k} |->
                                       IF j = k THEN kn ELSE q.note[j]]]

-----------------------------------------------------------------------------
(* The filters: whether the event holds, and what is noted in the knote.   *)

Ready(filter, so) ==
  IF filter = "READ"
  THEN so.cantrcv \/ so.error \/ so.rcv
  ELSE so.cantsend \/ so.error \/ (so.connected /\ so.space)

filt_soread(kn, so) ==
  [kn EXCEPT !.data = so.rcv, !.eof = @ \/ so.cantrcv,
             !.err = IF so.cantrcv THEN so.error ELSE @]

filt_sowrite(kn, so) ==
  [kn EXCEPT !.data = so.space, !.eof = @ \/ so.cantsend,
             !.err = IF so.cantsend THEN so.error ELSE @]

Noted(filter, kn, so) == IF filter = "READ" THEN filt_soread(kn, so) ELSE filt_sowrite(kn, so)

-----------------------------------------------------------------------------
\* knote_enqueue() of a knote that is active, enabled and not queued yet.
knote_enqueue(q, k) ==
  IF q.note[k].active /\ ~q.note[k].disabled /\ ~Queued(q, k)
  THEN [q EXCEPT !.head = Append(@, k)]
  ELSE q

knote_drop(q, k) == [note |-> [j \in DOMAIN q.note \ {k} |-> q.note[j]],
                     head |-> Remove(q.head, k)]

\* The socket wakes up who waits for the filter.
knote(q, k, so) ==
  IF ~Has(q, k) THEN q
  ELSE LET kn == Noted(k[2], q.note[k], so)
       IN knote_enqueue(Put(q, k, [kn EXCEPT !.active = @ \/ Ready(k[2], so)]), k)

\* The knotes of a descriptor that is closed are dropped.
knote_fdclose(q, fd) == knote_drop(knote_drop(q, <<fd, "READ">>), <<fd, "WRITE">>)

\* Slip: a knote that is enabled again is not put back on the queue.
SlipNotPutBack(q, sock, kev) ==
  LET k == <<kev.fd, kev.filter>>
      kn == IF Has(q, k) THEN [q.note[k] EXCEPT !.udata = kev.udata]
            ELSE [active |-> FALSE, disabled |-> FALSE, clear |-> "CLEAR" \in kev.flags,
                  oneshot |-> "ONESHOT" \in kev.flags, eof |-> FALSE, data |-> FALSE,
                  err |-> FALSE, udata |-> kev.udata]
      able == [kn EXCEPT !.disabled = "ENABLE" \notin kev.flags /\ (@ \/ "DISABLE" \in kev.flags),
                         !.active = @ \/ Ready(kev.filter, sock[kev.fd])]
  IN IF Has(q, k) THEN Put(q, k, able) ELSE knote_enqueue(Put(q, k, able), k)

\* A change kev to the kqueue; sock holds the sockets that are open.
Changed(q, sock, kev) ==
  LET k == <<kev.fd, kev.filter>>
      kn == IF Has(q, k) THEN [q.note[k] EXCEPT !.udata = kev.udata]
            ELSE [active |-> FALSE, disabled |-> FALSE, clear |-> "CLEAR" \in kev.flags,
                  oneshot |-> "ONESHOT" \in kev.flags, eof |-> FALSE, data |-> FALSE,
                  err |-> FALSE, udata |-> kev.udata]
      able == [kn EXCEPT !.disabled = "ENABLE" \notin kev.flags /\ (@ \/ "DISABLE" \in kev.flags)]
      noted == [Noted(kev.filter, able, sock[kev.fd]) EXCEPT
                  !.active = @ \/ Ready(kev.filter, sock[kev.fd])]
  IN knote_enqueue(Put(q, k, IF able.disabled THEN able ELSE noted), k)

kqueue_register(q, sock, kev) ==
  LET k == <<kev.fd, kev.filter>>
      fails(e) == [kq |-> q, error |-> e]
      done(r) == [kq |-> r, error |-> "none"]
  IN CASE kev.fd \notin DOMAIN sock -> fails("EBADF")
       [] kev.fd \in DOMAIN sock /\ ~Has(q, k) /\ "ADD" \notin kev.flags -> fails("ENOENT")
       [] kev.fd \in DOMAIN sock /\ Has(q, k) /\ "DELETE" \in kev.flags -> done(knote_drop(q, k))
       [] OTHER -> done(Changed(q, sock, kev))

\* Changes with no room for events: the first error ends the call.
kqueue_kevent(q, sock, changes) ==
  LET next(r, kev) == IF r.error # "none" THEN r ELSE kqueue_register(r.kq, sock, kev)
  IN FoldLeft(next, [kq |-> q, error |-> "none"], changes)

-----------------------------------------------------------------------------
(* kqueue_scan() takes every knote that is queued when it starts, once, and *)
(* returns at most max events.  A knote that stays active is put behind the *)
(* ones that have not been looked at.                                       *)

Kevent(k, kn) == [fd |-> k[1], filter |-> k[2], eof |-> kn.eof, data |-> kn.data,
                  err |-> kn.err, udata |-> kn.udata]

\* Slip: a knote that stays active stays at the head of the queue.
SlipStaysFirst(r, k, sock, max) ==
  LET kn == r.kq.note[k]
      now == Noted(k[2], kn, sock[k[1]])
      off == [r.kq EXCEPT !.head = Remove(@, k)]
  IN CASE Len(r.events) = max -> r
       [] Len(r.events) < max /\ (kn.disabled \/ ~Ready(k[2], sock[k[1]])) ->
            [r EXCEPT !.kq = Put(off, k, [now EXCEPT !.active = FALSE])]
       [] OTHER -> [kq |-> [Put(off, k, now) EXCEPT !.head = <<k>> \o @],
                    events |-> Append(r.events, Kevent(k, now))]

\* Slip: the filter is not asked again before its event is reported.
SlipNotAsked(r, k, sock, max) ==
  LET now == Noted(k[2], r.kq.note[k], sock[k[1]])
      off == [r.kq EXCEPT !.head = Remove(@, k)]
  IN IF Len(r.events) = max THEN r
     ELSE [kq |-> [Put(off, k, now) EXCEPT !.head = Append(@, k)],
           events |-> Append(r.events, Kevent(k, now))]

\* The next knote of a scan that has returned r so far.
Visit(r, k, sock, max) ==
  LET kn == r.kq.note[k]
      now == Noted(k[2], kn, sock[k[1]])
      off == [r.kq EXCEPT !.head = Remove(@, k)]
      out(q, n) == [kq |-> q, events |-> Append(r.events, Kevent(k, n))]
  IN CASE Len(r.events) = max -> r
       [] Len(r.events) < max /\ kn.disabled -> [r EXCEPT !.kq = off]
       [] Len(r.events) < max /\ ~kn.disabled /\ kn.oneshot -> out(knote_drop(off, k), kn)
       [] Len(r.events) < max /\ ~kn.disabled /\ ~kn.oneshot /\ ~Ready(k[2], sock[k[1]]) ->
            [r EXCEPT !.kq = Put(off, k, [now EXCEPT !.active = FALSE])]
       [] OTHER ->
            IF kn.clear
            THEN out(Put(off, k, [now EXCEPT !.active = FALSE, !.data = FALSE, !.err = FALSE]), now)
            ELSE out([Put(off, k, now) EXCEPT !.head = Append(@, k)], now)

\* Slip: one event more than there is room for is returned.
SlipOneMore(q, sock, max) ==
  LET visit(r, k) == Visit(r, k, sock, max + 1)
  IN FoldLeft(visit, [kq |-> q, events |-> <<>>], q.head)

kqueue_scan(q, sock, max) ==
  LET visit(r, k) == Visit(r, k, sock, max)
  IN FoldLeft(visit, [kq |-> q, events |-> <<>>], q.head)

=============================================================================
